# SillyTUI: a TLA+ model of the chat front end and its inference engine

This project models SillyTUI: the chat screen and its requests to a language model, what those
requests say and how their answers come back, the files chats are kept in, the dialogs, and the
inference engine that the repository carries beside the chat, with its kernels, tokenizers and
threads. The modules are translated from the C sources under `src/`; `PROJECT.json` names, for every
definition, the lines it stands for.

## The system

SillyTUI is one process with an ncurses screen. The main thread runs a loop that reads a key and
handles it to the end. A request to a model runs inside the handler of the key that started it:
libcurl calls back into the program while bytes arrive, and no key is read before the request ends.
Only the inference engine has threads of its own; it is a library with an example program, and of it
the chat uses the tokenizers.

| Part | Where | State | Operations | Talks to |
|---|---|---|---|---|
| Chat history | `chat/history.c` | messages; per message its swipes and five arrays that run beside them | add, update, add swipe, delete, swap, set statistics, set reasoning | owned by the session, written by stream callbacks |
| Chat session | `main.c` | selection, focus, move mode, in-place edit, dialog, running request | keys, slash commands, three callbacks, end of request, auto save | history, chat files, LLM client, dialogs |
| Chat files | `chat/chat.c` | one JSON file per chat, a directory per character | save, auto save (with and without note), load, load latest, delete, list | session, dialogs |
| Chat file codec | `chat/chat.c` | the file's text | escape and write; scan | chat files |
| Author's note | `chat/author_note.c` | text, depth, position, role | set, reset, (de)serialise with the chat | session, chat files, prompt |
| LLM client | `llm/llm.c`, `llm/common.c` | stream context: line buffer, reasoning clock, abort flag | send, feed bytes, deliver content, reasoning and progress | session callbacks, curl |
| LLM backends | `llm/backends/` | none between calls | build a request within the context size; parse an event | LLM client, lorebook, note |
| Lorebook | `lore/lorebook.c` | entries with uid, keys, order | load, save, add, remove, toggle, match, build context | session, prompt |
| Characters, persona | `character/` | a card, a persona | read PNG or JSON, copy to the configuration directory | session |
| Models | `core/config.c` | list of models, the index of the one in use, their file | add, edit, remove, select | dialogs, session |
| Sampler settings | `llm/sampler.c` | values and the table of custom samplers, a file per API | add, remove, load, save | dialogs, requests |
| Dialogs | `ui/modal.c` | one modal record: form fields, lists, editors, scrolls | open, key, close, draw | session, models, samplers, chat files |
| Screen | `ui/` (the rest) | suggestion box, console ring, markdown | draw | session |
| Tokenizers | `inference/tokenizer/` | vocabulary, merges, caches, tries | encode, decode | session (counts), models |
| Inference models | `inference/model`, `inference/kernels/kv_cache` | keys and values per layer and position | load, forward, reset, generate | kernels |
| Kernels, sampling | `inference/kernels/`, `inference/backend` | none between calls | products, attention, norms, rotations, activations, draw | models |
| Softmax pool | `inference/kernels/softmax/softmax_neon.c` | worker slots, mutexes, condition variables, a busy count | parallel_for, worker loop, set number of threads | softmax kernels |
| Inference registry | `inference/backend/registry.c` | backends and their capabilities | register, select, dispatch | nothing in `src/` |

### What is hard in it

* **Indices that outlive what they point at.** `selected_msg`, the message of an in-place edit, the
  message of the delete dialog and the message of a request are plain integers into one array that
  keys, commands, loads and callbacks change.
* **Callbacks.** Content, reasoning and the spinner overwrite the same message in an order the server
  and the timer choose, and one of them changes `selected_msg` behind the handler that waits.
* **What is on disk.** Every change is followed by a save, nearly. Saves overwrite in place; loads
  destroy the history before they know that the file is good; the author's note goes into some saves
  and not into others; ids are made from the clock.
* **The thread pool.** A slot's work is written without a lock in the caller, read without a lock
  in the worker, and the flag that says it is done is cleared before the mutex is taken.
* **Limits.** `MAX_SWIPES`, arrays that are never grown, a pool whose size is fixed by its first use,
  `display[8192]` for a reply, the arrays of the tokenizers, a table of 16 custom samplers whose last one is
  written when the table is full.
* **Bytes.** An answer is cut anywhere; a chat file is scanned for characters that texts may contain.
* **Budgets.** What is sent is counted backwards from the last message while notes and depths are counted
  from both ends.
* **Scrolls and cursors.** Each dialog keeps them in integers of its own, moved by keys and clamped by the
  drawing, over lists that change length.
* **Two codes for one thing.** Each kernel has a plain and a vector version that meet at remainders; three
  encoders compute the same merges with three data structures that keep stale entries.

`PROJECT.json` lists these one by one under `hazards`, at their lines, with the properties that watch
them.

### What makes each part correct

* History: parallel arrays stay parallel; no sequence of operations loses or doubles a turn.
* Session: indices stay valid; edits and deletes hit what the user saw; a request writes only to its
  own message and shows its outcome; the model sees exactly what came before; statistics belong to the
  text they are shown with; the file keeps up with the screen; the keyboard comes back.
* Chat files: a save replaces only an older version of the same chat; what was saved comes back.
* Codec: a text that is saved and loaded is the same text.
* Lorebook: uids are unique and the file's; loading terminates; a toggle hits what the list shows; an entry
  is sent when its keys say so, once, in its place.
* Requests: as much of the history as fits and its newest part; the note where its depth says.
* Stream: the same events come out however the bytes are cut.
* Dialogs: what is selected exists and is on the screen; a list, its file and the index in use agree.
* Tokenizers: the tokens spell the text, as far as the fixed arrays reach, joined in the order the vocabulary gives;
  the best segmentation.
* Models: each token attends to exactly the tokens before it; a pass frees each buffer once.
* Kernels: each output is what the plain loop says, at every width and thread count.
* Pool: each row once; no context is used after its call; no wakeup is lost.

## Modules

| Module | What it is |
|---|---|
| `History` | operators: `ChatHistory` and its functions as values and functions on them |
| `Session` | state machine: the chat screen (extends `History`) |
| `Conversation` | abstract specification: what the user gets from the chat screen |
| `SessionProof` | theorems about `Session` |
| `ChatStore` | state machine: chat files, ids and directories; save, load, delete, crash, restart |
| `ChatStoreProof` | theorems about `ChatStore` |
| `Lorebook` | state machine: loading a lorebook, one entry after the other; toggle and clear |
| `LorebookProof` | theorems about `Lorebook` |
| `SoftmaxPool` | state machine: `parallel_for` and its workers, one step per access to shared memory |
| `ForkJoin` | abstract specification: calls that compute each row once and return |
| `SoftmaxPoolProof` | theorems about `SoftmaxPool` |
| `ChatCodec` | state machine: a chat written and read back, character by character |
| `Prompt` | state machine: how much history fits, lore, and the request of each backend |
| `Stream` | state machine: reads of bytes, lines, events |
| `Relay` | abstract specification: the texts of the events, in order, each once |
| `RequestProof` | theorems about `Prompt`, `Stream` and `Relay`, as `MCRequest` has them |
| `TextEdit` | state machine: the text editors with their cursor and scroll |
| `SamplerDialog` | state machine: the sampler settings, their editors and their file |
| `ModelDialogs` | state machine: the list of models, its dialogs, file and tokenizer |
| `Forms` | state machine: lists and buttons of the other dialogs, persona and settings |
| `Generation` | state machine: passes over the layers, the caches, the generation loop |
| `ModelConfig` | the constants of a model, shared by `Generation` and its instance |
| `EngineProof` | theorems about `Generation` and `Gemm` with `DotProduct`, as `MCEngine` has them |
| `TokenizersProof` | theorems about `Pretokens`, `Tiktoken` and `SentencePiece`, as `MCTokenizers` has them |
| `DotProduct`, `Gemm` | operators: inner loops; state machine: matrix products by kernel and thread |
| `RowReference`, `RowKernels` | operators: rows by the plain loops; state machine: the vector kernels |
| `Attention` | state machine: flash attention and its threads |
| `Sampling` | state machine: the filters and the draw |
| `Pretokens` | state machine: how a text is cut into pieces |
| `Tiktoken`, `Gpt2Bpe`, `SentencePiece` | state machines: the three encoders |
| `Merging` | abstract specification: joins in the order of the ranks |
| `DoubleArray` | state machine: the trie of the unigram model |
| `MCSession`, `MCChatStore`, `MCLorebook`, `MCSoftmaxPool` | instances for TLC |
| `DialogsProof` | theorems about `MCDialogs`: the sampler settings, the list of models, the smaller dialogs, the text editors |
| `MCDialogs`, `MCRequest`, `MCEngine`, `MCTokenizers` | instances of several modules that share nothing: each behaviour is one of a single module |
| `MCInference` | `MCEngine` and `MCTokenizers` in one run, in the same way |

### Session and History

A step is a key with its whole handler, one callback of the running request, or the end of the
request together with the rest of the handler that waited for it. Indices count from 1, so
`MSG_SELECT_NONE` is 0. A text is a record: its kind (whose prefix it has, or what the program wrote
there), the request that wrote it and how many chunks of the answer it holds. Statistics are the
number of the request they came from: this is what tells a right index from a wrong one. `saved` is
what the file of the current chat holds. `display[8192]` of `stream_callback` has room for `DisplayRoom` chunks: what
is shown and saved of a reply is no more than these (`Displayed`), however much has come.

Times, counts and rates are one field, `stats`, because the code allocates, grows and sets their three arrays
together. `finish` is the array of finish reasons, which has a life of its own: `history_add` leaves it NULL (`<<>>`),
`history_add_swipe` makes it one slot longer than the swipes and writes only the last slot, so that the slots before
are unwritten memory (`Junk`) when it was NULL (`GrownFinish`); `history_set_finish_reason` allocates it with zeros if
it still is (`FinishArray`); and a request sets it only if the server named a reason (`main.c:595`, `2421`; `named` in
`Measured`). A load builds its messages with the same operations, so a loaded message with swipes has such a slot
(`RestoredFinish`).

| Code | Model |
|---|---|
| Enter on text, `do_llm_reply` | `SendMessage`, `SendWithoutModel` |
| right arrow on the last swipe of the last message | `Regenerate`, `RegenerateWithoutModel` |
| `stream_callback`, `reasoning_callback`, `progress_callback` | `ReceiveContent`, `ReceiveBlank`, `ReceiveReasoning`, `Tick` |
| the three outcomes of `llm_chat` | `RequestFails`, `RequestEmpty`, `RequestDone` |
| arrows, `e`, `m`, `d`, Enter, Escape, resize | `SelectUp` ... `Resize` |
| `/chat new`, `/clear`, `/char load`, `/char unload`, `/sys`, `/chat load` | `StartOver` ... `LoadDamaged` |

Left out of `Session`: editing the input line, scroll mode (arrows that move the view and not the
selection), the wording of messages, memory outside the arrays (a write past the reasoning array is
listed as a hazard), and allocation failure. Of the other fixed buffers, the input line and an edit
hold `INPUT_MAX` (8192) bytes, past which a typed key does nothing (an edit of a text that the file gave longer begins
with what fits), and a greeting is cut at `first_msg[4096]`: a text that the user or a card gives is the one that
fits. A `/char load` that fails opens a
message and changes nothing `Session` has. Texts come back from the file as they were; which do is in `ChatCodec`.

`Conversation` has only the log, whether an answer is awaited, and the file. In it a request is one
step: a turn is added or a swipe is added, or nothing. The refinement mapping shows the log as it was
when the running request began.

### ChatStore

`Session` has one file, `ChatStore` has all of them and forgets what is in a history but its chat and
the number of the change that made it. `files` is the file system, by directory and id; `writing` is a
save between `fopen` and `fclose`; `hist`, `cid`, `card`, `path` and `note` are the program's `history`,
`current_chat_id`, `character`, `current_char_path` and `author_note`. `card` is `Erased` when
a failed `/char load` has emptied the record (`character.c:310`, and the PNG reader the same) but
`character_loaded` still says that there is one: saves then go to the default directory, under no name. A step is a
command or key with its whole handler, except that a save ends in a step of its own, so that a crash or a full disk can come
before it. A file is absent, blank (`fopen` has emptied it), cut before its messages (`head`), cut among
them, or whole.

| Code | Model |
|---|---|
| `chat_save`, `chat_save_with_note`, the two auto saves | `Save`, `AutoSave`; `FinishSave`, `DiskFull` |
| a message or any edit by key; `/sys`, `/clear` (save without the note) | `Talk`; `Remark` |
| `/chat new`, `/char load`, `/char greetings`, `/char unload` | `ChatNew`, `LoadCard`, `ChooseGreeting`, `UnloadCard` |
| a `/char load` that fails and leaves the card in use without a name | `FailLoadCard` |
| `/note` and its variants | `SetNote` |
| `chat_load`, `chat_load_with_note`: one directory, then all | `Found`, `Tried` |
| `/chat load <character> <id>`, `/chat load <character>`, the suggestion box, Enter in the list | `LoadById`, `LoadLatest`, `ChooseSuggestion`, `OpenListed` |
| `chat_delete`; `d` in the list | `Unlinked`; `DeleteListed` |
| save dialog, overwrite dialog | `SaveAs`, `SaveOver` |
| exit, crash and the next start | `Restart` |

`kept` and `shared` are ghosts. `kept` is what the user has a right to find: the last change of each chat
that a save completed, until the user deletes or overwrites the chat, or a save of the same chat is cut
off. (A save in place may lose the old version with the new; the code promises no more.) `shared` are the
chats whose id has come to name another one, in one of the three ways the code has: two chats begun by one
run within a second, what is on the screen after a failed load saved over the chat before, and an
overwrite of a chat that has copies in other directories. Every property excludes exactly these, and the
definition `Excused` is where a reader can see them.

Left out: titles (that another chat has the same title is a choice of the environment), `created_at`,
files in the base directory itself, which no version of this code writes, loads by index, which nothing
calls, and the skipped auto save of an empty history, which only a failed load leaves. A card that a file
names may fail to load. Two runs have different process numbers (modulo 2^16, as in the id). The codec
is taken as exact.

### Lorebook

| Code | Model |
|---|---|
| `lorebook_add_entry`, `lorebook_get_entry`, and the renaming in `lorebook_load_json` | `Added`, `GetEntry`, `Loaded` |
| the turns of the load loop | `LoadEntry`, `SkipComma`, `LoadStuck` |
| `/lore load`, `/lore toggle`, `/lore clear` | `LoadBegin`, `Toggle`, `Clear` |

An entry is its uid and whether it is disabled; which entry it is shows in its place in the array, since the
loader only appends. A file is what the loop meets in it, in order: an entry, something it passes over, or
something at which it turns without moving. `read` is a ghost, the uids read so far. Left out: keys, texts,
matching and the context of a request; `lorebook_remove_entry` and `lorebook_save_json`, which the program never
calls; the name and scan depth of a book; `INT_MAX` entries.

### SoftmaxPool

Threads have a program counter, the caller (`parallel_for`) and each worker. Every lock, test, wait,
wakeup and unlocked access is a step of its own. Rows are numbers, `times[r]` counts how often row
`r` was computed. `slot[w]` is the `worker_t` the caller fills, `busy` the flags, `at` where a worker
stands, `job` what it has fetched. A caller of a later call may find a worker of an earlier one still
on its way to its signal, as in the code.

Left out: the arithmetic of a row (`Row` computes one), the shutdown flag, which nothing sets, calls
with nothing to do, and the shortcut for at most four rows that does not use the pool.

### ChatCodec

A character is a string; a word of the format and a number are one character each. White space, the fields
before the note and the numbers of the note are left out. The loader takes one turn of its outer loop per step;
the inner loops, which find the end of a string, the next key of a name and the end of an object, are operators
that scan the same text.

| Code | Model |
|---|---|
| `escape_json`, `chat_save_with_note` | `Escape`, `WrittenNote`, `WrittenMessage`, `Save` |
| `find_json_string` | `Find`, `ValueEnd`, `FindJsonString` |
| `try_load_chat_from_path_with_note` up to the array | `Open` |
| its turns: an object, a string as older files have it, anything else, the end | `ReadObject`, `ReadString`, `Skip`, `Finish` |

`ChatComesBack` says what the loader can be relied on for: texts without control characters and, in messages,
without a closing brace or a backslash at the end (`Plain`); and that everything before the first other text comes
back too. All other modules take texts as values that come back.

### Prompt

| Code | Model |
|---|---|
| `lore_entry_matches`, `lorebook_find_matches`, the sort, `lorebook_build_context` | `Matches`, `FindMatches`, `Sorted`, `BuildLore` |
| the loop that counts messages from the last one back | `Count`, `CountEnds` |
| `openai_build_request`, `anthropic_build_request`, `kobold_build_request` | `OpenAiRequest`, `AnthropicRequest`, `KoboldRequest`, `Build` |

`Messages` is the loop over the messages that are sent (`Sent`) with the note in front of the one it belongs to;
`Request` is the backend `llm_chat` calls. A message is its role and the words lore looks for; what it costs is any of
`Costs` each time it is counted, because tokens are counted by the tokenizer, by a server or by length, whichever
answers. An entry has its secondary keys and, apart from them, whether it is selective: only then are they asked for
(`lorebook.c:241`). A request is a sequence of items: what each is and, for a message, which. Left out: placeholders in texts, escaping, attachments, sampler fields.

### Stream and Relay

| Code | Model |
|---|---|
| `stream_callback` of `llm/common.c`: the line buffer | `Receive`, `Read`, `Step` |
| `openai_parse_stream`, `anthropic_parse_stream` | `OpenAiEvent`, `AnthropicEvent` |
| the end of the transfer | `End` |

A byte stands for the beginning of an event, for a byte of its text, or for a line end. `Relay` is what a user is
promised: the texts of the events in order, each once, however the bytes were cut.

### TextEdit, SamplerDialog, ModelDialogs, Forms

A step is a key with the whole of its handler in `modal_handle_key` and the drawing that follows it before the next
key is read, since the drawing moves the scrolls.

| Code | Model |
|---|---|
| fields of a form, edit of a message, import, token counter | `FieldKey`, `MessageKey`, `YamlKey`, `TokensKey`; `Follow` for the scroll |
| sampler settings and their keys | `KeyUp`, `KeyDown`, `Step`, `Type`, `Backspace`, `RemoveCustom`, `Save` |
| form for a sampler, bulk import | `StartAdding`, `ConfirmAdding`; `StartImport`, `Import` |
| editors of lists and dictionaries | `EnterEditor`, `EnterValue`, `ItemUp`, `ItemDown`, `AddListItem`, `AddEntry`, `RemoveItem` |
| `sampler_save`, `sampler_load`, `sampler_add_custom` | `Save`, `Loads`, `Add` |
| `config_add_model`, `config_remove_model`, `config_set_active`, `config_save_models` | `SaveNew`, `Removed`, `Use`, `Saves` |
| `chat_tokenizer_set`, `update_tokenizer_for_model`, `/tokenizer` | `SetTokenizer`, `UpdateTokenizer`, `TokenizerCommand` |
| lists and questions with buttons | `Select`, `Move` and one action per dialog (`ChatListKey` ... `DeleteKey`) |

In `SamplerDialog` a place where the code leaves a buffer or follows a null pointer is the state "broken". What the
dialogs do to chats is in `ChatStore` and `Session`.

### Generation

A number computed for a token stands for that token as long as everything it was computed from is right, and for
`Junk` from then on. `fed`, `epoch` and `failed` are ghosts: what the caches ought to hold.

| Code | Model |
|---|---|
| `qwen3_forward` up to the layers; one turn of the layer loop; the rest | `Begin`; `LayerForward`; `Project`, `ProjectFails` |
| `attention_forward`, `ffn_forward_*`, `kv_cache_append_*` | operators of the same names, `Appended`, `Reads` |
| `qwen3_model_reset_cache` | `Reset` |
| `qwen3_generate` | `Generate`, `SampleOn`, `SampleEnd` |

### Kernels

| Code | Model |
|---|---|
| inner loops of the products, plain, unrolled and pipelined | `Plain`, `Unrolled`, `Pipelined`, `Amx32` (`DotProduct`) |
| dispatch, blocks, threads, packing of `kernels/gemm` and `amx_backend.c` | `Dispatch`, `Path`, `Parts`, one action per kernel and thread function, `Join` (`Gemm`) |
| `*_scalar.c` of activation, norm, rope, softmax, embedding | operators of the same names (`RowReference`) |
| `*_neon.c` of the same | `Strip`, `NextPass`, `NextRow` over `Writes`, `Summed` (`RowKernels`) |
| `flash_attention_*`, `flash_attention_mha_f32` | `Rescaled`, `RescaledWhenLarger`, `Accelerated`; `HeadsOf`, `Join` (`Attention`) |
| `sampling_sample_f32` and its filters | `Greedy`, `Softmax`, `MinP`, `TopK`, `TopP`, `Temperature`, `Draw` (`Sampling`) |

A number is a term, or the set of terms that were added to it: what is checked is which numbers go into which output,
how often, and that nothing is left out or done twice where strips, panels, tiles and threads meet. In `Attention`
and `Sampling` the order of numbers matters, so scores are integers there and a weight is its exponent.

### Tokenizers

| Code | Model |
|---|---|
| `pretokenize_cl100k`, `match_pattern` | `SpanEnd` by pattern, `AddSpan` (`Pretokens`) |
| `bpe_encode_piece` | `EncodePiece`, `MergeParts`, `EmitTokens` (`Tiktoken`) |
| `gpt2_encode` with its heap and cache | `PopMerge`, `PopStale`, `Push`, `Pop`, `Overrun`, `EncodeCached` (`Gpt2Bpe`) |
| `sp_encode_bpe`, `sp_encode_unigram` | `MergePair`, `DropStale`; `VisitPosition`, `Extend`, `Trace` (`SentencePiece`) |
| `build_double_array_trie` | `FindBase`, `LayOut`, `Walk` (`DoubleArray`) |

The merge steps are one iteration of the code's loop each. Each encoder implements `Merging`, in which the pair with the
lowest rank is joined until none can be: a stale entry of a list or a heap is a stutter there.

The fixed arrays of the encoders are constants, in letters where the code counts bytes, as if all letters had one
size:

* `SentencePiece`: `normalized[8192]` (`NormRoom`) cuts the text before anything is done with it (`Fitting`);
  `symbols[4096]` (`SymbolRoom`) cuts what is left for a BPE model; `pairs[8192]` (`PairRoom`) would drop a pair, which
  never happens (`MergesByRank`); `result_ids[4096]` (`ResultRoom`) is filled from the end of the text, so what it has no
  room for is the beginning (`Collected`); `max_ids` (`room`) cuts the end. A unigram piece is searched up to
  `LongestPiece` letters (32). Pieces longer than `SP_MAX_PIECE_LEN` (128 bytes), which a BPE model joins and then
  writes byte by byte, are left out.
* `Gpt2Bpe`: `encoded[2048]` (`EncodedRoom`) and the 511 entries in use of `parts[512]` (`PartRoom`) leave out the letters
  behind (`Encoded`, `Parted`); a piece longer than `BPE_CACHE_MAX_LEN` (`CachedLetters`) is not looked up in the cache;
  `max_ids` (`room`) cuts the tokens, and what it cut goes into the cache so. `heap[512]` (`HeapRoom`) is checked nowhere: when a
  push goes past it the state is "overrun" (`Overrun`) and nothing is said of the program any more. A letter may be no
  token (`Known`): then `unk_id` stands for it, or nothing does (`Unknown`).

The properties state what is left: `Sp!TokensSpell`, `BestSegmentation` and `Gpt!TokensSpell` say how much of a text the
tokens spell and which end is missing when one is, and `HeapLasts` for which pieces the heap is never overrun.
`MergesInOrder` is about the letters that have a part, for as long as the heap has not been overrun. Outside the tests nothing
in `src/` calls `sp_encode`; the chat counts tokens with the other two encoders, with room for 8192 (`selector.c`).

## Runs

| Run | Expect | What it shows |
|---|---|---|
| `session` | pass | indices, prompt, statistics, prefixes, file and screen in every order of keys, callbacks and commands; `Session` implements `Conversation`; every request gives the keyboard back |
| `session_failure` | violation | the error of a regenerated swipe is lost once text had arrived (`FailureIsShown`) |
| `chat_store` | pass | what was saved survives other saves, loads, forks, crashes and restarts; files of one id are of one chat; the next save hits its own chat |
| `chat_resume` | violation | a chat resumed with `/chat load <character>` loses its author's note (`ResumesWithNote`) |
| `lorebook` | pass | uids stay apart and are those of the file; a toggle hits one entry; a load ends |
| `lorebook_uids` | violation | entries get each other's uids (`KeepsUids`) |
| `softmax_pool` | pass | rows, contexts, wakeups of the pool in every interleaving; `SoftmaxPool` implements `ForkJoin`; no deadlock |
| `dialogs` | pass | in every dialog what is selected exists and is drawn; cursors stay in their text; models, index in use and file agree; imports add |
| `sampler_reload` | violation | a custom sampler of a truth value is saved in a form that cannot be read back (`SavedIsReadable`) |
| `request` | pass | what each backend sends for every budget, depth and lorebook; `Stream` implements `Relay`; plain chats come back from their file |
| `chat_file` | violation | a backslash at the end of a text, or a closing brace in it, gives other messages than were saved (`MessagesComeBack`) |
| `inference` | pass | kernels agree with the plain loops; caches hold exactly the tokens before; pieces and tokens keep the text as far as the arrays have room; the three encoders implement `Merging`; the unigram model finds the best segmentation; the trie finds exactly its words |

### Bounds

* `session`: a history of up to three messages, two swipes per message (so that `MAX_SWIPES` is
  reached and `history_add_swipe` is refused), two requests with two chunks each, of which `display[]` holds one
  (`DisplayRoom`), so that replies fit and are cut, and two changes by
  keys or commands. Two requests are needed for a statistic to be of the wrong one, two chunks for a
  text to be partial, three messages for a selection that is neither the first nor the last.
* `chat_store`: one card, so two directories and forks between them; two seconds and two runs, so four
  ids, with ids that share the second and ids that share the run; four commands or restarts after the
  first start. Four are needed to begin a chat, begin another, fork it and load or overwrite it. Ticks,
  note changes and ends of saves are not counted. Longer sequences and more of everything are covered by the
  theorems.
* `lorebook`: every file of up to four entries with uids 1, 2, 3 and 7, that is, uids that the loader hands out
  before, at and after their place, and one it never does; repeated uids too. Every file of up to three tokens of
  all kinds. Longer files are covered by the theorem.
* `softmax_pool`: six rows, a pool of four, and 2 to 6 threads per call. These are calls with rows
  left for the caller, with none left, with a worker that gets no chunk, and with more threads than
  the pool has. Two calls let a late worker of the first meet the second. A last chunk that is shorter
  than the others is not in this instance; the theorem covers it. One spurious wakeup is enough to put
  each thread back at its test.
* `dialogs`: two custom samplers of three of the five types (a truth value, which is toggled, and the two that have
  editors; the other two are edited like a list's item), two items each, screens of one or two rows, so that every list
  is longer than its screen and the table gets full; texts of three to six characters on lines of three and screens
  of two; two models of one name and two tokenizers.
* `request`: up to three messages that cost one or two, budgets from -1 to 4, depths up to 4, every book of two
  entries over two words, with secondary keys that count and that do not; reads of up to two bytes of any stream of five bytes with lines cut at two; chats of one or two
  messages with texts of up to two of the eight characters that the writer or the loader treats differently.
* `inference`: products of one to seven rows and three to seven columns with one to six terms, for tiles of two, panels
  of three and one to three threads: sizes below, at and behind each of them. Rows for vectors of 2
  and strips of 4, one to eleven numbers long as each kernel's strips require, so that it meets every remainder. Attention of two queries over three keys with every order of
  scores. Two layers, three positions and two epochs: a prompt of several tokens, single tokens, a reset over old
  entries, and any allocation that fails.
* `inference`, the tokenizers: vocabularies of two and three joins over two letters in every order of
  ranks, including joins that come back, and a list of four for which the heap gets too many entries; pieces of up to seven
  letters, an unknown one among these, with `EncodedRoom` 6, `PartRoom` and `CachedLetters` 5, `HeapRoom` 4 and room for one or nine tokens, so
  that letters lose their part, tokens their place and the heap is overrun, each apart from the others; scores of two and three pieces,
  equal ones too; texts of up to eight letters with `NormRoom` 6, `SymbolRoom` 5, `PairRoom` 12, `ResultRoom` 4 and room for two or
  nine tokens (`IdRooms`), so that each of these cuts some texts and none cuts others; tries of three bytes.

### Fairness

* `Session`: weak fairness of the end of a request. `CURLOPT_TIMEOUT` (`llm/llm.c:303`) ends a
  transfer after 120 seconds whatever the server does. Nothing is assumed of keys or callbacks.
* `ChatStore`: none. All its properties are safety properties: a save may stay open until the crash.
* `Lorebook`: weak fairness of the load loop, which runs within one command. `LoadEnds` is about files without
  `other` tokens; with one the loop never ends (`LoadStuck`), and the program with it.
* `SoftmaxPool`: weak fairness of each thread, the operating system's scheduler. Spurious wakeups are
  bounded by `MaxSpurious`, which the liveness property needs: a thread that is woken forever without
  a signal makes no progress.
* The others: none. Their properties are about what a step does or leaves. Their loops end because each step uses up
  something finite; TLC explores them to their end states.

### The findings

`main.c:2387` writes the verdict of a regenerated swipe to `selected_msg`. `stream_callback` has set it
to `MSG_SELECT_NONE` when text had arrived, `history_update` ignores that index, and the partial text
is saved as if it were the answer. The success branch of the same handler uses `ctx.msg_index`, with a
comment (`main.c:2398`) that says why.

`main.c:797` resets the author's note after `/chat load <character>`, although the file has it; the next
message then saves the chat without it. The welcome message (`main.c:1421`) calls the command "Resume a
saved conversation", and the same command with an id does restore the note. The suggestion box
(`main.c:1843`) resets the note too, and the chat list (`modal.c:3074`) keeps the note of the chat before.

`lorebook.c:658` looks up the entry that was just added by the uid it was given; an earlier entry may have
that uid from the file by then, and gets the new entry's uid. A file with the uids 2, 0 loads as 0, 2. The
test (`test_lorebook.c:345`) expects the file's uids, and its file is one for which nothing is exchanged.

`chat.c:686` takes the first quote without a backslash before it as the end of a text. A text that ends in a backslash
is written with two, and is read past its end. `chat.c:730` takes the first closing brace after a message's start as the
message's end, also inside its text: of three messages of which one has code in it, the program loads twelve. The test
(`tests/integration/test_chat_integration.c:6`) saves and loads messages for which neither happens.

`sampler.c:357` follows a null pointer when the settings file has `true` or `false`, which is what `sampler_save`
writes for a custom sampler of that type. The form offers the type (`modal.c:2223`) and a test adds one
(`test_sampler.c:133`).

`qwen3.c:386` multiplies for f32 weights so that words are rows and tokens columns, and copies the last `vocab_size`
numbers as the last token's. After a prompt of several tokens these are of several tokens. `Generation!Logit` does what
the code does, and `LogitsAreLast` is stated for what is right: f16, or one token. It has no run of its own. With an odd number of layers the same function frees one of its two buffers twice and the
other never (`qwen3.c:398`); with an even number it does so when the allocation for the logits fails (`qwen3.c:381`).
`FreedOnce` states what is right: a pass of an even number that gives logits.

These disagree with no doc, comment or test, so they have no run of their own; the passing runs reach them and the
properties state what remains true:

* `history.c:199` reallocates a NULL `finish_reasons` and writes only the last slot. From the first swipe added to a message
  without reasons on, the slot of its first swipe is unwritten memory: the drawing takes it for a string
  (`ui.c:921`) and a deletion of the message or of the chat frees it (`history.c:39`, `267`). `WellFormed` says that it is
  only ever the first slot, and `MetricsMatchReply` that the end of a request never frees it.
* `main.c:420` formats a reply into `display[8192]` each time a chunk comes. The end of a longer reply is never on the screen
  nor in the file, though it has been received and counted (`ReplyIsWhole` says what is there).
* `gpt2bpe.c:773` gives a piece at most 511 parts, and what is behind is in no token. `gpt2bpe.c:684` pushes without a look
  at the room: each join may push two entries and takes one away, and the stale ones stay. A piece of up to 258 letters
  never overruns `heap[512]` (`HeapLasts`: twice the letters less four). With 511 equal letters `a` and the merges
  `a a`, `aa a`, `a aa`, `aa aa`, in this order, 515 entries are needed.
* `sentencepiece.c:1011` collects the tokens of a unigram model from the end of the text; of more than 4096 it returns the last
  4096, so the text loses its beginning, while `normalized[8192]` and `max_ids` lose its end (`BestSegmentation`).

## Proofs

TLAPS checks every theorem to the last leaf, for every value of the constants.

* `SessionProof!Safety`: the inductive invariant. `SelectionValid`, `EditTargetValid`, `DeleteTargetValid`
  and `PromptIsWhatCameBefore` are not inductive alone: a step of the edit needs that no dialog is open
  and no request runs, a step of a request needs its target to be the last message, and a save needs
  the arrays of every message to agree. The invariant is their conjunction with the type invariant and
  the facts about which modes exclude each other. Lemmas about each operator of `History` (what it does
  to the length and the shape of messages) carry the types; each action has one step. For `finish` these are
  `GrownFinishFacts` and `FinishArrayFacts`: an array that is not there belongs to a message with one swipe, so the only
  slot `history_add_swipe` leaves unwritten is the first, and setting a reason allocates or keeps the array.
* `SessionProof!TextsFit`: a second invariant, `TextInv`, over the first. `MetricsMatchReply` is claimed only between
  requests, so by itself it says nothing where statistics and reasoning are written. `AllSettled` says at
  every time of every swipe that its numbers are of the request that wrote its text and its prefix is of its role;
  `AllStored` says the latter of the file, which a load makes the history. `StreamsInto` relates the request to the
  history it began with: `Running` says that the swipe it writes is active and new, without numbers of its own yet, and
  holds its text so far or what thinking put over it; `Answers` says that everything else is as it was (`RequestsOnlyAdd`). `NearlySaved` is
  part of it because a load brings back what the file has. `ReplyIsWhole` and `ReplyFailureIsShown` follow for the
  step that ends a request: what is on the screen is what `display[]` held after the last chunk (`Displayed`).
* `SessionProof!ScreenIsConversation`: under the mapping of `Conv` every step of the session is a step of
  `Conversation` or changes nothing it sees. The lemmas before it turn each operation of `History` into what it does to
  the turns of the log (`OnDiskReplace`, `OnDiskGrows`, `OnDiskDelete`...). The log of a running request is the history
  it began with, so that all of its callbacks map to nothing and its end to `Answer`; that this is one turn or one
  swipe more is `Answers`.
* `ChatStoreProof!StoreSafety`: the inductive invariant. Its properties are about complete files and
  the current id; while a save is open its file is blank and says nothing. `SaveRuns` says what the open
  save will do: it writes the chat on the screen, whole, over a blank file of the current id. With it,
  closing the file preserves that files of one id are of one chat (`Named`), that the current id is the
  chat's on the screen (`Current`), and that kept versions are found (`Surviving`). `SaveInv` is the step
  all commands that save share: whoever calls `Save` shows that its id names no other chat unless excused.
  The loads show that the file they restore is in `Named`, so the new current id is the right one.
* `LorebookProof!LorebookSafety`: the rename that is wrong for the single entry is an exchange for the book as a
  whole, which is why uids stay apart. `Exchange` proves it by cases: no entry has the uid the new one was
  given, or exactly one has. `TogglesHitOne` needs it: the first entry of a uid is the only one.
* `SoftmaxPoolProof!Safety`: the inductive invariant says, for every place the caller can stand at, which
  rows are done, which are in whose slot, and which remain (`Place`, `Phase`, `Work`, `Filling`,
  `Counted`, `Apart`). Chunks do not overlap (`Apart`), so a row that is computed is computed by one
  thread. `RowsOnce` follows when the caller leaves, since no worker is busy and nothing remains.
  `Implements` adds that every step is a step of `ForkJoin` or changes nothing it sees.

The theorems about the local models are of `EngineSpec`, and those about the tokenizers of `TokenizerSpec`. Each behaviour
of `InferenceSpec`, which the run checks, is one of both: a step of one is a stutter of the other.

* `EngineProof!TokensKeepTheirPast`: that each layer's cache holds the tokens before is not inductive within a
  pass, where some layers have had the new tokens and some have not. `Lengths` says that they differ by exactly
  these, `Passing` that what goes from layer to layer is still of the tokens of the pass, with the two buffers in
  the places the number of the layer gives. `LastRow` is the index arithmetic of the last token's logits. An
  allocation that fails turns off the claims about contents until the next reset, and none about lengths.
* `EngineProof`, the matrix products: `ThreadsStayApart` is about the division of the rows alone. A thread's rows end
  at a whole block or at the end of the matrix, so that the kernels that go on to the end of their block stay in it.
  `ProductIsComplete` needs that an element is right from when its thread has gone by, and that the inner loops sum
  each term once for every depth. They are folds over the strips of a row: `Loop`, `FoldExists` and `Runs` say of such
  a fold that what holds at first and is kept by each round holds at the end.
* `TokenizersProof!PiecesStayWhole`: `RunEndIs` says what the end of a run is, the five ways a piece ends then cut
  neither a word nor a number (`SpanWhole`), and the blank before a word is left to it.
* `TokenizersProof!TiktokenIsMerging`, `TiktokenIsRight`: the starts of the parts are marks of the piece (`Marks`), so the
  parts spell it whatever the marks (`Spelled`). The invariant is that the rank of each part is that of its join
  with the next one, of the marks there are now (`PartsOf`). A join takes one mark away (`Without`), which is the join
  of `Merging` (`WithoutParts`), and only two ranks are of words that had this mark between them or at their end
  (`NewParts`). That the least rank is found is that of the first joint of `Merging`, the leftmost of equals.
* `TokenizersProof!SentencePieceIsMerging`, `SentencePieceSpells`: here the marks are linked by indices, and what is known
  of a join is in a list that also has what is no longer so. The invariant says that the symbols which are left are the
  marks of the text, each linked to the next and as long as it is far; that two neighbours which are a piece are in the
  list (nothing is missing); and that no symbol is left between the two of a pair, so that a pair
  whose lengths still add up is of two neighbours now. `Foremost` then finds the joint of `Merging`. Each join takes
  away a symbol and its own pair and adds at most two pairs, so pairs and symbols together never become more than they
  were at first, less than twice the symbols, and `PairRoom` is enough. That the tokens spell the text (`SentencePieceSpells`)
  goes by heads of sequences: the symbols spell what is left of the text (`SegmentsSpell`), a head of them, which `max_ids`
  leaves, spells a head of it (`HeadSpells`), and what `symbols[]` and `normalized[]` hold are heads of the text, so a head
  of a head of it (`HeadOfHead`).
* `DialogsProof`: a behaviour of `MCDialogs` is one of each of its dialogs (`EachIsItsOwn`), so each has an
  invariant of its own.
  * `ModelsSafety`: the index in use, with the file's, which needs its own part because a start of the program takes
    its index from there; the target of a form and the selection are claimed only while their dialog is open.
    `RemovedProperties` says what `config_remove_model` does to the list and the index together.
  * `SmallSafety` and `DialogsProof!SettingsTyped`: the ranges of the other lists, fields, scrolls and cursors.
    `IndicesStayValid` puts these three together.
  * `TextSafety`: the cursor's line is shown because every key ends in a drawing that moves the scroll to it
    (`Followed`); what has to be shown is that no key leaves the text (`ArrowsRange`).
  * `LinesMove`: where a text wraps is a recursion, `Places`. `PlacesAre` shows that it computes what its equation
    says, by induction over a set of numbers: `NatSetInduction` follows from `WFMin`, since the induction theorems
    of the library take predicates and cannot be used. From there `LineIs` says what a line is: a run of places
    `a .. b`, with columns counted from `a`, a newline or the width behind `b`, and none between. On such a run the
    loop of the message dialog finds what the column asks for (`Targets`), the other two editors find `a` and `b`
    by newlines alone (`NewlinesAre`, a line without wrapping is as wide as the buffer), and both are the best
    place (`BestIs`).
* `DialogsProof!DialogSafety`: an editor stays open when a resize closes the dialog under it. `EditorPlace` says
  why that does no harm: the dialog opens on a built-in field, over which an editor only closes, and the forms
  for new samplers are reached with no editor open. `ImportedProperties` and `TwiceImported` say what an import
  keeps of a table of any length.
* `DialogsProof!SelectionIsShown`: `SelectedShown` is not inductive. When the last sampler is removed the selection
  moves up and the scroll stays, so it may be past the selected field; the drawing then starts no later than the last
  full screen. `InView` says when that is so: only for the last field, and for the last item of a list or what is
  behind it. From there it needs that forms opened in between change neither.
* `RequestProof`, what is sent: the invariant is what the loop knows: the messages counted are the last ones, they fit, and it stops
  at one that might not (`Budget`); and that the lore and the body are what the two builders say (`Chosen`).
  `BuiltFacts` then is about sequences only: a request is the header and examples, the messages and the last
  instruction; message `i` stands at `PlaceOf(i)`, which rises with `i`, is one behind from the note on, and is at no
  other place. The counts in `HistoryFits` and `NoteIsPlaced` are those of intervals of `i`.
* `RequestProof!ReplyIsRelayed`: `Sent` says what the server has sent without reading it: an event for each line end
  with something before it (`Ended`), of the bytes kept of its line (`Kept`), each numbered by their rank. The invariant
  (`RelayInv`) is that buffer, content and reasoning are what the bytes so far show. `KeptMore`, `LineMore`, `EndedMore`
  and `SentMore` say what one more byte does to each of these, and `ByteShows` that `Step` does the same. A read is a
  fold of `Step`, and the texts of `Relay` are a fold over events: that such a fold exists and goes on by one element
  (`FoldExists`, `FoldSteps`) is an induction over the bound of the places (`UpTo`). Nothing is lost before the events
  that were there (`Begins`), so each read is a step of `Relay`.

The proofs assume `BoundsAssumption`, `StoreAssumption`, `FilesAssumption` (files are sequences of tokens),
`PoolAssumption`, `MaxSwipesAssumption`, `ConfigAssumption`, `SamplerAssumption`, `DialogsAssumption`,
`PromptAssumption`, `RequestAssumption`, `GemmAssumption`, `UnrollAssumption`, `VocabAssumption` and `ScoreAssumption`. They say that the bounds are numbers and, for the pool, that there is at least one slot and two
threads; for the dialogs, that a screen has a line and a column and a number that is typed fits into its text; for a request, that costs
and budgets have a greatest value, books are sequences of entries, and the line buffer has room for a byte; for the products, that blocks and sizes are positive
numbers; for a vocabulary, that no rank is `UINT32_MAX`, which stands for none (`tiktoken.c` marks empty places with it); for the scores, that there is room for
a letter, for a symbol and for twice as many pairs as symbols (`normalized[8192]`, `symbols[4096]`, `pairs[8192]`), that
room for tokens is a number, and that scores are whole numbers, of which only
the order matters, and texts are letters and blanks; for the store, only that the values
which stand for nothing are not among the real ones: cards may share a directory, the default one too, as
names without a letter do (`chat_sanitize_dirname`), and a card that a failed load has left without a name uses the
default one.

Only model-checked: everything under fairness (`RequestsEnd`, `LoadEnds`, `CallsReturn` and the last part of
`IsConversation`, that an answer comes), and `ChatComesBack`, `KernelsRight`, `TokensRight` and
`MergesInOrder`. These last are about what folds and recursions compute for every input (what the reader of chats finds,
what a vector kernel has summed, the best segmentation, what a trie walks, the order and the size of a heap): each would need an
induction of its own over its data, as `PlacesAre` and `ReadShows` are.

`ProductRight`, `TextKept`, `MergesByRank`, `FocusShown` and `IndicesValid` join what several modules promise, so that a
run checks them together. Each has a theorem of its own (`ProductIsRight`, `TextIsKept`, `RanksAreFollowed`,
`FocusIsShown`, `IndicesStayValid`), which rests on one theorem for each part.

`ResumesWithNote`, `KeepsUids`, `FailureIsShown`, `MessagesComeBack` and `SavedIsReadable` do not hold and are only
run.

## Not modelled, and why

* Rounding. Terms show which numbers are added, not what is lost in adding them; the conversions between f16, bf16 and
  f32 are rounding only. Where a kernel and its plain loop round differently, both are the same here.
* The Accelerate and BNNS backends call a closed library. `Attention` has the loop of the one that has a loop.
* The registry of backends and their tables (`inference/backend`): nothing in `src/` selects a backend. Where the tables
  differ in what they do (the NEON product refuses a transposed operand, its attention drops the mask, the scalar
  embedding does not clamp), no caller relies on either.
* `kobold_parse_stream`: `llm.c` never calls it.
* Drawing, colours, wrapping of the chat and syntax highlighting: no state that a later step reads. What scrolls is
  modelled, because the next key reads it.
* Readers of character cards, PNG chunks, vocabulary files, `config.json` and weights: parsing of input into values
  without further state. The reader of chats is modelled, because the program writes what it reads.
* Text entry, paste, completion and scrolling of the chat's own input line; attachments; the console.
* Fault injection (`core/fault.c`) is a test aid that the program does not contain.
* `malloc` that fails: nearly every site returns early; a model would double every action for it. Where a failure
  leaves something behind (`Generation`, `Gemm`) it is an action.
* Memory outside arrays (`history_set_reasoning` on a swipe added later, caches past `max_position_embeddings`, what
  a push past `heap[512]` overwrites): TLA+ has no neighbour to overwrite. The hazards are listed; of the heap the model
  says when it happens.

## Plan

Every component whose state outlives a call has a module. What is left, in order:

1. The chat's input line with its completion and the suggestion box (`ui/ui.c`, `main.c`): cursor, selection and
   what Enter takes.
2. The console ring and scroll mode.
