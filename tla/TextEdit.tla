------------------------------ MODULE TextEdit ------------------------------
(***************************************************************************)
(* The four text editors of src/ui/modal.c: a field of a form, the edit of *)
(* a message, the bulk import of samplers and the token counter. Each has  *)
(* a buffer and a cursor between two of its characters; the last three     *)
(* have lines and a scroll that the drawing after every key brings to the  *)
(* cursor. A character is "x" or the newline "nl".                         *)
(*                                                                         *)
(* The editors differ where the code does: a message wraps at the width of *)
(* the dialog and its arrow keys move by wrapped lines, the other two move *)
(* by the lines of the text; Enter saves a message and ends no line.       *)
(***************************************************************************)
EXTENDS Integers, Sequences, SequencesExt, FiniteSetsExt

CONSTANTS
    MaxText,  \* sizeof(edit_buffer) - 1 and the like
    TextWidth,  \* m->width - 6
    TextHeight  \* the lines a dialog shows

VARIABLES
    kind,    \* the editor that is open
    buf,     \* edit_buffer, sampler_yaml_buffer, tokenize_buffer, fields[i]
    cursor,  \* edit_cursor and the like
    scroll,  \* edit_scroll and the like: the first line that is drawn
    loaded,  \* the tokenizer of the counter can encode
    counted  \* the text whose tokens the counter shows

editVars == <<kind, buf, cursor, scroll, loaded, counted>>

Kinds == {"field", "message", "yaml", "tokens"}
Character == {"x", "nl"}
-----------------------------------------------------------------------------
\* Where a loop over text s is after each number of characters, for lines that
\* wrap at width w
Places(s, w) ==
    LET at[i \in 0 .. Len(s)] ==
            IF i = 0 THEN [line |-> 0, col |-> 0]
            ELSE IF s[i] = "nl" \/ at[i - 1].col + 1 >= w
                 THEN [line |-> at[i - 1].line + 1, col |-> 0]
                 ELSE [line |-> at[i - 1].line, col |-> at[i - 1].col + 1]
    IN  at

NoWrap == MaxText + 2  \* wider than any text
Width == IF kind = "yaml" THEN NoWrap ELSE TextWidth
LineOf(s, c) == Places(s, Width)[c].line

\* Slip: the line below the last that is drawn counts as shown
FollowLate(first, s, c) ==
    LET line == LineOf(s, c)
    IN  IF line < first THEN line
        ELSE IF line > first + TextHeight THEN line - TextHeight + 1 ELSE first

\* The drawing after a key: the first line is moved until the cursor's is shown.
Follow(first, s, c) ==
    LET line == LineOf(s, c)
    IN  IF line < first THEN line
        ELSE IF line >= first + TextHeight THEN line - TextHeight + 1 ELSE first

\* draw_message_edit
DrawMessage(s, c) == Follow(scroll, s, c)

\* draw_sampler_yaml: before that, no more empty lines than needed
DrawYaml(s, c) ==
    Follow(Max({0, Min({scroll, LineOf(s, Len(s)) + 1 - TextHeight})}), s, c)

\* draw_tokenize
DrawTokens(s, c) == Follow(scroll, s, c)

Redraw(s, c) ==
    CASE kind = "message" -> DrawMessage(s, c)
      [] kind = "yaml" -> DrawYaml(s, c)
      [] kind = "tokens" -> DrawTokens(s, c)
      [] OTHER -> scroll  \* draw_field has none
-----------------------------------------------------------------------------
\* The first place of the text, if any, that the loop of an arrow key of the
\* message dialog stops at: the same column of the line, or its newline
Target(line) ==
    LET at == Places(buf, TextWidth)
    IN  {i \in 0 .. Len(buf) :
            /\ at[i].line = line
            /\ at[i].col = at[cursor].col \/ (i < Len(buf) /\ buf[i + 1] = "nl")}

MessageTo(line) ==
    IF line < 0 \/ Target(line) = {} THEN cursor ELSE Min(Target(line))

MessageUp == MessageTo(Places(buf, TextWidth)[cursor].line - 1)
MessageDown == MessageTo(Places(buf, TextWidth)[cursor].line + 1)

\* Lines of the text itself: where the one with the cursor starts, and where
\* a line that starts at a place ends
Start(c) == Max({0} \union {i \in 1 .. c : buf[i] = "nl"})
End(c) == Min({Len(buf)} \union {i \in c .. Len(buf) - 1 : buf[i + 1] = "nl"})

\* Slip: the column is not cut to the length of the line above
TextUpUncut ==
    LET col == cursor - Start(cursor)
    IN  IF Start(cursor) = 0 THEN cursor ELSE Start(Start(cursor) - 1) + col

TextUp ==
    LET col == cursor - Start(cursor)
        end == Start(cursor) - 1
    IN  IF Start(cursor) = 0 THEN cursor ELSE Min({Start(end) + col, end})

TextDown ==
    LET col == cursor - Start(cursor)
        next == End(cursor) + 1
    IN  IF End(cursor) = Len(buf) THEN cursor ELSE Min({next + col, End(next)})
-----------------------------------------------------------------------------
Init ==
    /\ kind \in Kinds
    /\ loaded \in IF kind = "tokens" THEN BOOLEAN ELSE {FALSE}
    /\ buf = <<>> /\ cursor = 0 /\ scroll = 0 /\ counted = <<>>

\* UPDATE_TOKENS: an empty text has no tokens; a tokenizer that cannot encode
\* leaves those of before.
Recount(s) ==
    counted' = IF kind # "tokens" \/ s = <<>> THEN <<>>
               ELSE IF loaded THEN s ELSE counted

Edit(s, c) ==
    /\ buf' = s /\ cursor' = c /\ scroll' = Redraw(s, c)
    /\ Recount(s)
    /\ UNCHANGED <<kind, loaded>>

Move(c) ==
    /\ cursor' = c /\ scroll' = Redraw(buf, c)
    /\ UNCHANGED <<kind, buf, loaded, counted>>

Left == cursor > 0 /\ Move(cursor - 1)
Right == cursor < Len(buf) /\ Move(cursor + 1)
Backspace == cursor > 0 /\ Edit(RemoveAt(buf, cursor), cursor - 1)
Delete == cursor < Len(buf) /\ Edit(RemoveAt(buf, cursor + 1), cursor)
Type(ch, room) == Len(buf) < room /\ Edit(InsertAt(buf, cursor + 1, ch), cursor + 1)

\* handle_field_key
FieldKey ==
    /\ kind = "field"
    /\ \/ Left \/ Right \/ Move(0) \/ Move(Len(buf))
       \/ Backspace \/ Delete \/ Type("x", MaxText)

\* modal_handle_key of the message dialog, while the text has the focus
MessageKey ==
    /\ kind = "message"
    /\ \/ Left \/ Right \/ Move(MessageUp) \/ Move(MessageDown)
       \/ Backspace \/ Delete \/ Type("x", MaxText)

\* ... of the bulk import: it has no delete, and keeps one byte more free
YamlKey ==
    /\ kind = "yaml"
    /\ \/ Left \/ Right \/ Move(TextUp) \/ Move(TextDown)
       \/ Backspace \/ \E ch \in Character : Type(ch, MaxText - 1)

\* ... of the token counter
TokensKey ==
    /\ kind = "tokens"
    /\ \/ Left \/ Right \/ Move(TextUp) \/ Move(TextDown)
       \/ Backspace \/ Delete \/ \E ch \in Character : Type(ch, MaxText)

\* modal_open_message_edit: the message has its newlines, and the cursor is at
\* its end. (Fields and the other editors open with a text of theirs, or none.)
OpenMessage(s) ==
    /\ kind = "message" /\ buf = <<>>
    /\ buf' = s /\ cursor' = Len(s)
    /\ scroll' = LET line == LineOf(s, Len(s))
                 IN  Max({0, line - TextHeight + 1})
    /\ UNCHANGED <<kind, loaded, counted>>

Texts == UNION {[1 .. n -> Character] : n \in 1 .. MaxText}

Next ==
    \/ FieldKey \/ MessageKey \/ YamlKey \/ TokensKey
    \/ \E s \in Texts : OpenMessage(s)

Spec == Init /\ [][Next]_editVars
-----------------------------------------------------------------------------
\* The cursor is inside the text and the text inside its buffer.
CursorInText ==
    /\ Len(buf) <= MaxText
    /\ cursor \in 0 .. Len(buf)

\* After every key the line with the cursor is one of those drawn, whatever
\* was typed, deleted or moved over before.
CursorShown ==
    kind # "field" =>
        LineOf(buf, cursor) \in scroll .. scroll + TextHeight - 1

\* What the arrow keys are for: up goes to the line above and down to the one
\* below, to the same column or to the end of a shorter line, in each of the
\* editors. Only the message dialog stays where it is when the line below is
\* the last one and too short for the column.
LinesOf(s, w) == 0 .. Places(s, w)[Len(s)].line
LineMoves ==
    kind # "field" =>
        LET w == IF kind = "message" THEN TextWidth ELSE NoWrap
            at == Places(buf, w)
            here == at[cursor]
            Best(l) == CHOOSE c \in 0 .. Len(buf) :
                /\ at[c].line = l /\ at[c].col <= here.col
                /\ \A d \in 0 .. Len(buf) :
                    at[d].line = l /\ at[d].col <= here.col => at[d].col <= at[c].col
            up == IF kind = "message" THEN MessageUp ELSE TextUp
            down == IF kind = "message" THEN MessageDown ELSE TextDown
            last == at[Len(buf)]
        IN  /\ up = IF here.line = 0 THEN cursor ELSE Best(here.line - 1)
            /\ down = IF here.line = last.line
                          \/ (kind = "message" /\ here.line + 1 = last.line
                                /\ here.col > last.col)
                      THEN cursor ELSE Best(here.line + 1)
=============================================================================
