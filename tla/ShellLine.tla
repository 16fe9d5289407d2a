----------------------------- MODULE ShellLine -----------------------------
(***************************************************************************)
(* rid::ShellLineBuffer (components/rid_shell/shell.cpp) with the loop of  *)
(* shell_task (main/app_main.cpp) that feeds it: bytes from the terminal   *)
(* become command lines, and every byte answers with an echo.              *)
(*                                                                         *)
(* A user presses keys; a key is one or several bytes, which arrive one    *)
(* by one.  What the line ought to be is kept beside the buffer, key by    *)
(* key (intended), and compared with it whenever no key is half received.  *)
(***************************************************************************)
EXTENDS Naturals, Sequences

CONSTANTS
    MaxLine,           \* kShellMaxLineSize, 255
    MaxLines           \* bound: how often the user presses Enter

ASSUME ConstantsAssumption == MaxLine \in Nat \ {0} /\ MaxLines \in Nat

(* The bytes that tell the cases of push apart.  "[" is printable, introduces a control *)
(* sequence and may end one; "3" is printable and does not end one.                       *)
Printable == {"[", "3", "~"}
Final == {"[", "~"}
Control == {"bell"}
Bytes == Printable \cup Control \cup {"CR", "LF", "ESC", "BS", "DEL", "NAK"}

EnterKeys == {<<"CR">>, <<"LF">>, <<"CR", "LF">>}   \* what a terminal sends for Enter
Arrow == <<"ESC", "[", "~">>
DeleteKey == <<"ESC", "[", "3", "~">>
AltKey == <<"ESC", "3">>
TypingKeys == {<<b>> : b \in Printable}
EraseKeys == {<<"BS">>, <<"DEL">>}
KillKey == <<"NAK">>
Silent == {Arrow, DeleteKey, AltKey, <<"bell">>}    \* keys that do not edit the line

VARIABLES
    enter,             \* what this terminal sends for Enter
    incoming,          \* bytes of the pressed key still to arrive
    intended,          \* the line and the replies as the keys pressed so far ask for
    bytes,             \* the first size_ bytes of bytes_
    overflow, lastWasCr, escapeState,
    screen,            \* what the terminal shows after the last prompt
    replies            \* what shell_task has printed for each line, "prompt" for an empty one

buffer == <<bytes, overflow, lastWasCr, escapeState>>
lineVars == <<enter, incoming, intended, buffer, screen, replies>>

Replies == [kind : {"command"}, line : Seq(Printable)] \cup [kind : {"prompt", "too long"}]
Fresh(answers) == [text |-> <<>>, tooLong |-> FALSE, replies |-> answers]

LineInit ==
    /\ enter \in EnterKeys
    /\ incoming = <<>>
    /\ intended = Fresh(<<>>)
    /\ bytes = <<>> /\ overflow = FALSE /\ lastWasCr = FALSE /\ escapeState = 0
    /\ screen = <<>>
    /\ replies = <<>>

-----------------------------------------------------------------------------
(* What each key means to its user. *)
Answer(line) ==
    CASE line.tooLong -> [kind |-> "too long"]
      [] ~line.tooLong /\ line.text = <<>> -> [kind |-> "prompt"]
      [] ~line.tooLong /\ line.text # <<>> -> [kind |-> "command", line |-> line.text]

Meaning(key, line) ==
    CASE key = enter -> Fresh(Append(line.replies, Answer(line)))
      [] key \in TypingKeys /\ ~line.tooLong ->
            IF Len(line.text) < MaxLine THEN [line EXCEPT !.text = @ \o key]
                                        ELSE [line EXCEPT !.tooLong = TRUE]
      [] key \in EraseKeys /\ ~line.tooLong /\ line.text # <<>> ->
            [line EXCEPT !.text = SubSeq(@, 1, Len(@) - 1)]
      [] key = KillKey -> Fresh(line.replies)
      [] OTHER -> line

Press(key) ==
    /\ incoming = <<>>
    /\ key = enter => Len(replies) < MaxLines
    /\ incoming' = key
    /\ intended' = Meaning(key, intended)
    /\ UNCHANGED <<enter, buffer, screen, replies>>

-----------------------------------------------------------------------------
(* push, one byte, and what shell_task does with its result *)
Received(byte) ==
    /\ incoming # <<>>
    /\ byte = Head(incoming)
    /\ incoming' = Tail(incoming)
    /\ UNCHANGED <<enter, intended>>

NoEcho == UNCHANGED <<screen, replies>>
Echo(byte) == screen' = Append(screen, byte) /\ UNCHANGED replies
Erase(n) == screen' = SubSeq(screen, 1, Len(screen) - n) /\ UNCHANGED replies
Respond(reply) == screen' = <<>> /\ replies' = Append(replies, reply)

SecondOfCrLf(byte) == byte = "LF" /\ lastWasCr

SkipLf(byte) ==
    /\ SecondOfCrLf(byte)
    /\ lastWasCr' = FALSE
    /\ UNCHANGED <<bytes, overflow, escapeState>>
    /\ NoEcho

(* A line that is ready is taken and handled at once. *)
EndLine(byte) ==
    /\ byte \in {"CR", "LF"} /\ ~SecondOfCrLf(byte)
    /\ lastWasCr' = (byte = "CR")
    /\ escapeState' = 0
    /\ overflow' = FALSE
    /\ bytes' = <<>>
    /\ Respond(Answer([text |-> bytes, tooLong |-> overflow]))

Other(byte) == byte \notin {"CR", "LF"} /\ lastWasCr' = FALSE

Mutant_NextEscape(byte) == 0                        \* a control sequence ends with its "["
NextEscape(byte) ==
    CASE escapeState = 0 -> 1
      [] escapeState = 1 -> IF byte = "[" THEN 2 ELSE 0
      [] escapeState = 2 -> IF byte \in Final THEN 0 ELSE 2

Escape(byte) ==
    /\ Other(byte)
    /\ escapeState # 0 \/ byte = "ESC"
    /\ escapeState' = NextEscape(byte)
    /\ UNCHANGED <<bytes, overflow>>
    /\ NoEcho

Plain(byte) == Other(byte) /\ escapeState = 0 /\ UNCHANGED escapeState

Kill(byte) ==
    /\ Plain(byte) /\ byte = "NAK"
    /\ bytes' = <<>>
    /\ overflow' = FALSE
    /\ Erase(Len(bytes))

Rubs == ~overflow /\ bytes # <<>>
Rubout(byte) ==
    /\ Plain(byte) /\ byte \in {"BS", "DEL"}
    /\ IF Rubs THEN bytes' = SubSeq(bytes, 1, Len(bytes) - 1) /\ Erase(1)
               ELSE UNCHANGED bytes /\ NoEcho
    /\ UNCHANGED overflow

Mutant_HasRoom == TRUE                              \* stores beyond the end of the buffer
HasRoom == Len(bytes) < MaxLine

Ignore(byte) ==
    /\ Plain(byte)
    /\ byte \in Control \/ (byte \in Printable /\ overflow)
    /\ UNCHANGED <<bytes, overflow>>
    /\ NoEcho

Mutant_Overflow(byte) ==                            \* echoes a byte it does not store
    /\ Plain(byte) /\ byte \in Printable /\ ~overflow /\ ~HasRoom
    /\ overflow' = TRUE
    /\ UNCHANGED bytes
    /\ Echo(byte)
Overflow(byte) ==
    /\ Plain(byte) /\ byte \in Printable /\ ~overflow /\ ~HasRoom
    /\ overflow' = TRUE
    /\ UNCHANGED bytes
    /\ NoEcho

Store(byte) ==
    /\ Plain(byte) /\ byte \in Printable /\ ~overflow /\ HasRoom
    /\ bytes' = Append(bytes, byte)
    /\ UNCHANGED overflow
    /\ Echo(byte)

Push(byte) ==
    \/ SkipLf(byte)
    \/ EndLine(byte)
    \/ Escape(byte)
    \/ Kill(byte)
    \/ Rubout(byte)
    \/ Ignore(byte)
    \/ Overflow(byte)
    \/ Store(byte)

Keys == TypingKeys \cup EraseKeys \cup Silent \cup {enter, KillKey}

LineNext ==
    \/ \E key \in Keys : Press(key)
    \/ \E byte \in Bytes : Received(byte) /\ Push(byte)

LineSpec == LineInit /\ [][LineNext]_lineVars

-----------------------------------------------------------------------------
(* Every variable keeps its type; in particular the line never outgrows its buffer. *)
LineTypeOK ==
    /\ enter \in EnterKeys
    /\ incoming \in Seq(Bytes)
    /\ intended \in [text : Seq(Printable), tooLong : BOOLEAN, replies : Seq(Replies)]
    /\ bytes \in Seq(Printable) /\ Len(bytes) <= MaxLine
    /\ overflow \in BOOLEAN /\ lastWasCr \in BOOLEAN /\ escapeState \in 0 .. 2
    /\ screen \in Seq(Printable)
    /\ replies \in Seq(Replies)

(* What the user sees after the prompt is what Enter would execute, whatever is typed, rubbed *)
(* out, killed or refused in between: echo and erase count follow the buffer.                  *)
ScreenShowsLine == screen = bytes

(* Once a key has been received whole, the buffer holds the line its user meant, whatever bytes *)
(* the key was made of: control sequences leave nothing in it and swallow nothing that follows. *)
(* Each Enter has ended one line and got one answer, whichever of CR, LF and CR LF the terminal *)
(* sends; a line that is too long is reported once and never executed in part.                   *)
LineAsIntended ==
    incoming = <<>> =>
        /\ bytes = intended.text /\ overflow = intended.tooLong
        /\ replies = intended.replies
=============================================================================
