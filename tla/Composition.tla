---------------------------- MODULE Composition -----------------------------
(* Text entry with an input method: Input inside a Dialog and the Textarea *)
(* of the chat box, both built on useComposition, as the component         *)
(* showcase uses them.  The key that ends a composition must not submit    *)
(* the dialog, close it or send the message.  Browsers differ: some report *)
(* that key before compositionend and mark it as composing, Safari reports *)
(* it right after compositionend, unmarked.  The code bridges the gap with *)
(* timers of 0, 100 and 150 ms; a tick is 50 ms, and zero timers run       *)
(* before the next tick.                                                   *)
EXTENDS Naturals, Sequences, FiniteSets

CONSTANTS ReplyDelay,   \* ticks until the chat answers (1500 ms in the showcase)
          MaxSends      \* bound: messages sent

ASSUME CompositionAssumption == ReplyDelay \in Nat \ {0} /\ MaxSends \in Nat

ClearDelay == 2     \* 100 ms until the dialog forgets a composition
EndDelay == 3       \* 150 ms during which Enter counts as confirming

Field == {"dialog", "chat"}
Enter == {"Enter", "Shift+Enter"}
Key == Enter \cup {"Escape"}

VARIABLES
    safari,      \* the order of events of this browser
    ime,         \* a composition is under way in the focused field
    dialogOpen,
    c,           \* useComposition's c of each field
    zero,        \* its nested zero timers that have still to run
    composing,   \* Dialog's composingRef
    clears,      \* timers that will reset it, by the ticks left
    justEnded,   \* Dialog's justEndedRef
    endTimer,    \* ticks until it is reset, 0 when no timer runs
    overtaken,   \* history: a reset due to an earlier composition hit this one
    input,       \* the chat's text: "", "blanks" or "text"
    messages,    \* the chat's messages, "user" and "assistant"
    replies,     \* answers under way: ticks left and the messages captured
    isLoading,
    sent         \* history: messages handed to handleChatSend

dialogVars == <<dialogOpen, composing, clears, justEnded, endTimer, overtaken>>
chatVars == <<input, messages, replies, isLoading, sent>>
vars == <<safari, ime, c, zero, dialogVars, chatVars>>

Focus == IF dialogOpen THEN "dialog" ELSE "chat"

Init ==
    /\ safari \in BOOLEAN /\ ime = FALSE /\ dialogOpen = FALSE
    /\ c = [f \in Field |-> FALSE] /\ zero = [f \in Field |-> 0]
    /\ composing = FALSE /\ clears = {} /\ justEnded = FALSE /\ endTimer = 0
    /\ overtaken = FALSE
    /\ input = "" /\ messages = <<>> /\ replies = {} /\ isLoading = FALSE /\ sent = 0

-----------------------------------------------------------------------------
\* Which handlers a key reaches; "native" is the event's isComposing.

Input(key, native, ended) == key \in Enter => ~(native \/ ended)
Textarea(key, native) == key = "Enter" => ~native

UseComposition(key) == ~(c[Focus] /\ key \in {"Enter", "Escape"})

SubmitsDialog(key, native, ended) ==
    /\ dialogOpen /\ key \in Enter /\ ~native
    /\ UseComposition(key) /\ Input(key, native, ended)

\* Escape reaches the dialog first, before any field can stop it

HandleEscapeKeyDown(key, native) == dialogOpen /\ key = "Escape" /\ ~(native \/ composing)

HandleKeyDown(key, native) ==
    ~dialogOpen /\ key = "Enter" /\ UseComposition(key) /\ Textarea(key, native)

-----------------------------------------------------------------------------
\* handleChatSend keeps the messages it saw for the answer
HandleChatSend ==
    /\ sent < MaxSends
    /\ messages' = Append(messages, "user")
    /\ isLoading' = TRUE
    /\ replies' = replies \cup {[left |-> ReplyDelay, seen |-> messages']}
    /\ sent' = sent + 1

\* mutant: a second message may be sent before the answer
HandleSubmitWhileLoading(text) ==
    \/ text # "text" /\ UNCHANGED chatVars
    \/ text = "text" /\ HandleChatSend /\ input' = ""

HandleSubmit(text) ==
    \/ (text # "text" \/ isLoading) /\ UNCHANGED chatVars
    \/ text = "text" /\ ~isLoading /\ HandleChatSend /\ input' = ""

\* the dialog's fields go with it; its own refs stay
CloseDialog ==
    /\ dialogOpen' = FALSE
    /\ c' = [c EXCEPT !["dialog"] = FALSE] /\ zero' = [zero EXCEPT !["dialog"] = 0]

\* mutant: a composition that follows at once leaves the old timers running
OnCompositionStartKeepsTimers ==
    /\ ~ime /\ ime' = TRUE
    /\ c' = [c EXCEPT ![Focus] = TRUE]
    /\ composing' = (composing \/ dialogOpen) /\ overtaken' = FALSE
    /\ input' = IF dialogOpen THEN input ELSE "text"
    /\ UNCHANGED <<safari, zero, dialogOpen, clears, justEnded, endTimer,
                   messages, replies, isLoading, sent>>

OnCompositionStart ==
    /\ ~ime /\ ime' = TRUE
    /\ c' = [c EXCEPT ![Focus] = TRUE] /\ zero' = [zero EXCEPT ![Focus] = 0]
    /\ composing' = (composing \/ dialogOpen) /\ overtaken' = FALSE
    /\ input' = IF dialogOpen THEN input ELSE "text"
    /\ UNCHANGED <<safari, dialogOpen, clears, justEnded, endTimer,
                   messages, replies, isLoading, sent>>

MarkCompositionEnd == justEnded' = TRUE /\ endTimer' = EndDelay

OnCompositionEnd ==
    \/ /\ dialogOpen
       /\ MarkCompositionEnd
       /\ clears' = clears \cup {ClearDelay}
    \/ ~dialogOpen /\ UNCHANGED <<justEnded, endTimer, clears>>

(* compositionend and the key that ends the composition, in the browser's  *)
(* order.  They are one step: both are dispatched for one press of a key,  *)
(* before the task that runs the next timer, so that the zero timers       *)
(* compositionend sets run after the key has been handled.                 *)
EndComposition(key) ==
    LET native == ~safari
        ended  == safari /\ dialogOpen
        keeps  == /\ UNCHANGED <<dialogOpen, c>>
                  /\ zero' = [zero EXCEPT ![Focus] = 2]
    IN  /\ ime /\ ime' = FALSE
        /\ OnCompositionEnd
        /\ \/ /\ SubmitsDialog(key, native, ended) \/ HandleEscapeKeyDown(key, native)
              /\ CloseDialog /\ UNCHANGED chatVars
           \/ /\ HandleKeyDown(key, native)
              /\ HandleSubmit(input) /\ keeps
           \/ /\ ~SubmitsDialog(key, native, ended) /\ ~HandleEscapeKeyDown(key, native)
              /\ ~HandleKeyDown(key, native)
              /\ keeps
              /\ input' \in IF key = "Escape" /\ ~dialogOpen THEN {"", input} ELSE {input}
              /\ UNCHANGED <<messages, replies, isLoading, sent>>
        /\ UNCHANGED <<safari, composing, overtaken>>

\* a candidate is chosen with the mouse, or the field loses focus
EndByMouse ==
    /\ ime /\ ime' = FALSE
    /\ OnCompositionEnd
    /\ zero' = [zero EXCEPT ![Focus] = 2]
    /\ UNCHANGED <<safari, c, dialogOpen, composing, overtaken, chatVars>>

-----------------------------------------------------------------------------
\* Keys and clicks outside a composition.

PressKey(key) ==
    /\ ~ime
    /\ \/ /\ SubmitsDialog(key, FALSE, justEnded) \/ HandleEscapeKeyDown(key, FALSE)
          /\ CloseDialog /\ UNCHANGED chatVars
       \/ /\ HandleKeyDown(key, FALSE)
          /\ HandleSubmit(input) /\ UNCHANGED <<dialogOpen, c, zero>>
    /\ UNCHANGED <<safari, ime, composing, clears, justEnded, endTimer, overtaken>>

DialogTrigger ==
    /\ ~ime /\ ~dialogOpen /\ dialogOpen' = TRUE
    /\ UNCHANGED <<safari, ime, c, zero, composing, clears, justEnded, endTimer,
                   overtaken, chatVars>>

\* the buttons Cancel, Submit and Close
DialogButton ==
    /\ ~ime /\ dialogOpen /\ CloseDialog
    /\ UNCHANGED <<safari, ime, composing, clears, justEnded, endTimer, overtaken, chatVars>>

Type ==
    /\ ~ime /\ ~dialogOpen
    /\ input' \in {"", "blanks", "text"} \ {input}
    /\ UNCHANGED <<safari, ime, c, zero, dialogVars, messages, replies, isLoading, sent>>

\* the Send button, disabled without text and while loading; a prompt of the empty chat
SendButton ==
    /\ ~ime /\ ~dialogOpen /\ ~isLoading
    /\ \/ input = "text" /\ HandleSubmit(input)
       \/ messages = <<>> /\ HandleChatSend /\ UNCHANGED input
    /\ UNCHANGED <<safari, ime, c, zero, dialogVars>>

-----------------------------------------------------------------------------
ZeroTimer(f) ==
    /\ zero[f] > 0
    /\ zero' = [zero EXCEPT ![f] = @ - 1]
    /\ c' = [c EXCEPT ![f] = @ /\ zero[f] = 2]
    /\ UNCHANGED <<safari, ime, dialogVars, chatVars>>

Reply(r) ==
    /\ messages' = Append(r.seen, "assistant")
    /\ isLoading' = FALSE

\* 50 ms pass and the timers that are due run
Tick ==
    /\ \A f \in Field : zero[f] = 0
    /\ clears # {} \/ endTimer > 0 \/ replies # {}
    /\ clears' = {t - 1 : t \in clears \ {1}}
    /\ composing' = (composing /\ 1 \notin clears)
    /\ overtaken' = (overtaken \/ (1 \in clears /\ ime))
    /\ endTimer' = IF endTimer > 0 THEN endTimer - 1 ELSE 0
    /\ justEnded' = (justEnded /\ endTimer # 1)
    /\ replies' = {[r EXCEPT !.left = @ - 1] : r \in {q \in replies : q.left > 1}}
    /\ \/ \E r \in replies : r.left = 1 /\ Reply(r)
       \/ (\A r \in replies : r.left > 1) /\ UNCHANGED <<messages, isLoading>>
    /\ UNCHANGED <<safari, ime, dialogOpen, c, zero, input, sent>>

Next ==
    \/ OnCompositionStart \/ EndByMouse
    \/ \E key \in Key : EndComposition(key) \/ PressKey(key)
    \/ DialogTrigger \/ DialogButton \/ Type \/ SendButton
    \/ \E f \in Field : ZeroTimer(f)
    \/ Tick

Spec == Init /\ [][Next]_vars

-----------------------------------------------------------------------------
(* Flags and timers keep their types, timers their limits.                 *)
TypeOK ==
    /\ {safari, ime, dialogOpen, composing, justEnded, overtaken, isLoading} \subseteq BOOLEAN
    /\ c \in [Field -> BOOLEAN] /\ zero \in [Field -> 0..2]
    /\ clears \subseteq 1..ClearDelay /\ endTimer \in 0..EndDelay
    /\ input \in {"", "blanks", "text"} /\ sent \in 0..MaxSends
    /\ messages \in Seq({"user", "assistant"})
    /\ \A r \in replies : r.left \in 1..ReplyDelay /\ r.seen \in Seq({"user", "assistant"})

(* Once typing pauses nothing is left of a composition: Enter submits and  *)
(* Escape closes again, however compositions, closings and openings of the *)
(* dialog followed each other while timers ran.                            *)
FlagsWearOff ==
    ~ime => /\ \A f \in Field : c[f] => zero[f] > 0
            /\ composing => clears # {}
            /\ justEnded => endTimer > 0

(* No message is overwritten by an answer that captured the list before it *)
(* was sent, and every answer follows its question.                        *)
NoMessageLost ==
    /\ Cardinality({i \in DOMAIN messages : messages[i] = "user"}) = sent
    /\ \A i \in DOMAIN messages : messages[i] = "user" <=> i % 2 = 1

(* After any typing, sending and answering, the chat holds what was sent   *)
(* and no composition leaves a flag behind.                                *)
EntryKeepsItsState == TypeOK /\ FlagsWearOff /\ NoMessageLost

(* The Enter that confirms a candidate, with Shift or without, neither     *)
(* submits the dialog nor sends the message, in either order of events and *)
(* however soon this composition followed the one before.                  *)
ConfirmingEnterIsInert ==
    [][\A key \in Enter : EndComposition(key) => sent' = sent /\ dialogOpen' = dialogOpen]_vars

(* "If IME is composing, prevent dialog from closing": the Escape that     *)
(* drops a candidate never closes the dialog, as handleEscapeKeyDown means *)
(* it also for Safari's order of events.                                   *)
ComposingEscapeNeverCloses ==
    [][EndComposition("Escape") => dialogOpen' = dialogOpen]_vars

(* The Escape that drops a candidate leaves the dialog open, unless the    *)
(* reset an earlier composition scheduled 100 ms ahead has overtaken this  *)
(* one: that timer is never cancelled.                                     *)
EscapeKeepsDialog ==
    [][EndComposition("Escape") => dialogOpen' = dialogOpen \/ overtaken]_vars

(* The key that ends a composition does nothing but end it, save for the   *)
(* Escape of a composition that was overtaken.                             *)
ComposingKeysAreInert == ConfirmingEnterIsInert /\ EscapeKeepsDialog
=============================================================================
