-------------------------- MODULE ConsolePageProofs --------------------------
(***************************************************************************)
(* Proofs about the console's page.                                        *)
(*                                                                         *)
(* Composition: for any delay of the chat's answer and any number of       *)
(* messages.  While a composition is under way its field's flag is set and *)
(* none of its timers runs, so that the key that ends it is stopped in     *)
(* either order of events; and there is at most one answer under way, made *)
(* for the messages there are.                                             *)
(*                                                                         *)
(* ConsoleShell: for any set of hosts, alerts, tabs and search terms and   *)
(* any number of moves.  What is mounted is what the router says of the    *)
(* address once the page's code is there, and what is drawn around it      *)
(* follows from that.                                                      *)
(***************************************************************************)
EXTENDS Composition, ConsoleShell, Integers, FiniteSetTheorems, TLAPS

FlagType ==
    /\ safari \in BOOLEAN /\ ime \in BOOLEAN /\ dialogOpen \in BOOLEAN
    /\ composing \in BOOLEAN /\ justEnded \in BOOLEAN /\ overtaken \in BOOLEAN
    /\ c \in [Field -> BOOLEAN] /\ zero \in [Field -> 0 .. 2]
    /\ clears \subseteq 1 .. ClearDelay /\ endTimer \in 0 .. EndDelay

(* The flag of the field in which a composition is under way is set and no *)
(* timer will reset it; every other flag has a timer that will.            *)
FieldFlags ==
    /\ ime => c[Focus] /\ zero[Focus] = 0
    /\ \A f \in Field : c[f] => zero[f] > 0 \/ (ime /\ f = Focus)

(* The dialog's flag is set during its compositions, unless the timer of   *)
(* an earlier one has reset it.                                            *)
DialogFlags ==
    /\ composing => clears # {} \/ (ime /\ dialogOpen)
    /\ ime /\ dialogOpen => composing \/ overtaken
    /\ justEnded => endTimer > 0

FlagInv == FlagType /\ FieldFlags /\ DialogFlags

Text   == {"", "blanks", "text"}
Line   == {"user", "assistant"}
Answer == [left : 1 .. ReplyDelay, seen : Seq(Line)]

Asked(list) == {i \in DOMAIN list : list[i] = "user"}

(* Questions and answers alternate; one answer is under way while the chat *)
(* is loading, made for the messages there are, and none otherwise.        *)
ChatInv ==
    /\ input \in Text /\ sent \in 0 .. MaxSends
    /\ isLoading \in BOOLEAN
    /\ messages \in Seq(Line) /\ replies \subseteq Answer
    /\ ~isLoading => replies = {} /\ Len(messages) = 2 * sent
    /\ isLoading => /\ Len(messages) = (2 * sent) - 1
                    /\ \E r \in Answer : replies = {r} /\ r.seen = messages
    /\ \A i \in DOMAIN messages : messages[i] = "user" <=> i % 2 = 1
    /\ IsFiniteSet(Asked(messages)) /\ Cardinality(Asked(messages)) = sent

IndInv == FlagInv /\ ChatInv
-----------------------------------------------------------------------------
(* The chat.                                                               *)

(* A line more at the end of the list.                                     *)
LEMMA AppendedLine ==
    ASSUME NEW list \in Seq(Line), NEW line \in Line
    PROVE  /\ Append(list, line) \in Seq(Line)
           /\ Len(Append(list, line)) = Len(list) + 1
           /\ DOMAIN Append(list, line) = DOMAIN list \cup {Len(list) + 1}
           /\ Len(list) + 1 \notin DOMAIN list
           /\ Append(list, line)[Len(list) + 1] = line
           /\ \A i \in DOMAIN list : Append(list, line)[i] = list[i]
<1>1. DOMAIN list = 1 .. Len(list) /\ Len(list) \in Nat
  OBVIOUS
<1>2. Append(list, line) \in Seq(Line) /\ Len(Append(list, line)) = Len(list) + 1
  OBVIOUS
<1>3. DOMAIN Append(list, line) = 1 .. (Len(list) + 1)
  BY <1>2
<1>4. \A i \in 1 .. Len(list) : Append(list, line)[i] = list[i]
  OBVIOUS
<1> QED
  BY <1>1, <1>2, <1>3, <1>4

LEMMA AskedAppended ==
    ASSUME NEW list \in Seq(Line), IsFiniteSet(Asked(list))
    PROVE  /\ Asked(Append(list, "assistant")) = Asked(list)
           /\ IsFiniteSet(Asked(Append(list, "user")))
           /\ Cardinality(Asked(Append(list, "user"))) = Cardinality(Asked(list)) + 1
<1>1. Asked(Append(list, "assistant")) = Asked(list)
  BY AppendedLine DEF Asked, Line
<1>2. Asked(Append(list, "user")) = Asked(list) \cup {Len(list) + 1}
  BY AppendedLine DEF Asked, Line
<1>3. Len(list) + 1 \notin Asked(list)
  BY AppendedLine DEF Asked, Line
<1> QED
  BY <1>1, <1>2, <1>3, FS_AddElement

LEMMA ChatFrame ==
    ASSUME ChatInv, UNCHANGED <<messages, replies, isLoading, sent>>,
           input' \in Text
    PROVE  ChatInv'
  BY DEF ChatInv, Asked

(* handleChatSend: the list grows by a question, and its answer is under   *)
(* way.                                                                    *)
LEMMA SendStep ==
    ASSUME ChatInv, ~isLoading, HandleChatSend, input' \in Text
    PROVE  ChatInv'
<1>1. /\ messages \in Seq(Line) /\ sent \in Nat /\ Len(messages) = 2 * sent /\ replies = {}
      /\ sent < MaxSends /\ MaxSends \in Nat /\ "user" \in Line
  BY CompositionAssumption DEF ChatInv, HandleChatSend, Line
<1>2. /\ messages' = Append(messages, "user") /\ isLoading' = TRUE /\ sent' = sent + 1
      /\ replies' = {[left |-> ReplyDelay, seen |-> messages']}
  BY <1>1 DEF HandleChatSend
<1>3. messages' \in Seq(Line) /\ Len(messages') = (2 * sent') - 1
  BY <1>1, <1>2, AppendedLine
<1>4. [left |-> ReplyDelay, seen |-> messages'] \in Answer
  BY <1>3, CompositionAssumption DEF Answer
<1>5. \A i \in DOMAIN messages' : messages'[i] = "user" <=> i % 2 = 1
  <2>1. ((2 * sent) + 1) % 2 = 1 /\ Len(messages) + 1 = (2 * sent) + 1
    BY <1>1
  <2>2. /\ DOMAIN messages' = DOMAIN messages \cup {(2 * sent) + 1}
        /\ messages'[(2 * sent) + 1] = "user"
    BY <1>1, <1>2, <2>1, AppendedLine
  <2>3. \A i \in DOMAIN messages : messages'[i] = messages[i]
    BY <1>1, <1>2, AppendedLine
  <2> QED
    BY <2>1, <2>2, <2>3 DEF ChatInv
<1>6. IsFiniteSet(Asked(messages')) /\ Cardinality(Asked(messages')) = sent'
  BY <1>1, <1>2, AskedAppended DEF ChatInv
<1>7. sent' \in 0 .. MaxSends
  BY <1>1, <1>2
<1>8. \E r \in Answer : replies' = {r} /\ r.seen = messages'
  BY <1>2, <1>4
<1>9. replies' \subseteq Answer
  BY <1>2, <1>4
<1> QED
  BY <1>2, <1>3, <1>5, <1>6, <1>7, <1>8, <1>9 DEF ChatInv, Asked

LEMMA SubmitStep ==
    ASSUME ChatInv, HandleSubmit(input)
    PROVE  ChatInv'
<1>1. CASE UNCHANGED chatVars
  BY <1>1, ChatFrame DEF chatVars, ChatInv
<1>2. CASE ~isLoading /\ HandleChatSend /\ input' = ""
  <2>1. input' \in Text
    BY <1>2, Zenon DEF Text
  <2>2. ~isLoading /\ HandleChatSend
    BY <1>2
  <2> QED
    BY <2>1, <2>2, SendStep
<1> QED
  BY <1>1, <1>2 DEF HandleSubmit

(* Time passes for the chat: the answer comes nearer or arrives.           *)
LEMMA ChatTick == ChatInv /\ Tick => ChatInv'
<1> SUFFICES ASSUME ChatInv, Tick PROVE ChatInv'
  OBVIOUS
<1>1. /\ replies' = {[r EXCEPT !.left = @ - 1] : r \in {q \in replies : q.left > 1}}
      /\ sent' = sent /\ input' = input
      /\ messages \in Seq(Line) /\ sent \in Nat
  BY CompositionAssumption DEF Tick, ChatInv
<1>2. CASE ~isLoading
  <2>1. replies = {} /\ replies' = {} /\ messages' = messages /\ isLoading' = isLoading
    BY <1>1, <1>2 DEF Tick, ChatInv
  <2> QED
    BY <1>1, <2>1, ChatFrame DEF ChatInv
<1>3. CASE isLoading
  <2>1. PICK r \in Answer : replies = {r} /\ r.seen = messages
    BY <1>3 DEF ChatInv
  <2>2. r.left \in Nat /\ r.left >= 1 /\ r.left <= ReplyDelay /\ ReplyDelay \in Nat
    BY CompositionAssumption DEF Answer
  <2>3. Len(messages) = (2 * sent) - 1
    BY <1>3 DEF ChatInv
  <2>4. CASE r.left = 1
    <3>1. replies' = {}
      BY <1>1, <2>1, <2>4
    <3>2. messages' = Append(messages, "assistant") /\ isLoading' = FALSE
      BY <2>1, <2>2, <2>4 DEF Tick, Reply
    <3>3. messages' \in Seq(Line) /\ Len(messages') = 2 * sent
      <4>1. "assistant" \in Line
        BY DEF Line
      <4>2. messages' \in Seq(Line) /\ Len(messages') = Len(messages) + 1
        BY <1>1, <3>2, <4>1, AppendedLine
      <4> QED
        BY <1>1, <2>3, <4>2
    <3>4. \A i \in DOMAIN messages' : messages'[i] = "user" <=> i % 2 = 1
      <4>1. (2 * sent) % 2 # 1 /\ Len(messages) + 1 = 2 * sent
        BY <1>1, <2>3
      <4>2. DOMAIN messages' = DOMAIN messages \cup {2 * sent} /\ messages'[2 * sent] = "assistant"
        BY <1>1, <3>2, <4>1, AppendedLine DEF Line
      <4>3. \A i \in DOMAIN messages : messages'[i] = messages[i]
        BY <1>1, <3>2, AppendedLine DEF Line
      <4> QED
        BY <4>1, <4>2, <4>3 DEF ChatInv
    <3>5. IsFiniteSet(Asked(messages')) /\ Cardinality(Asked(messages')) = sent
      BY <1>1, <3>2, AskedAppended DEF ChatInv
    <3> QED
      BY <1>1, <3>1, <3>2, <3>3, <3>4, <3>5 DEF ChatInv, Asked
  <2>5. CASE r.left # 1
    <3> DEFINE q == [r EXCEPT !.left = @ - 1]
    <3>1. q \in Answer /\ q.seen = r.seen
      BY <2>2, <2>5 DEF Answer
    <3>2. replies' = {q}
      BY <1>1, <2>1, <2>2, <2>5
    <3> HIDE DEF q
    <3>3. messages' = messages /\ isLoading' = isLoading
      BY <2>1, <2>2, <2>5 DEF Tick
    <3>4. \E x \in Answer : replies' = {x} /\ x.seen = messages'
      BY <2>1, <3>1, <3>2, <3>3
    <3>5. replies' \subseteq Answer
      BY <3>1, <3>2
    <3> QED
      BY <1>1, <1>3, <3>3, <3>4, <3>5 DEF ChatInv, Asked
  <2> QED
    BY <2>4, <2>5
<1> QED
  BY <1>2, <1>3 DEF ChatInv
-----------------------------------------------------------------------------
(* The flags.                                                              *)
LEMMA FocusField == Focus \in Field
  BY DEF Focus, Field

LEMMA FlagSet ==
    ASSUME NEW g \in [Field -> BOOLEAN], NEW f \in Field, NEW b \in BOOLEAN
    PROVE  [g EXCEPT ![f] = b] \in [Field -> BOOLEAN]
  OBVIOUS

LEMMA TimerSet ==
    ASSUME NEW g \in [Field -> 0 .. 2], NEW f \in Field, NEW n \in 0 .. 2
    PROVE  [g EXCEPT ![f] = n] \in [Field -> 0 .. 2]
  OBVIOUS

LEMMA CompositionStarts == FlagInv /\ OnCompositionStart => FlagInv'
<1> SUFFICES ASSUME FlagInv, OnCompositionStart PROVE FlagInv'
  OBVIOUS
<1>1. /\ ~ime /\ ime' = TRUE /\ Focus' = Focus /\ Focus \in Field
      /\ c' = [c EXCEPT ![Focus] = TRUE] /\ zero' = [zero EXCEPT ![Focus] = 0]
      /\ composing' = (composing \/ dialogOpen) /\ overtaken' = FALSE
      /\ UNCHANGED <<safari, dialogOpen, clears, justEnded, endTimer>>
  BY FocusField DEF OnCompositionStart, Focus
<1>2. FlagType'
  <2>1. /\ c \in [Field -> BOOLEAN] /\ zero \in [Field -> 0 .. 2]
        /\ 0 \in 0 .. 2 /\ TRUE \in BOOLEAN
    BY DEF FlagInv, FlagType
  <2>2. c' \in [Field -> BOOLEAN] /\ zero' \in [Field -> 0 .. 2]
    BY <1>1, <2>1, FlagSet, TimerSet
  <2>3. ime' \in BOOLEAN /\ composing' \in BOOLEAN /\ overtaken' \in BOOLEAN
    BY <1>1
  <2> QED
    BY <1>1, <2>2, <2>3 DEF FlagInv, FlagType
<1>3. FieldFlags'
  BY <1>1 DEF FlagInv, FlagType, FieldFlags
<1>4. DialogFlags'
  BY <1>1 DEF FlagInv, FlagType, DialogFlags
<1> QED
  BY <1>2, <1>3, <1>4 DEF FlagInv

(* The field that had the composition gets its timers, or goes with the    *)
(* dialog.                                                                 *)
LEMMA CompositionEnds ==
    ASSUME FlagInv, ime, ime' = FALSE, OnCompositionEnd,
           UNCHANGED <<safari, composing, overtaken>>,
           \/ UNCHANGED <<dialogOpen, c>> /\ zero' = [zero EXCEPT ![Focus] = 2]
           \/ dialogOpen /\ CloseDialog
    PROVE  FlagInv'
<1>1. FlagType'
  <2>1. /\ justEnded' \in BOOLEAN /\ endTimer' \in 0 .. EndDelay
        /\ clears' \subseteq 1 .. ClearDelay
    <3>1. CASE UNCHANGED <<justEnded, endTimer, clears>>
      BY <3>1 DEF FlagInv, FlagType
    <3>2. CASE justEnded' = TRUE /\ endTimer' = EndDelay /\ clears' = clears \cup {ClearDelay}
      BY <3>2 DEF FlagInv, FlagType, EndDelay, ClearDelay
    <3> QED
      BY <3>1, <3>2 DEF OnCompositionEnd, MarkCompositionEnd
  <2>2. dialogOpen' \in BOOLEAN /\ c' \in [Field -> BOOLEAN] /\ zero' \in [Field -> 0 .. 2]
    <3>1. /\ c \in [Field -> BOOLEAN] /\ zero \in [Field -> 0 .. 2] /\ dialogOpen \in BOOLEAN
          /\ 0 \in 0 .. 2 /\ 2 \in 0 .. 2 /\ FALSE \in BOOLEAN /\ "dialog" \in Field
      BY DEF FlagInv, FlagType, Field
    <3>2. CASE UNCHANGED <<dialogOpen, c>> /\ zero' = [zero EXCEPT ![Focus] = 2]
      BY <3>1, <3>2, FocusField, TimerSet
    <3>3. CASE CloseDialog
      BY <3>1, <3>3, FlagSet, TimerSet DEF CloseDialog
    <3> QED
      BY <3>2, <3>3
  <2> QED
    BY <2>1, <2>2 DEF FlagInv, FlagType
<1>2. FieldFlags'
  <2>1. CASE UNCHANGED <<dialogOpen, c>> /\ zero' = [zero EXCEPT ![Focus] = 2]
    BY <2>1, FocusField DEF FlagInv, FlagType, FieldFlags
  <2>2. CASE dialogOpen /\ CloseDialog
    <3>1. /\ c' = [c EXCEPT !["dialog"] = FALSE] /\ zero' = [zero EXCEPT !["dialog"] = 0]
          /\ Focus = "dialog"
      BY <2>2 DEF CloseDialog, Focus
    <3> QED
      BY <3>1 DEF FlagInv, FlagType, FieldFlags, Field
  <2> QED
    BY <2>1, <2>2
<1>3. DialogFlags'
  BY DEF FlagInv, FlagType, DialogFlags, OnCompositionEnd, MarkCompositionEnd, EndDelay
<1> QED
  BY <1>1, <1>2, <1>3 DEF FlagInv

(* Outside a composition the dialog is opened or closed, or neither.       *)
LEMMA DialogMoves ==
    ASSUME FlagInv, ~ime, UNCHANGED <<safari, ime, composing, clears, justEnded, endTimer, overtaken>>,
           \/ dialogOpen' \in BOOLEAN /\ UNCHANGED <<c, zero>>
           \/ CloseDialog
    PROVE  FlagInv'
<1>1. FlagType'
  <2>1. /\ c \in [Field -> BOOLEAN] /\ zero \in [Field -> 0 .. 2]
        /\ 0 \in 0 .. 2 /\ FALSE \in BOOLEAN /\ "dialog" \in Field
    BY DEF FlagInv, FlagType, Field
  <2>2. dialogOpen' \in BOOLEAN /\ c' \in [Field -> BOOLEAN] /\ zero' \in [Field -> 0 .. 2]
    <3>1. CASE dialogOpen' \in BOOLEAN /\ UNCHANGED <<c, zero>>
      BY <2>1, <3>1
    <3>2. CASE CloseDialog
      BY <2>1, <3>2, FlagSet, TimerSet DEF CloseDialog
    <3> QED
      BY <3>1, <3>2
  <2> QED
    BY <2>2 DEF FlagInv, FlagType
<1>2. FieldFlags'
  <2>1. CASE UNCHANGED <<c, zero>>
    BY <2>1 DEF FlagInv, FlagType, FieldFlags
  <2>2. CASE CloseDialog
    BY <2>2 DEF FlagInv, FlagType, FieldFlags, CloseDialog, Field
  <2> QED
    BY <2>1, <2>2
<1>3. DialogFlags'
  BY DEF FlagInv, FlagType, DialogFlags
<1> QED
  BY <1>1, <1>2, <1>3 DEF FlagInv

LEMMA FlagFrame ==
    ASSUME FlagInv, UNCHANGED <<safari, ime, c, zero, dialogVars>>
    PROVE  FlagInv'
<1>1. Focus' = Focus
  BY DEF Focus, dialogVars
<1> QED
  BY <1>1 DEF FlagInv, FlagType, FieldFlags, DialogFlags, dialogVars

LEMMA ZeroTimerRuns ==
    ASSUME FlagInv, NEW f \in Field, ZeroTimer(f)
    PROVE  FlagInv'
<1>1. /\ zero[f] > 0 /\ zero' = [zero EXCEPT ![f] = zero[f] - 1]
      /\ c' = [c EXCEPT ![f] = c[f] /\ zero[f] = 2]
      /\ UNCHANGED <<safari, ime, dialogVars>>
      /\ Focus' = Focus
  BY DEF ZeroTimer, Focus, dialogVars
<1>2. zero[f] \in {1, 2} /\ c \in [Field -> BOOLEAN] /\ zero \in [Field -> 0 .. 2]
  BY <1>1 DEF FlagInv, FlagType
<1>3. /\ c'[f] = (c[f] /\ zero[f] = 2) /\ zero'[f] = zero[f] - 1
      /\ \A g \in Field \ {f} : c'[g] = c[g] /\ zero'[g] = zero[g]
      /\ c' \in [Field -> BOOLEAN] /\ zero' \in [Field -> 0 .. 2]
  BY <1>1, <1>2
<1>4. FieldFlags'
  <2>1. ime => f # Focus
    BY <1>1, <1>2 DEF FlagInv, FieldFlags
  <2>2. ime' => c'[Focus'] /\ zero'[Focus'] = 0
    BY <1>1, <1>3, <2>1, FocusField DEF FlagInv, FieldFlags
  <2>3. ASSUME NEW g \in Field, c'[g]
        PROVE  zero'[g] > 0 \/ (ime' /\ g = Focus')
    <3>1. CASE g = f
      BY <1>2, <1>3, <2>3, <3>1
    <3>2. CASE g # f
      BY <1>1, <1>3, <2>3, <3>2 DEF FlagInv, FieldFlags
    <3> QED
      BY <3>1, <3>2
  <2> QED
    BY <2>2, <2>3 DEF FieldFlags
<1> QED
  BY <1>1, <1>3, <1>4 DEF FlagInv, FlagType, DialogFlags, dialogVars

LEMMA FlagTick == FlagInv /\ Tick => FlagInv'
<1> SUFFICES ASSUME FlagInv, Tick PROVE FlagInv'
  OBVIOUS
<1>1. /\ clears' = {t - 1 : t \in clears \ {1}}
      /\ composing' = (composing /\ 1 \notin clears)
      /\ overtaken' = (overtaken \/ (1 \in clears /\ ime))
      /\ endTimer' = IF endTimer > 0 THEN endTimer - 1 ELSE 0
      /\ justEnded' = (justEnded /\ endTimer # 1)
      /\ UNCHANGED <<safari, ime, dialogOpen, c, zero>>
  BY DEF Tick
<1>2. Focus' = Focus
  BY <1>1 DEF Focus
<1>3. FlagType'
  BY <1>1 DEF FlagInv, FlagType, ClearDelay, EndDelay
<1>4. FieldFlags'
  BY <1>1, <1>2 DEF FlagInv, FieldFlags
<1>5. DialogFlags'
  <2>1. endTimer \in 0 .. 3
    BY DEF FlagInv, FlagType, EndDelay
  <2>2. justEnded' => endTimer' > 0
    <3>1. justEnded => endTimer > 0
      BY DEF FlagInv, DialogFlags
    <3>2. justEnded' => justEnded /\ endTimer # 1
      BY <1>1
    <3>3. endTimer > 0 /\ endTimer # 1 => endTimer' > 0
      BY <1>1, <2>1
    <3> QED
      BY <3>1, <3>2, <3>3
  <2>3. composing' => clears' # {} \/ (ime' /\ dialogOpen')
    BY <1>1 DEF FlagInv, DialogFlags
  <2>4. ime' /\ dialogOpen' => composing' \/ overtaken'
    BY <1>1 DEF FlagInv, DialogFlags
  <2> QED
    BY <2>2, <2>3, <2>4 DEF DialogFlags
<1> QED
  BY <1>3, <1>4, <1>5 DEF FlagInv
-----------------------------------------------------------------------------
(* A key that ends a composition: what it may reach.                       *)
LEMMA EnterIsStopped ==
    ASSUME FlagInv, ime, NEW key \in Enter
    PROVE  /\ ~SubmitsDialog(key, ~safari, safari /\ dialogOpen)
           /\ ~HandleEscapeKeyDown(key, ~safari)
           /\ ~HandleKeyDown(key, ~safari)
<1>1. c[Focus]
  BY DEF FlagInv, FieldFlags
<1>2. key # "Escape"
  BY DEF Enter
<1> QED
  BY <1>1, <1>2
  DEF SubmitsDialog, Input, HandleEscapeKeyDown, HandleKeyDown, UseComposition

LEMMA EscapeIsStopped ==
    ASSUME FlagInv, ime, dialogOpen, ~overtaken
    PROVE  /\ ~SubmitsDialog("Escape", ~safari, safari /\ dialogOpen)
           /\ ~HandleEscapeKeyDown("Escape", ~safari)
           /\ ~HandleKeyDown("Escape", ~safari)
<1>1. composing
  BY DEF FlagInv, DialogFlags
<1> QED
  BY <1>1 DEF SubmitsDialog, HandleEscapeKeyDown, HandleKeyDown, Enter

LEMMA EndCompositionStep ==
    ASSUME IndInv, NEW key \in Key, EndComposition(key)
    PROVE  IndInv'
<1> DEFINE native == ~safari
           ended  == safari /\ dialogOpen
           keeps  == UNCHANGED <<dialogOpen, c>> /\ zero' = [zero EXCEPT ![Focus] = 2]
           closes == SubmitsDialog(key, native, ended) \/ HandleEscapeKeyDown(key, native)
<1>1. /\ FlagInv /\ ChatInv /\ ime /\ ime' = FALSE /\ OnCompositionEnd
      /\ UNCHANGED <<safari, composing, overtaken>>
  BY DEF IndInv, EndComposition
<1>2. CASE closes /\ CloseDialog /\ UNCHANGED chatVars
  <2>1. dialogOpen
    BY <1>2 DEF SubmitsDialog, HandleEscapeKeyDown
  <2>2. FlagInv'
    BY <1>1, <1>2, <2>1, CompositionEnds
  <2>3. ChatInv'
    BY <1>1, <1>2, ChatFrame DEF chatVars, ChatInv
  <2> QED
    BY <2>2, <2>3 DEF IndInv
<1>3. CASE HandleSubmit(input) /\ keeps
  <2>1. FlagInv'
    BY <1>1, <1>3, CompositionEnds
  <2>2. ChatInv'
    BY <1>1, <1>3, SubmitStep
  <2> QED
    BY <2>1, <2>2 DEF IndInv
<1>4. CASE /\ keeps /\ input' \in Text
           /\ UNCHANGED <<messages, replies, isLoading, sent>>
  <2>1. FlagInv'
    BY <1>1, <1>4, CompositionEnds
  <2>2. ChatInv'
    BY <1>1, <1>4, ChatFrame
  <2> QED
    BY <2>1, <2>2 DEF IndInv
<1>5. \/ closes /\ CloseDialog /\ UNCHANGED chatVars
      \/ HandleSubmit(input) /\ keeps
      \/ keeps /\ input' \in Text /\ UNCHANGED <<messages, replies, isLoading, sent>>
  <2>1. input \in Text /\ "" \in Text
    BY <1>1, Zenon DEF ChatInv, Text
  <2>2. (input' \in IF key = "Escape" /\ ~dialogOpen THEN {"", input} ELSE {input})
            => input' \in Text
    BY <2>1, Zenon
  <2> QED
    BY <2>2, Zenon DEF EndComposition
<1> QED
  BY <1>2, <1>3, <1>4, <1>5

LEMMA PressKeyStep ==
    ASSUME IndInv, NEW key \in Key, PressKey(key)
    PROVE  IndInv'
<1>1. /\ FlagInv /\ ChatInv /\ ~ime
      /\ UNCHANGED <<safari, ime, composing, clears, justEnded, endTimer, overtaken>>
  BY DEF IndInv, PressKey
<1>2. CASE CloseDialog /\ UNCHANGED chatVars
  <2>1. FlagInv'
    BY <1>1, <1>2, DialogMoves
  <2>2. ChatInv'
    BY <1>1, <1>2, ChatFrame DEF chatVars, ChatInv
  <2> QED
    BY <2>1, <2>2 DEF IndInv
<1>3. CASE HandleSubmit(input) /\ UNCHANGED <<dialogOpen, c, zero>>
  <2>1. dialogOpen' \in BOOLEAN
    BY <1>1, <1>3 DEF FlagInv, FlagType
  <2>2. FlagInv'
    BY <1>1, <1>3, <2>1, DialogMoves
  <2>3. ChatInv'
    BY <1>1, <1>3, SubmitStep
  <2> QED
    BY <2>2, <2>3 DEF IndInv
<1> QED
  BY <1>2, <1>3 DEF PressKey

LEMMA ClickActions ==
    ASSUME IndInv, DialogTrigger \/ DialogButton \/ Type \/ SendButton
    PROVE  IndInv'
<1>1. FlagInv /\ ChatInv /\ input \in Text
  BY DEF IndInv, ChatInv
<1>2. CASE DialogTrigger \/ DialogButton
  <2>1. /\ ~ime
        /\ UNCHANGED <<safari, ime, composing, clears, justEnded, endTimer, overtaken>>
        /\ UNCHANGED chatVars
        /\ (dialogOpen' \in BOOLEAN /\ UNCHANGED <<c, zero>>) \/ CloseDialog
    BY <1>2 DEF DialogTrigger, DialogButton
  <2>2. FlagInv'
    BY <1>1, <2>1, DialogMoves
  <2>3. ChatInv'
    BY <1>1, <2>1, ChatFrame DEF chatVars
  <2> QED
    BY <2>2, <2>3 DEF IndInv
<1>3. CASE Type
  <2>1. /\ UNCHANGED <<safari, ime, c, zero, dialogVars>>
        /\ UNCHANGED <<messages, replies, isLoading, sent>>
    BY <1>3, Zenon DEF Type
  <2>2. input' \in Text
    BY <1>3, Zenon DEF Type, Text
  <2> QED
    BY <1>1, <2>1, <2>2, FlagFrame, ChatFrame DEF IndInv
<1>4. CASE SendButton
  <2>1. UNCHANGED <<safari, ime, c, zero, dialogVars>>
    BY <1>4 DEF SendButton
  <2>2. ChatInv'
    <3>1. CASE HandleSubmit(input)
      BY <1>1, <3>1, SubmitStep
    <3>2. CASE ~isLoading /\ HandleChatSend /\ UNCHANGED input
      BY <1>1, <3>2, SendStep
    <3> QED
      BY <1>4, <3>1, <3>2 DEF SendButton
  <2> QED
    BY <1>1, <2>1, <2>2, FlagFrame DEF IndInv
<1> QED
  BY <1>2, <1>3, <1>4

LEMMA OtherActions ==
    ASSUME IndInv,
           OnCompositionStart \/ EndByMouse \/ Tick \/ (\E f \in Field : ZeroTimer(f))
    PROVE  IndInv'
<1>1. FlagInv /\ ChatInv /\ input \in Text
  BY DEF IndInv, ChatInv
<1>2. CASE OnCompositionStart
  <2>1. UNCHANGED <<messages, replies, isLoading, sent>>
    BY <1>2 DEF OnCompositionStart
  <2>2. input' \in Text
    <3>1. "text" \in Text
      BY Zenon DEF Text
    <3> QED
      BY <1>1, <1>2, <3>1 DEF OnCompositionStart
  <2> QED
    BY <1>1, <1>2, <2>1, <2>2, CompositionStarts, ChatFrame DEF IndInv
<1>3. CASE EndByMouse
  <2>1. /\ ime /\ ime' = FALSE /\ OnCompositionEnd /\ UNCHANGED <<safari, composing, overtaken>>
        /\ UNCHANGED <<dialogOpen, c>> /\ zero' = [zero EXCEPT ![Focus] = 2]
        /\ UNCHANGED chatVars
    BY <1>3 DEF EndByMouse
  <2>2. FlagInv'
    BY <1>1, <2>1, CompositionEnds
  <2>3. ChatInv'
    BY <1>1, <2>1, ChatFrame DEF chatVars
  <2> QED
    BY <2>2, <2>3 DEF IndInv
<1>4. CASE Tick
  BY <1>1, <1>4, FlagTick, ChatTick DEF IndInv
<1>5. CASE \E f \in Field : ZeroTimer(f)
  <2>1. PICK f \in Field : ZeroTimer(f)
    BY <1>5
  <2>2. UNCHANGED chatVars
    BY <2>1 DEF ZeroTimer
  <2>3. ChatInv'
    BY <1>1, <2>2, ChatFrame DEF chatVars
  <2> QED
    BY <1>1, <2>1, <2>3, ZeroTimerRuns DEF IndInv
<1> QED
  BY <1>2, <1>3, <1>4, <1>5

LEMMA InitInv == Init => IndInv
<1> SUFFICES ASSUME Init PROVE IndInv
  OBVIOUS
<1>1. /\ safari \in BOOLEAN /\ ime = FALSE /\ dialogOpen = FALSE
      /\ c = [f \in Field |-> FALSE] /\ zero = [f \in Field |-> 0]
      /\ composing = FALSE /\ clears = {} /\ justEnded = FALSE /\ endTimer = 0
      /\ overtaken = FALSE
      /\ messages = <<>> /\ replies = {} /\ isLoading = FALSE /\ sent = 0
  BY Zenon DEF Init
<1>2. FlagInv
  <2>1. /\ safari \in BOOLEAN /\ ime \in BOOLEAN /\ dialogOpen \in BOOLEAN
        /\ composing \in BOOLEAN /\ justEnded \in BOOLEAN /\ overtaken \in BOOLEAN
    BY <1>1, Zenon
  <2>2. c \in [Field -> BOOLEAN]
    BY <1>1, Zenon
  <2>3. /\ zero \in [Field -> 0 .. 2]
        /\ clears \subseteq 1 .. ClearDelay /\ endTimer \in 0 .. EndDelay
    BY <1>1 DEF ClearDelay, EndDelay
  <2>4. FlagType
    BY <2>1, <2>2, <2>3, Zenon DEF FlagType
  <2> QED
    BY <1>1, <2>4 DEF FlagInv, FieldFlags, DialogFlags
<1>3. ChatInv
  <2>1. input \in Text
    BY Zenon DEF Init, Text
  <2>2. Asked(messages) = {}
    BY <1>1 DEF Asked
  <2>3. IsFiniteSet(Asked(messages)) /\ Cardinality(Asked(messages)) = sent
    BY <1>1, <2>2, FS_EmptySet
  <2>4. sent \in 0 .. MaxSends /\ Len(messages) = 2 * sent
    BY <1>1, CompositionAssumption
  <2>5. messages \in Seq(Line) /\ DOMAIN messages = {}
    BY <1>1
  <2>6. isLoading \in BOOLEAN /\ ~isLoading /\ replies = {} /\ replies \subseteq Answer
    BY <1>1, Zenon
  <2>7. \A i \in DOMAIN messages : messages[i] = "user" <=> i % 2 = 1
    BY <2>5
  <2> QED
    BY <2>1, <2>3, <2>4, <2>5, <2>6, <2>7, Zenon DEF ChatInv
<1> QED
  BY <1>2, <1>3 DEF IndInv

LEMMA StutterStep == IndInv /\ UNCHANGED vars => IndInv'
<1> SUFFICES ASSUME IndInv, UNCHANGED vars PROVE IndInv'
  OBVIOUS
<1>1. UNCHANGED <<safari, ime, c, zero, dialogVars>> /\ UNCHANGED chatVars
  BY DEF vars
<1>2. input \in Text
  BY DEF IndInv, ChatInv
<1> QED
  BY <1>1, <1>2, FlagFrame, ChatFrame DEF IndInv, chatVars
-----------------------------------------------------------------------------
(* The strengthened invariant.                                             *)
THEOREM CompositionInvariant == Spec => []IndInv
<1>1. IndInv /\ [Next]_vars => IndInv'
  BY EndCompositionStep, PressKeyStep, ClickActions, OtherActions, StutterStep DEF Next
<1> QED
  BY <1>1, InitInv, PTL DEF Spec

(* After any typing, sending and answering the chat holds exactly what was *)
(* sent, each question followed by its answer (handleChatSend captures the *)
(* list), and no composition leaves a flag of useComposition or of the     *)
(* dialog behind.                                                          *)
THEOREM EntryStateIsKept == Spec => []EntryKeepsItsState
<1>1. IndInv => TypeOK
  <2> SUFFICES ASSUME IndInv PROVE TypeOK
    OBVIOUS
  <2>1. {safari, ime, dialogOpen, composing, justEnded, overtaken, isLoading} \subseteq BOOLEAN
    BY Zenon DEF IndInv, FlagInv, FlagType, ChatInv
  <2>2. input \in {"", "blanks", "text"}
    BY Zenon DEF IndInv, ChatInv, Text
  <2>3. /\ messages \in Seq({"user", "assistant"}) /\ sent \in 0 .. MaxSends
        /\ \A r \in replies : r.left \in 1 .. ReplyDelay /\ r.seen \in Seq({"user", "assistant"})
    BY DEF IndInv, ChatInv, Answer, Line
  <2>4. /\ c \in [Field -> BOOLEAN] /\ zero \in [Field -> 0 .. 2]
        /\ clears \subseteq 1 .. ClearDelay /\ endTimer \in 0 .. EndDelay
    BY DEF IndInv, FlagInv, FlagType
  <2> QED
    BY <2>1, <2>2, <2>3, <2>4, Zenon DEF TypeOK
<1>2. IndInv => FlagsWearOff
  BY DEF IndInv, FlagInv, FieldFlags, DialogFlags, FlagsWearOff
<1>3. IndInv => NoMessageLost
  BY DEF IndInv, ChatInv, Asked, NoMessageLost
<1>4. IndInv => EntryKeepsItsState
  BY <1>1, <1>2, <1>3 DEF EntryKeepsItsState
<1> QED
  BY <1>4, CompositionInvariant, PTL

(* The key that ends a composition does nothing else, in either order of   *)
(* events: the Enter that confirms a candidate neither submits the dialog  *)
(* nor sends the message, and the Escape that drops one leaves the dialog  *)
(* open unless the uncancelled timer of an earlier composition interfered. *)
THEOREM EndingKeysAreInert == Spec => ComposingKeysAreInert
<1>1. ASSUME IndInv, NEW key \in Enter, EndComposition(key)
      PROVE  sent' = sent /\ dialogOpen' = dialogOpen
  <2>1. ime /\ FlagInv
    BY <1>1 DEF IndInv, EndComposition
  <2> QED
    BY <1>1, <2>1, EnterIsStopped, Zenon DEF EndComposition
<1>2. ASSUME IndInv, EndComposition("Escape")
      PROVE  dialogOpen' = dialogOpen \/ overtaken
  <2>1. ime /\ FlagInv
    BY <1>2 DEF IndInv, EndComposition
  <2>2. CASE dialogOpen /\ ~overtaken
    BY <1>2, <2>1, <2>2, EscapeIsStopped, Zenon DEF EndComposition
  <2>3. CASE ~dialogOpen
    <3>1. /\ ~SubmitsDialog("Escape", ~safari, safari /\ dialogOpen)
          /\ ~HandleEscapeKeyDown("Escape", ~safari)
      BY <2>3 DEF SubmitsDialog, HandleEscapeKeyDown
    <3> QED
      BY <1>2, <3>1, Zenon DEF EndComposition
  <2> QED
    BY <2>2, <2>3
<1>3. IndInv /\ [Next]_vars =>
          [\A key \in Enter : EndComposition(key) => sent' = sent /\ dialogOpen' = dialogOpen]_vars
  BY <1>1
<1>4. IndInv /\ [Next]_vars =>
          [EndComposition("Escape") => dialogOpen' = dialogOpen \/ overtaken]_vars
  BY <1>2
<1> QED
  BY <1>3, <1>4, CompositionInvariant, PTL
  DEF Spec, ComposingKeysAreInert, ConfirmingEnterIsInert, EscapeKeepsDialog
-----------------------------------------------------------------------------
(* What the page of an address keeps of its own: the filters of the lists, *)
(* the tab of a host's details, or nothing.                                *)
PageView(g) ==
    CASE g = "hosts"  -> HostFilter
      [] g = "alerts" -> AlertFilter
      [] g = "host"   -> HostTab
      [] OTHER        -> {FreshView("none")}

(* The types, with the view that belongs to what is mounted.               *)
FrameType ==
    /\ dev \in BOOLEAN /\ path \in Path /\ previous \in Path /\ moves \in 0..MaxMoves
    /\ narrow \in BOOLEAN /\ cookie \in {"unset", "true", "false"}
    /\ user \in {"loading", "in", "out"} /\ loaded \subseteq Page
    /\ crashed \in BOOLEAN /\ mounted \in Component /\ dark \in BOOLEAN
    /\ sidebar \in [here : BOOLEAN, open : BOOLEAN, sheet : BOOLEAN]
    /\ view \in PageView(mounted.page)

(* A crashed page shows nothing, only pages of the layout have the         *)
(* sidebar, and once the code of the page is loaded what is mounted is     *)
(* what the router says of the address.                                    *)
MountedFitsAddress ==
    /\ crashed => ~sidebar.here /\ mounted = Nothing
    /\ sidebar.here => mounted.page \in LayoutPage
    /\ (~crashed /\ path.page \in loaded) =>
           /\ mounted = Router(path)
           /\ sidebar.here <=> DashboardLayout(path, user)

(* The inductive invariant: a layout that is mounted has set the dark      *)
(* theme.                                                                  *)
FrameInv == FrameType /\ MountedFitsAddress /\ DarkUnderLayout

(* The types above are those of the specification.                         *)
LEMMA TypeIsShellType == FrameType <=> ShellTypeOK
  BY DEF FrameType, PageView, ShellTypeOK

(* Every address has a page, and the router a component for it.            *)
LEMMA AddressFacts ==
    ASSUME NEW p \in Path
    PROVE  /\ p.preview \in BOOLEAN /\ p.page \in Page
           /\ p.page = "host" => p.host \in Host \cup {StrangeHost}
           /\ Router(p) \in Component
           /\ Router(p).page = p.page
           /\ Router(p) # Nothing
  BY DEF Path, At, AtHost, Page, LayoutPage, Router,
     Component, Nothing

(* The paths that links and redirects are built from are addresses.        *)
LEMMA AddressesExist ==
    /\ \A b \in BOOLEAN, g \in Page \ {"host"} : At(b, g) \in Path
    /\ \A b \in BOOLEAN, h \in Host \cup {StrangeHost} : AtHost(b, h) \in Path
  BY DEF Path

(* A page starts with a view of its own kind.                              *)
LEMMA FreshViewFits ==
    ASSUME NEW g
    PROVE  FreshView(g) \in PageView(g)
<1>1. CASE g = "hosts"
  BY <1>1 DEF PageView, FreshView, HostFilter, Blank
<1>2. CASE g = "alerts"
  BY <1>2 DEF PageView, FreshView, AlertFilter
<1>3. CASE g = "host"
  BY <1>3, ShellAssumption DEF PageView, FreshView, HostTab
<1>4. CASE g \notin {"hosts", "alerts", "host"}
  BY <1>4 DEF PageView, FreshView
<1> QED BY <1>1, <1>2, <1>3, <1>4

(* What an empty frame holds, and the sidebar without and with its         *)
(* provider.                                                               *)
LEMMA FrameParts ==
    /\ Nothing.page = "none" /\ Nothing \in Component
    /\ NoSidebar \in [here : BOOLEAN, open : BOOLEAN, sheet : BOOLEAN]
    /\ SidebarProvider \in [here : BOOLEAN, open : BOOLEAN, sheet : BOOLEAN]
    /\ NoSidebar.here = FALSE /\ NoSidebar.sheet = FALSE
    /\ SidebarProvider.here = TRUE /\ SidebarProvider.sheet = FALSE
  BY DEF Nothing, Component, NoSidebar, SidebarProvider

(* A render for a new address, user or loaded page keeps the invariant,    *)
(* and the sheet of the sidebar does not stay above a page that was        *)
(* exchanged.                                                              *)
LEMMA CommitKeepsFrame ==
    ASSUME FrameInv, Commit,
           path' \in Path, previous' \in Path, moves' \in 0..MaxMoves,
           user' \in {"loading", "in", "out"}, loaded' \subseteq Page,
           crashed' \in BOOLEAN, UNCHANGED <<dev, narrow, cookie>>
    PROVE  FrameInv' /\ (mounted' # mounted => ~sidebar'.sheet)
<1>0. /\ FrameType /\ MountedFitsAddress /\ (sidebar.here => dark)
      /\ sidebar.here \in BOOLEAN /\ dark \in BOOLEAN /\ mounted \in Component
      /\ view \in PageView(mounted.page)
      /\ sidebar \in [here : BOOLEAN, open : BOOLEAN, sheet : BOOLEAN]
      /\ dev \in BOOLEAN /\ narrow \in BOOLEAN /\ cookie \in {"unset", "true", "false"}
  BY DEF FrameInv, FrameType, DarkUnderLayout
<1>1. CASE /\ ~crashed' /\ path'.page \notin loaded'
           /\ UNCHANGED <<mounted, view, sidebar, dark>>
  BY <1>0, <1>1 DEF FrameInv, FrameType, MountedFitsAddress, DarkUnderLayout, PageView
<1>2. CASE /\ ~crashed' /\ path'.page \in loaded'
           /\ mounted' = Router(path')
           /\ view' = IF mounted' = mounted THEN view ELSE FreshView(path'.page)
           /\ sidebar' = IF ~DashboardLayout(path', user') THEN NoSidebar
                         ELSE IF sidebar.here /\ mounted' = mounted THEN sidebar
                         ELSE SidebarProvider
           /\ dark' = DarkClass(sidebar.here /\ (mounted' # mounted \/ ~sidebar'.here),
                                      sidebar'.here /\ (mounted' # mounted \/ ~sidebar.here))
  <2>1. /\ mounted' \in Component /\ mounted'.page = path'.page
        /\ path'.preview \in BOOLEAN
    BY <1>2, AddressFacts
  <2>2. view' \in PageView(mounted'.page)
    BY <1>0, <1>2, <2>1, FreshViewFits
  <2>3. /\ sidebar' \in [here : BOOLEAN, open : BOOLEAN, sheet : BOOLEAN]
        /\ sidebar'.here <=> DashboardLayout(path', user')
        /\ mounted' # mounted => ~sidebar'.sheet
    BY <1>0, <1>2, FrameParts
  <2>4. dark' \in BOOLEAN /\ (sidebar'.here => dark')
    BY <1>0, <1>2, <2>3 DEF DarkClass
  <2>5. sidebar'.here => mounted'.page \in LayoutPage
    BY <2>1, <2>3 DEF DashboardLayout
  <2>6. DashboardLayout(path', user') <=> DashboardLayout(path, user)'
    BY DEF DashboardLayout, Preview, LayoutPage
  <2>7. FrameType'
    BY <1>0, <2>1, <2>2, <2>3, <2>4 DEF FrameType, PageView
  <2>8. MountedFitsAddress'
    BY <1>2, <2>3, <2>5, <2>6 DEF MountedFitsAddress, Router, LayoutPage
  <2> QED BY <2>3, <2>4, <2>7, <2>8 DEF FrameInv, DarkUnderLayout
<1>3. CASE /\ crashed'
           /\ mounted' = Nothing /\ view' = FreshView("none")
           /\ sidebar' = NoSidebar
           /\ dark' = DarkClass(sidebar.here /\ (mounted' # mounted \/ ~sidebar'.here), FALSE)
  BY <1>0, <1>3, FreshViewFits, FrameParts
     DEF FrameInv, FrameType, MountedFitsAddress, DarkUnderLayout, DarkClass
<1> QED BY <1>1, <1>2, <1>3 DEF Commit

(* From a page of the layout every link leads to one, in the same mode     *)
(* (preview or live), and a host's link to a host there is.                *)
LEMMA LinksLeadToPages ==
    ASSUME FrameInv, Content, NEW p \in Links
    PROVE  /\ p \in Path
           /\ path.page \in LayoutPage =>
                 /\ p.preview = path.preview /\ p.page \in LayoutPage
                 /\ p.page = "host" => p.host \in Host
<1>0. /\ path \in Path /\ path.preview \in BOOLEAN
      /\ path.page \in Page
      /\ mounted.page = path.page /\ view \in PageView(path.page)
  BY AddressFacts DEF FrameInv, FrameType, MountedFitsAddress, Content, Suspended
<1> DEFINE Good(q) == /\ q \in Path
                      /\ path.page \in LayoutPage =>
                            /\ q.preview = path.preview /\ q.page \in LayoutPage
                            /\ q.page = "host" => q.host \in Host
<1>1. ASSUME NEW g \in LayoutPage \ {"host"}
      PROVE  Good(At(path.preview, g))
  <2>1. At(path.preview, g) \in Path
    BY <1>0, AddressesExist DEF Page
  <2> QED BY <2>1 DEF At
<1>2. ASSUME NEW h \in Host
      PROVE  Good(AtHost(path.preview, h))
  <2>1. AtHost(path.preview, h) \in Path
    BY <1>0, AddressesExist
  <2> QED BY <2>1 DEF AtHost, LayoutPage
<1> HIDE DEF Good
<1>3. CASE path.page = "overview"
  <2>1. p \in FleetOverview(path.preview)
    BY <1>3 DEF Links
  <2>2. CASE \E g \in {"operations", "hosts", "alerts"} : p = At(path.preview, g)
    BY <1>1, <2>2 DEF LayoutPage, Good
  <2>3. CASE \E h \in Host : p = AtHost(path.preview, h)
    BY <1>2, <2>3 DEF Good
  <2> QED BY <2>1, <2>2, <2>3 DEF FleetOverview
<1>4. CASE path.page = "hosts"
  <2>1. p \in HostsPage(path.preview)
    BY <1>4 DEF Links
  <2>2. CASE \E g \in {"alerts", "operations"} : p = At(path.preview, g)
    BY <1>1, <2>2 DEF LayoutPage, Good
  <2>3. CASE \E h \in Host : p = AtHost(path.preview, h)
    BY <1>2, <2>3 DEF Good
  <2> QED BY <2>1, <2>2, <2>3 DEF HostsPage, VisibleHosts
<1>5. CASE path.page = "host"
  <2>1. \E g \in {"overview", "hosts"} : p = At(path.preview, g)
    BY <1>5 DEF Links, HostDetail
  <2> QED BY <1>1, <2>1 DEF LayoutPage, Good
<1>6. CASE path.page = "alerts"
  <2>1. PICK a \in Alert : p = AtHost(path.preview, a.host)
    BY <1>6 DEF Links, AlertsPage, FilteredAlerts
  <2>2. a.host \in Host
    BY ShellAssumption
  <2> QED BY <1>2, <2>1, <2>2 DEF Good
<1>7. CASE path.page = "administration"
  <2>1. p = At(path.preview, "alert-rules")
    BY <1>7 DEF Links, AdministrationPage
  <2> QED BY <1>1, <2>1 DEF LayoutPage, Good
<1>8. CASE path.page = "notfound"
  <2>1. p = At(FALSE, "overview")
    BY <1>8 DEF Links, NotFound
  <2> QED BY <1>8, <2>1, AddressesExist DEF Page, LayoutPage
<1>9. CASE path.page \in {"operations", "alert-rules"}
  BY <1>9 DEF Links
<1> QED BY <1>0, <1>3, <1>4, <1>5, <1>6, <1>7, <1>8, <1>9 DEF Page, LayoutPage

(* So does every item of the sidebar, which names no host.                 *)
LEMMA ItemsLeadToPages ==
    ASSUME FrameInv, NEW item \in navigation
    PROVE  /\ TargetPath(item) \in Path
           /\ TargetPath(item).page \in LayoutPage \ {"host"}
           /\ TargetPath(item).preview = Preview(path)
  BY AddressesExist DEF TargetPath, Preview, navigation, Page,
     LayoutPage, At, FrameInv, FrameType

(* Following any of them keeps the invariant.                              *)
LEMMA NavigateKeepsFrame ==
    ASSUME FrameInv, NEW p \in Path, Navigate(p)
    PROVE  FrameInv' /\ (mounted' # mounted => ~sidebar'.sheet)
<1>1. /\ path' \in Path /\ previous' \in Path /\ moves' \in 0..MaxMoves
      /\ user' \in {"loading", "in", "out"} /\ loaded' \subseteq Page
      /\ crashed' \in BOOLEAN /\ UNCHANGED <<dev, narrow, cookie>> /\ Commit
  BY ShellAssumption DEF Navigate, FrameInv, FrameType
<1> QED BY <1>1, CommitKeepsFrame

(* So does a reload, which starts the page anew.                           *)
LEMMA NewDocumentKeepsFrame ==
    ASSUME FrameInv, ThemeProvider,
           path' \in Path, previous' \in Path, moves' \in 0..MaxMoves
    PROVE  FrameInv' /\ ~sidebar'.sheet
  BY FreshViewFits, FrameParts
     DEF ThemeProvider, FrameInv, FrameType, MountedFitsAddress, DarkUnderLayout

(* The first document has nothing mounted.                                 *)
LEMMA FrameInit ==
    ASSUME ShellInit
    PROVE  FrameInv
<1>1. FrameType
  <2>1. view \in PageView(mounted.page)
    BY FreshViewFits, FrameParts DEF ShellInit
  <2>2. moves \in 0..MaxMoves
    BY ShellAssumption DEF ShellInit
  <2> QED BY <2>1, <2>2, FrameParts DEF ShellInit, FrameType
<1>2. MountedFitsAddress /\ DarkUnderLayout
  BY FrameParts DEF ShellInit, MountedFitsAddress, DarkUnderLayout
<1> QED BY <1>1, <1>2 DEF FrameInv

(* Every step keeps the invariant; one that exchanges the page leaves no   *)
(* sheet above it.                                                         *)
LEMMA FrameStep ==
    ASSUME FrameInv, [ShellNext]_shellVars
    PROVE  FrameInv' /\ (mounted' # mounted => ~sidebar'.sheet)
<1>0. FrameType /\ MountedFitsAddress /\ DarkUnderLayout
  BY DEF FrameInv
<1>1. CASE FollowLink
  BY <1>1, LinksLeadToPages, NavigateKeepsFrame DEF FollowLink
<1>2. CASE FollowItem
  BY <1>2, ItemsLeadToPages, NavigateKeepsFrame DEF FollowItem
<1>3. CASE Traverse
  BY <1>0, <1>3, NavigateKeepsFrame DEF Traverse, FrameType
<1>4. CASE EnterAddress
  BY <1>0, <1>4, NewDocumentKeepsFrame, ShellAssumption DEF EnterAddress, FrameType
<1>5. CASE Reload
  BY <1>0, <1>5, NewDocumentKeepsFrame DEF Reload, FrameType
<1>6. CASE ChunkArrives
  <2>1. loaded' \subseteq Page
    BY <1>0, <1>6, AddressFacts DEF ChunkArrives, FrameType
  <2> QED BY <1>0, <1>6, <2>1, CommitKeepsFrame DEF ChunkArrives, FrameType
<1>7. CASE ErrorBoundary
  BY <1>0, <1>7, CommitKeepsFrame DEF ErrorBoundary, FrameType
<1>8. CASE MeAnswers
  BY <1>0, <1>8, CommitKeepsFrame DEF MeAnswers, FrameType
<1>9. CASE UseIsMobile
  BY <1>0, <1>9 DEF UseIsMobile, FrameInv, FrameType, MountedFitsAddress, PageView,
     DarkUnderLayout, DashboardLayout, Preview, LayoutPage, Router
<1>10. CASE ToggleSidebar
  <2>1. /\ sidebar' \in [here : BOOLEAN, open : BOOLEAN, sheet : BOOLEAN]
        /\ sidebar'.here = sidebar.here /\ cookie' \in {"unset", "true", "false"}
    BY <1>0, <1>10 DEF ToggleSidebar, FrameType
  <2> QED BY <1>0, <1>10, <2>1 DEF ToggleSidebar, FrameInv, FrameType, MountedFitsAddress,
     PageView, DarkUnderLayout, DashboardLayout, Preview, LayoutPage, Router
<1>11. CASE DismissSheet
  <2>1. /\ sidebar' \in [here : BOOLEAN, open : BOOLEAN, sheet : BOOLEAN]
        /\ sidebar'.here = sidebar.here
    BY <1>0, <1>11 DEF DismissSheet, FrameType
  <2> QED BY <1>0, <1>11, <2>1 DEF DismissSheet, FrameInv, FrameType, MountedFitsAddress,
     PageView, DarkUnderLayout, DashboardLayout, Preview, LayoutPage, Router
<1>12. CASE Choose
  <2>1. mounted.page = path.page
    BY <1>0, <1>12, AddressFacts
       DEF Choose, Content, Suspended, FrameType, MountedFitsAddress
  <2>2. view' \in PageView(mounted.page)
    <3>1. CASE path.page = "hosts"
      <4>1. view \in HostFilter
        BY <1>0, <2>1, <3>1 DEF FrameType, PageView
      <4>2. \/ \E s \in Blank \cup Term : view' = [view EXCEPT !.search = s]
            \/ \E s \in {"all"} \cup Status : view' = [view EXCEPT !.availability = s]
            \/ view' = FreshView("hosts")
        BY <1>12, <3>1 DEF Choose
      <4>3. view' \in HostFilter
        <5>1. ASSUME NEW s \in Blank \cup Term PROVE [view EXCEPT !.search = s] \in HostFilter
          BY <4>1 DEF HostFilter
        <5>2. ASSUME NEW s \in {"all"} \cup Status PROVE [view EXCEPT !.availability = s] \in HostFilter
          BY <4>1 DEF HostFilter
        <5>3. FreshView("hosts") \in HostFilter
          BY FreshViewFits DEF PageView
        <5> QED BY <4>2, <5>1, <5>2, <5>3
      <4> QED BY <2>1, <3>1, <4>3 DEF PageView
    <3>2. CASE path.page = "alerts"
      <4>1. view \in AlertFilter
        BY <1>0, <2>1, <3>2 DEF FrameType, PageView
      <4>2. \/ \E s \in {"all", "active", "acknowledged"} : view' = [view EXCEPT !.state = s]
            \/ \E s \in {"all", "critical", "warning"} : view' = [view EXCEPT !.severity = s]
            \/ view' = FreshView("alerts")
        BY <1>12, <3>2 DEF Choose
      <4>3. view' \in AlertFilter
        BY <4>1, <4>2 DEF AlertFilter, FreshView
      <4> QED BY <2>1, <3>2, <4>3 DEF PageView
    <3>3. CASE path.page = "host"
      BY <1>12, <2>1, <3>3 DEF Choose, PageView
    <3> QED BY <1>12, <3>1, <3>2, <3>3 DEF Choose
  <2> QED BY <1>0, <1>12, <2>2 DEF Choose, FrameInv, FrameType, MountedFitsAddress,
     PageView, DarkUnderLayout, DashboardLayout, Preview, LayoutPage, Router
<1>13. CASE UNCHANGED shellVars
  BY <1>0, <1>13 DEF shellVars, FrameInv, FrameType, MountedFitsAddress,
     PageView, DarkUnderLayout, DashboardLayout, Preview, LayoutPage, Router
<1> QED BY <1>1, <1>2, <1>3, <1>4, <1>5, <1>6, <1>7, <1>8, <1>9, <1>10, <1>11, <1>12, <1>13
        DEF ShellNext

(* The invariant says that the frame fits the page in it: class, access,   *)
(* marked item and filters.                                                *)
LEMMA FrameFits ==
    ASSUME FrameInv
    PROVE  FrameFitsPage
<1>0. /\ FrameType /\ MountedFitsAddress /\ DarkUnderLayout /\ dev \in BOOLEAN
      /\ path.preview \in BOOLEAN /\ path.page \in Page
      /\ view \in PageView(mounted.page)
  BY AddressFacts DEF FrameInv, FrameType
<1>1. Content =>
         /\ mounted = Router(path)
         /\ sidebar.here <=> DashboardLayout(path, user)
  BY <1>0 DEF Content, Suspended, MountedFitsAddress
<1>2. PreviewNeedsDevelopment
  BY <1>0, <1>1, AddressFacts
     DEF PreviewNeedsDevelopment, Content, DashboardLayout, Preview,
         LayoutPage, FrameType
<1>3. SidebarTellsWhere
  <2> SUFFICES ASSUME Content, sidebar.here
               PROVE  IF path.preview /\ ~dev
                      THEN \A item \in navigation : ~Active(item)
                      ELSE \E item \in navigation :
                              /\ \A other \in navigation : Active(other) <=> other = item
                              /\ TargetPath(item).preview = path.preview
    BY DEF SidebarTellsWhere
  <2>1. path.page \in LayoutPage
    BY <1>1 DEF DashboardLayout
  <2>2. CASE path.preview /\ ~dev
    BY <1>0, <2>2 DEF Active, Preview
  <2>3. CASE ~(path.preview /\ ~dev)
    <3>1. Preview(path) = path.preview
      BY <1>0, <2>3 DEF Preview
    <3>2. \A item \in navigation : TargetPath(item).preview = path.preview
      BY <3>1 DEF TargetPath, At
    <3>3. CASE path.page \in {"host", "hosts"}
      <4>1. \A other \in navigation : Active(other) <=> other = "hosts"
        BY <3>1, <3>3 DEF Active, navigation
      <4> QED BY <2>3, <3>2, <4>1 DEF navigation
    <3>4. CASE path.page = "alert-rules"
      <4>1. \A other \in navigation : Active(other) <=> other = "administration"
        BY <3>1, <3>4 DEF Active, navigation
      <4> QED BY <2>3, <3>2, <4>1 DEF navigation
    <3>5. CASE path.page \in {"overview", "alerts", "operations", "administration"}
      <4>1. \A other \in navigation : Active(other) <=> other = path.page
        BY <3>1, <3>5 DEF Active, navigation
      <4> QED BY <2>3, <3>2, <3>5, <4>1 DEF navigation
    <3> QED BY <2>1, <3>3, <3>4, <3>5 DEF LayoutPage
  <2> QED BY <2>2, <2>3
<1>4. HiddenRowsHaveClear
  <2>1. ASSUME mounted.page = "hosts", NEW status \in [Host -> Status],
               ~HostFiltersActive(view)
        PROVE  VisibleHosts(view, status) = Host
    <3>1. view.search \in Blank /\ view.availability = "all"
      BY <2>1 DEF HostFiltersActive
    <3> QED BY <3>1 DEF VisibleHosts
  <2>2. ASSUME mounted.page = "alerts", NEW a, ~AlertFiltersActive(view)
        PROVE  FilteredAlerts(view, {a}) # {}
    BY <2>2 DEF AlertFiltersActive, FilteredAlerts
  <2> QED BY <2>1, <2>2 DEF HiddenRowsHaveClear
<1> QED BY <1>0, <1>2, <1>3, <1>4, TypeIsShellType DEF FrameFitsPage

(* Through every navigation, reload, crash and change of session the       *)
(* mounted page, its view, the sidebar and the theme fit the address       *)
(* (client/src/App.tsx, DashboardLayout.tsx, sidebar.tsx).                 *)
THEOREM ShellInvariant == ShellSpec => []FrameInv
<1>1. ShellInit => FrameInv
  BY FrameInit
<1>2. FrameInv /\ [ShellNext]_shellVars => FrameInv'
  BY FrameStep
<1> QED BY <1>1, <1>2, PTL DEF ShellSpec

(* Around a page of the layout there is always the dark class; without a   *)
(* session it shows previews, and those in a development build alone; the  *)
(* sidebar marks the one item that leads to the section shown; and rows    *)
(* that filters hide can be brought back with the Clear button.            *)
THEOREM FrameAlwaysFits == ShellSpec => []FrameFitsPage
<1>1. FrameInv => FrameFitsPage
  BY FrameFits
<1> QED BY <1>1, ShellInvariant, PTL

(* In development a link or an item of the sidebar keeps the preview       *)
(* source it was followed in and leads to a page of the layout, to a host  *)
(* that exists; and no navigation leaves the mobile sheet open above the   *)
(* new page.                                                               *)
THEOREM MovesAlwaysLeadThere == ShellSpec => MovesLeadThere
<1> DEFINE Kept == dev /\ path.page \in LayoutPage /\ (FollowLink \/ FollowItem)
                     => /\ path'.preview = path.preview
                        /\ path'.page \in LayoutPage
                        /\ path'.page = "host" => path'.host \in Host
           Uncovered == mounted' # mounted => ~sidebar'.sheet
<1>1. FrameInv /\ [ShellNext]_shellVars => [Kept]_shellVars
  <2> SUFFICES ASSUME FrameInv, dev, path.page \in LayoutPage
               PROVE  FollowLink \/ FollowItem
                        => /\ path'.preview = path.preview
                           /\ path'.page \in LayoutPage
                           /\ path'.page = "host" => path'.host \in Host
    OBVIOUS
  <2>1. ASSUME FollowLink
        PROVE  /\ path'.preview = path.preview /\ path'.page \in LayoutPage
               /\ path'.page = "host" => path'.host \in Host
    BY <2>1, LinksLeadToPages DEF FollowLink, Navigate
  <2>2. ASSUME FollowItem
        PROVE  /\ path'.preview = path.preview /\ path'.page \in LayoutPage \ {"host"}
    <3>1. path.preview \in BOOLEAN /\ dev \in BOOLEAN
      BY AddressFacts DEF FrameInv, FrameType
    <3>2. PICK item \in navigation : path' = TargetPath(item)
      BY <2>2 DEF FollowItem, Navigate
    <3> QED BY <3>1, <3>2, ItemsLeadToPages DEF Preview
  <2> QED BY <2>1, <2>2
<1>2. FrameInv /\ [ShellNext]_shellVars => [Uncovered]_shellVars
  BY FrameStep
<1>3. ShellSpec => [][Kept]_shellVars
  BY <1>1, ShellInvariant, PTL DEF ShellSpec
<1>4. ShellSpec => [][Uncovered]_shellVars
  BY <1>2, ShellInvariant, PTL DEF ShellSpec
<1> QED BY <1>3, <1>4 DEF MovesLeadThere, LinksKeepSource, SheetLeavesNewPage
==============================================================================
