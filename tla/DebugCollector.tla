---------------------------- MODULE DebugCollector ----------------------------
(***************************************************************************)
(* How a development page's console output, requests and interface events  *)
(* reach the log files: the collector in the page                          *)
(* (client/public/__manus__/debug-collector.js) and the Vite plugin that   *)
(* writes what it reports (vite.config.ts).                                *)
(*                                                                         *)
(* An entry is the number of its recording; what it says is left out.      *)
(* Console and network entries have a buffer and a file each that are      *)
(* treated alike; here they share the stream "trace".  Sizes are kept only *)
(* so far as the trimming of the files needs them: an entry is small, or   *)
(* huge, which is more than a trimmed file may hold.                       *)
(***************************************************************************)
EXTENDS Naturals, Sequences, SequencesExt, FiniteSetsExt

CONSTANTS
    BufferSize,     \* CONFIG.bufferSize, the same for every stream here
    LogLimit,       \* MAX_LOG_SIZE_BYTES, in small entries
    TrimTarget,     \* TRIM_TARGET_BYTES, in small entries
    MaxPosts,       \* bound: reports under way at once
    Huge,           \* the recordings that are huge
    MaxEntries,     \* bound: recordings
    MaxSends        \* bound: how often an XMLHttpRequest object is sent

ASSUME CollectorAssumption ==
    /\ BufferSize \in Nat \ {0} /\ MaxPosts \in Nat /\ MaxEntries \in Nat /\ MaxSends \in Nat
    /\ TrimTarget \in Nat \ {0} /\ LogLimit \in Nat /\ LogLimit >= TrimTarget

Streams == {"trace", "ui"}
Order   == <<"trace", "ui">>    \* in which the plugin writes
Entries == 1..MaxEntries
Nothing == [s \in Streams |-> <<>>]

VARIABLES
    page,       \* the page is open, or was left
    store,      \* the buffers
    made,       \* entries recorded so far
    posts,      \* reports under way
    up,         \* the server is reachable
    log,        \* the files
    newest,     \* history: the entry written last to each file
    entered,    \* history: what each stream was given
    lost,       \* history: what each stream gave up, as the collector may
    doubted,    \* history: entries of a report written but not confirmed
    overlapped  \* history: a report was sent before an earlier one had ended

browser == <<page, store, posts>>
files   == <<log, newest>>
past    == <<entered, lost, doubted, overlapped>>
vars    == <<browser, made, up, files, past>>

Posts  == 1..MaxPosts
NoPost == [at |-> "none", batch |-> Nothing]

TypeOK ==
    /\ page \in {"open", "left"}
    /\ store \in [Streams -> SeqOf(Entries, BufferSize)]
    /\ made \in 0..MaxEntries
    /\ \A p \in Posts : /\ posts[p].at \in {"none", "sent", "written"}
                        /\ \A s \in Streams : Len(posts[p].batch[s]) <= BufferSize
    /\ up \in BOOLEAN
    /\ newest \in [Streams -> 0..made]
    /\ entered \in [Streams -> SUBSET (1..made)] /\ lost \in [Streams -> SUBSET (1..made)]
    /\ doubted \subseteq 1..made
    /\ overlapped \in BOOLEAN

Init ==
    /\ page = "open"
    /\ store = Nothing
    /\ made = 0
    /\ posts = [p \in Posts |-> NoPost]
    /\ up \in BOOLEAN
    /\ log = Nothing
    /\ newest = [s \in Streams |-> 0]
    /\ entered = [s \in Streams |-> {}] /\ lost = entered
    /\ doubted = {} /\ overlapped = FALSE

Held(batches) == UNION {Range(batches[s]) : s \in Streams}

(* Of what a stream was to hold, that which it does not hold is lost.      *)
GivesUp(wanted, kept) ==
    lost' = [s \in Streams |-> lost[s] \cup (Range(wanted[s]) \ Range(kept[s]))]
-----------------------------------------------------------------------------
pruneBuffer(buffer) == SubSeq(buffer, Max({1, Len(buffer) - BufferSize + 1}), Len(buffer))

(* n entries are pushed to each stream of streams and the buffers pruned.  *)
Record(streams, n) ==
    LET grown == [s \in Streams |-> IF s \in streams
                                    THEN store[s] \o [i \in 1..n |-> made + i] ELSE store[s]]
    IN  /\ page = "open" /\ made + n <= MaxEntries
        /\ made' = made + n
        /\ store' = [s \in Streams |-> pruneBuffer(grown[s])]
        /\ GivesUp(grown, store')
        /\ entered' = [s \in Streams |-> IF s \in streams
                                          THEN entered[s] \cup (made + 1)..made' ELSE entered[s]]
        /\ UNCHANGED <<page, posts, up, files, doubted, overlapped>>

(* console.log and its siblings.                                           *)
ConsoleCalled == Record({"trace"}, 1)

(* An uncaught error or an unhandled rejection.                            *)
ErrorRaised == Record(Streams, 1)

(* A click, change, focus, key, submission, scroll or navigation that the  *)
(* listeners do not ignore; or a fetch whose status is an error while its  *)
(* body is still being read.                                               *)
logUiEvent == Record({"ui"}, 1)

(* A fetch of the page's own is recorded once it failed, or when its body  *)
(* was read or is not going to be: alone, or with an event beside it.      *)
FetchRecorded == \E streams \in {{"trace"}, Streams} : Record(streams, 1)

(* load or error of an XMLHttpRequest.  Each send of the object has added  *)
(* listeners, and each of them records the answer; abort and timeout have  *)
(* none.                                                                   *)
XhrRecorded ==
    \E streams \in {{"trace"}, Streams}, sends \in 1..MaxSends : Record(streams, sends)
-----------------------------------------------------------------------------
\* mutant: the buffers are not emptied when they are sent
reportLogsCopied(p) ==
    /\ page = "open" /\ posts[p].at = "none"
    /\ \A q \in 1..(p - 1) : posts[q].at # "none"
    /\ store # Nothing
    /\ posts' = [posts EXCEPT ![p] = [at |-> "sent", batch |-> store]]
    /\ overlapped' = (overlapped \/ \E q \in Posts : posts[q].at # "none")
    /\ UNCHANGED <<page, store, made, up, files, entered, lost, doubted>>

\* mutant: an empty report is sent too
reportLogsAlways(p) ==
    /\ page = "open" /\ posts[p].at = "none"
    /\ \A q \in 1..(p - 1) : posts[q].at # "none"
    /\ posts' = [posts EXCEPT ![p] = [at |-> "sent", batch |-> store]]
    /\ store' = Nothing
    /\ overlapped' = (overlapped \/ \E q \in Posts : posts[q].at # "none")
    /\ UNCHANGED <<page, made, up, files, entered, lost, doubted>>

(* The interval fires, whether or not the report before has ended.         *)
reportLogs(p) ==
    /\ page = "open" /\ posts[p].at = "none"
    /\ \A q \in 1..(p - 1) : posts[q].at # "none"
    /\ store # Nothing
    /\ posts' = [posts EXCEPT ![p] = [at |-> "sent", batch |-> store]]
    /\ store' = Nothing
    /\ overlapped' = (overlapped \/ \E q \in Posts : posts[q].at # "none")
    /\ UNCHANGED <<page, made, up, files, entered, lost, doubted>>

Size(lines) ==
    Len(lines) + Cardinality({i \in DOMAIN lines : lines[i] \in Huge}) * TrimTarget

(* The longest run of newest lines that fits the target.                   *)
trimLogFile(lines) ==
    IF Size(lines) <= LogLimit
    THEN lines
    ELSE LET Newest(n) == SubSeq(lines, Len(lines) - n + 1, Len(lines))
         IN  Newest(Max({n \in 0..Len(lines) : Size(Newest(n)) <= TrimTarget}))

(* The plugin writes one stream after the other.  A write may fail: then   *)
(* the rest is not written, and the answer is 400.                         *)
handlePayload(p) ==
    \E n \in 0..Len(Order) :
        LET batch   == posts[p].batch
            written == {Order[i] : i \in 1..n}
            tried   == [s \in Streams |-> IF s \in written THEN log[s] \o batch[s] ELSE log[s]]
        IN  /\ up /\ posts[p].at = "sent"
            /\ log' = [s \in Streams |-> trimLogFile(tried[s])]
            /\ newest' = [s \in Streams |-> IF s \in written /\ batch[s] # <<>>
                                            THEN Last(batch[s]) ELSE newest[s]]
            /\ posts' = [posts EXCEPT ![p].at = "written"]
            /\ GivesUp([s \in Streams |-> log[s] \o batch[s]], log')
            /\ UNCHANGED <<page, store, made, up, entered, doubted, overlapped>>

(* Any answer, 400 as well, settles the report.                            *)
AnswerArrives(p) ==
    /\ up /\ posts[p].at = "written"
    /\ posts' = [posts EXCEPT ![p] = NoPost]
    /\ UNCHANGED <<page, store, made, up, files, past>>

\* mutant: the batches are put back behind the entries that came since
PutBackBehind(batch) == [s \in Streams |-> store[s] \o batch[s]]

PutBack(batch) == [s \in Streams |-> batch[s] \o store[s]]

(* The promise is rejected: the batches go back in front.                  *)
ReportRejected(p) ==
    /\ ~up /\ page = "open" /\ posts[p].at # "none"
    /\ LET grown == PutBack(posts[p].batch)
       IN  /\ store' = [s \in Streams |-> pruneBuffer(grown[s])]
           /\ GivesUp(grown, store')
    /\ doubted' = IF posts[p].at = "written" THEN doubted \cup Held(posts[p].batch) ELSE doubted
    /\ posts' = [posts EXCEPT ![p] = NoPost]
    /\ UNCHANGED <<page, made, up, files, entered, overlapped>>

(* beforeunload sends what the buffers hold as a beacon, of type text.     *)
(* The server's JSON parser leaves its body empty, so the plugin writes    *)
(* nothing.  Reports under way are aborted, some of them already handled.  *)
BeforeUnload ==
    /\ page = "open"
    /\ page' = "left"
    /\ store' = Nothing
    /\ posts' = [p \in Posts |-> NoPost]
    /\ lost' = [s \in Streams |-> lost[s] \cup Range(store[s])
                                         \cup UNION {Range(posts[p].batch[s]) : p \in Posts}]
    /\ UNCHANGED <<made, up, files, entered, doubted, overlapped>>

ServerToggles ==
    /\ page = "open"
    /\ up' = ~up
    /\ UNCHANGED <<browser, made, files, past>>

Next ==
    \/ ConsoleCalled \/ ErrorRaised \/ logUiEvent
    \/ FetchRecorded \/ XhrRecorded
    \/ \E p \in Posts : reportLogs(p) \/ handlePayload(p) \/ AnswerArrives(p) \/ ReportRejected(p)
    \/ BeforeUnload \/ ServerToggles

Spec == Init /\ [][Next]_vars

(* setInterval fires for ever, and while the server is reachable it        *)
(* handles what was sent and its answers arrive.                           *)
Fairness ==
    /\ WF_vars(\E p \in Posts : reportLogs(p))
    /\ \A p \in Posts : WF_vars(handlePayload(p) \/ AnswerArrives(p))

FairSpec == Spec /\ Fairness
-----------------------------------------------------------------------------
Ascending(q) == \A i, j \in DOMAIN q : i < j => q[i] <= q[j]

(* What a stream was given is in its buffer, in a report under way or in   *)
(* its file, unless it was given up: pruned, trimmed, not written (400),   *)
(* or left with the page.                                                  *)
NothingVanishes ==
    \A s \in Streams :
        entered[s] \subseteq Range(store[s]) \cup Range(log[s]) \cup lost[s]
                             \cup UNION {Range(posts[p].batch[s]) : p \in Posts}

(* An entry is in a file twice only when a report was written and its      *)
(* answer did not get back, which the collector takes for a failure.       *)
WrittenOnce ==
    \A s \in Streams : \A i, j \in DOMAIN log[s] :
        (i # j /\ log[s][i] = log[s][j]) => log[s][i] \in doubted

(* Buffers and files are in the order of recording, so that pruning and    *)
(* trimming drop the oldest, as long as no two reports overlapped.         *)
InOrder ==
    ~overlapped => \A s \in Streams : Ascending(store[s]) /\ (doubted = {} => Ascending(log[s]))

(* "keeps newest entries": the entry a file got last is its last line,     *)
(* unless that entry alone is more than a trimmed file may hold.           *)
NewestIsKept ==
    \A s \in Streams :
        newest[s] # 0 => (newest[s] \in Huge \/ (log[s] # <<>> /\ Last(log[s]) = newest[s]))

(* However reports overlap, fail or lose their answers, the limits of the  *)
(* buffers hold (TypeOK), no entry vanishes unaccounted for and none is    *)
(* written twice without cause.                                            *)
EntriesAccountedFor == TypeOK /\ NothingVanishes /\ WrittenOnce

(* Pruning and trimming drop the oldest and keep the newest.               *)
OldestGoFirst == InOrder /\ NewestIsKept

(* On a page where nothing more happens the collector falls silent: its    *)
(* own reports give it nothing to report.                                  *)
QuietPageFallsSilent ==
    <>[](up /\ page = "open") => <>[](store = Nothing /\ \A p \in Posts : posts[p].at = "none")
=============================================================================
