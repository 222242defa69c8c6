----------------------------- MODULE ForgeClients -----------------------------
(***************************************************************************)
(* The console server's helpers for the Forge services: language models    *)
(* (llm.ts), images, transcription, storage and its proxy, scheduled jobs  *)
(* (heartbeat.ts), notifications, the data API and maps.                   *)
(*                                                                         *)
(* A helper is a sequence of requests.  A request is carried out upstream  *)
(* or rejected with a status, and its answer arrives or is lost, which the *)
(* helper sees as a network error; the body of an answer can still fail to *)
(* arrive, or hold nothing of use.  Only the helpers of llm.ts try again.  *)
(* Several calls run at once; their contents are left out but for the keys *)
(* of stored objects.                                                      *)
(***************************************************************************)
EXTENDS Integers, Sequences, FiniteSets, FiniteSetsExt

CONSTANTS
    Callers,        \* calls that may be under way at once
    RetryAfters,    \* what a rejection may ask for, in milliseconds (-1: nothing)
    Statuses,       \* the statuses of rejections
    MaxRetries,     \* RETRY_MAX_RETRIES
    MaxCalls        \* bound: calls begun

ASSUME ForgeAssumption ==
    /\ RetryAfters \subseteq Int /\ Statuses \subseteq 300..599
    /\ MaxRetries \in Nat /\ MaxCalls \in Nat

VARIABLES
    configured, \* which of the service's URL and key are set
    calls,      \* the calls under way
    begun,      \* calls begun so far
    objects,    \* upstream: stored objects
    returned    \* history: objects whose key was given back

forgeVars == <<configured, calls, begun, objects, returned>>
-----------------------------------------------------------------------------
(* The helpers: the requests each makes in turn, those whose body it needs *)
(* (and finds wanting in the ways named), whether what it is given may be  *)
(* refused, and the result of each failure.                                *)

(* "required" stands for the one tool there is.                            *)
normalizeToolChoice(choice, tools) ==
    IF choice = "required" THEN (IF tools = 1 THEN "explicit" ELSE "throws")
    ELSE IF choice = "name" THEN "explicit" ELSE choice

(* An explicit format comes before a schema, and each must be complete.    *)
normalizeResponseFormat(explicit, schema) ==
    IF explicit # "absent"
    THEN IF explicit = "json_schema without schema" THEN "throws" ELSE explicit
    ELSE CASE schema = "absent"     -> "absent"
           [] schema = "incomplete" -> "throws"
           [] schema = "complete"   -> "json_schema"

(* Of a tool's message any part is written out; of the others a part that  *)
(* is neither text, image nor file is refused, and a text alone is a       *)
(* string.                                                                 *)
normalizeMessage(role, parts) ==
    CASE role = "tool" -> "string"
      [] role # "tool" /\ \E i \in DOMAIN parts : parts[i] \notin {"text", "image_url", "file_url"} -> "throws"
      [] role # "tool" /\ parts = <<"text">> -> "string"
      [] OTHER -> "parts"

(* What may be given to a language model is good or not.                   *)
InvokeParams ==
    {normalizeToolChoice(choice, tools) # "throws"
     /\ normalizeResponseFormat(explicit, schema) # "throws"
     /\ normalizeMessage(role, parts) # "throws" :
        choice \in {"absent", "none", "auto", "required", "name", "explicit"}, tools \in 0..2,
        explicit \in {"absent", "text", "json_schema", "json_schema without schema"},
        schema \in {"absent", "incomplete", "complete"},
        role \in {"user", "tool"}, parts \in {<<"text">>, <<"text", "image_url">>, <<"other">>}}

invokeLLM ==
    [requests |-> <<"complete">>, reads |-> {"complete"}, given |-> InvokeParams,
     fails |-> [why |-> "throws"]]

listLLMModels ==
    [requests |-> <<"models">>, reads |-> {"models"}, given |-> {TRUE}, fails |-> [why |-> "throws"]]

(* A URL that is missing from the answer is noticed before the upload.     *)
storagePut ==
    [requests |-> <<"presign", "upload">>, reads |-> {"presign"}, given |-> {TRUE},
     fails |-> [why |-> "throws"]]

(* Here it is not: a body without a URL is given back as undefined, which  *)
(* is the success of AnswerArrives; only one that cannot be parsed fails.  *)
storageGetSignedUrl ==
    [requests |-> <<"presign">>, reads |-> {"presign"}, given |-> {TRUE}, fails |-> [why |-> "throws"]]

storageProxy ==
    [requests |-> <<"presign">>, reads |-> {"presign"}, given |-> BOOLEAN,
     fails |-> [given |-> "400", config |-> "500", why |-> "502"]]

(* The generated image is in the answer's body; then storagePut.           *)
generateImage ==
    [requests |-> <<"generate">> \o storagePut.requests, reads |-> {"generate"} \cup storagePut.reads,
     given |-> {TRUE}, fails |-> [why |-> "throws"]]

listImageModels ==
    [requests |-> <<"models">>, reads |-> {"models"}, given |-> {TRUE}, fails |-> [why |-> "throws"]]

(* Audio above 16 MB is refused once it is downloaded, a transcription     *)
(* without text when it arrives.                                           *)
transcribeAudio ==
    [requests |-> <<"download", "transcribe">>, reads |-> {"download", "transcribe"}, given |-> {TRUE},
     fails |-> [download   |-> "INVALID_FORMAT",
                transcribe |-> "TRANSCRIPTION_FAILED",
                large      |-> "FILE_TOO_LARGE",
                why        |-> "SERVICE_ERROR"]]

validateCallbackPath(path) == path = "/api/scheduled/"

JobPaths == {validateCallbackPath(path) : path \in {"/api/scheduled/", "other", ""}}

(* The path is checked when the patch has one.                             *)
PatchPaths ==
    {path # "absent" => validateCallbackPath(path) : path \in {"absent", "/api/scheduled/", "other"}}

createHeartbeatJob ==
    [requests |-> <<"create">>, reads |-> {"create"}, given |-> JobPaths, fails |-> [why |-> "throws"]]

updateHeartbeatJob ==
    [requests |-> <<"update">>, reads |-> {"update"}, given |-> PatchPaths, fails |-> [why |-> "throws"]]

deleteHeartbeatJob ==
    [requests |-> <<"delete">>, reads |-> {"delete"}, given |-> {TRUE}, fails |-> [why |-> "throws"]]

listHeartbeatJobs ==
    [requests |-> <<"list">>, reads |-> {"list"}, given |-> {TRUE}, fails |-> [why |-> "throws"]]

(* The lengths of title and content, trimmed, against their limits.        *)
validatePayload(title, content) == title \in 1..1200 /\ content \in 1..20000

Payloads ==
    {validatePayload(title, content) : title \in {0, 1, 1200, 1201}, content \in {0, 20000, 20001}}

notifyOwner ==
    [requests |-> <<"notify">>, reads |-> {}, given |-> Payloads,
     fails |-> [given |-> "throws", config |-> "throws", why |-> "false"]]

(* A body that cannot be parsed counts as an empty one.                    *)
callDataApi ==
    [requests |-> <<"api">>, reads |-> {}, given |-> {TRUE}, fails |-> [why |-> "throws"]]

makeRequest ==
    [requests |-> <<"maps">>, reads |-> {"maps"}, given |-> {TRUE}, fails |-> [why |-> "throws"]]

Helper ==
    [invokeLLM |-> invokeLLM, listLLMModels |-> listLLMModels, storagePut |-> storagePut,
     storageGetSignedUrl |-> storageGetSignedUrl, storageProxy |-> storageProxy,
     generateImage |-> generateImage, listImageModels |-> listImageModels,
     transcribeAudio |-> transcribeAudio, createHeartbeatJob |-> createHeartbeatJob,
     updateHeartbeatJob |-> updateHeartbeatJob, deleteHeartbeatJob |-> deleteHeartbeatJob,
     listHeartbeatJobs |-> listHeartbeatJobs, notifyOwner |-> notifyOwner,
     callDataApi |-> callDataApi, makeRequest |-> makeRequest]

Helpers   == DOMAIN Helper
Retrying  == {"invokeLLM", "listLLMModels"}
Storing   == {"storagePut", "generateImage"}
Heartbeat == {"createHeartbeatJob", "updateHeartbeatJob", "deleteHeartbeatJob", "listHeartbeatJobs"}
Results   == {"none", "ok"} \cup (UNION {{Helper[h].fails[why] : why \in DOMAIN Helper[h].fails} : h \in Helpers})
                \cup {"UNAUTHORIZED", "FORBIDDEN", "NOT_FOUND", "BAD_REQUEST", "CONFLICT", "TOO_MANY_REQUESTS"}

Failure(helper, why) ==
    LET fails == Helper[helper].fails IN IF why \in DOMAIN fails THEN fails[why] ELSE fails.why

(* The code of the error thrown for a status; any other is thrown as an    *)
(* internal error.                                                         *)
mapForgeError(status) ==
    CASE status = 401 -> "UNAUTHORIZED"
      [] status = 403 -> "FORBIDDEN"
      [] status = 404 -> "NOT_FOUND"
      [] status \in {400, 422} -> "BAD_REQUEST"
      [] status = 409 -> "CONFLICT"
      [] status = 429 -> "TOO_MANY_REQUESTS"
      [] OTHER -> "throws"
-----------------------------------------------------------------------------
(* A call: its helper, its number, the request it is at (its stage) with   *)
(* the attempts made, and of the stage how often it was sent and carried   *)
(* out and whether an answer got lost.                                     *)
NoCall ==
    [helper |-> "none", n |-> 0, stage |-> 0, at |-> "idle", attempt |-> 0, asked |-> -1, status |-> 0,
     delay |-> 0, sent |-> 0, done |-> 0, lost |-> FALSE, result |-> "none"]

ForgeTypeOK ==
    /\ configured \subseteq {"url", "key"}
    /\ \A c \in Callers :
           /\ calls[c].at \in {"idle", "sent", "answered", "rejected", "sleeping", "ended"}
           /\ calls[c].attempt \in 0..MaxRetries
           /\ calls[c].result \in Results
           /\ calls[c].at # "idle" => calls[c].stage \in DOMAIN Helper[calls[c].helper].requests
    /\ begun \in 0..MaxCalls

ForgeInit ==
    /\ configured \in SUBSET {"url", "key"}
    /\ calls = [c \in Callers |-> NoCall]
    /\ begun = 0
    /\ objects = {} /\ returned = {}

RequestOf(c) == Helper[calls[c].helper].requests[calls[c].stage]
Ended(call, result) ==
    [call EXCEPT !.at = "ended", !.result = result, !.attempt = 0, !.asked = -1, !.status = 0]

(* The URL has a default for language models; the others need both.        *)
Configured(helper) == "key" \in configured /\ (helper \in Retrying \/ "url" \in configured)

Begin(c) ==
    \E helper \in Helpers : \E good \in Helper[helper].given :
        LET call == [NoCall EXCEPT !.helper = helper, !.n = begun + 1, !.stage = 1] IN
        /\ calls[c].at \in {"idle", "ended"} /\ begun < MaxCalls
        /\ begun' = begun + 1
        /\ calls' = [calls EXCEPT ![c] =
                        CASE ~ good -> Ended(call, Failure(helper, "given"))
                          [] good /\ ~ Configured(helper) -> Ended(call, Failure(helper, "config"))
                          [] OTHER -> [call EXCEPT !.at = "sent", !.sent = 1]]
        /\ UNCHANGED <<configured, objects, returned>>
-----------------------------------------------------------------------------
(* Upstream.                                                               *)

(* The suffix is taken at random; that no two are alike is assumed.        *)
appendHashSuffix(name, n) == <<name, n>>

Key(c) == appendHashSuffix("name", calls[c].n)

CarriedOut(c) ==
    /\ calls[c].at = "sent"
    /\ calls' = [calls EXCEPT ![c].at = "answered", ![c].done = @ + 1]
    /\ objects' = IF RequestOf(c) # "upload" THEN objects
                  ELSE {o \in objects : o.key # Key(c)} \cup {[key |-> Key(c), n |-> calls[c].n]}
    /\ UNCHANGED <<configured, begun, returned>>

(* A status other than 2xx, with a retry-after header or without; each is  *)
(* kept where the helper looks at it.  The service is taken at its word: a *)
(* request it rejects it has not carried out, also when the status is 5xx. *)
Rejected(c) ==
    /\ calls[c].at = "sent"
    /\ \E ms \in IF calls[c].helper \in Retrying THEN RetryAfters ELSE {-1} :
       \E status \in IF calls[c].helper \in Heartbeat THEN Statuses ELSE {503} :
           calls' = [calls EXCEPT ![c].at = "rejected", ![c].asked = ms, ![c].status = status]
    /\ UNCHANGED <<configured, begun, objects, returned>>
-----------------------------------------------------------------------------
(* Back in the helper.                                                     *)

RETRY_BASE_DELAY_MS == 500
RETRY_MAX_DELAY_MS  == 30000
Cap(attempt) == Min({RETRY_BASE_DELAY_MS * 2^attempt, RETRY_MAX_DELAY_MS})

(* Half of the cap is certain, the other half random: its ends are tried.  *)
computeBackoffDelay(attempt, asked) ==
    {Min({Max({jittered, asked, 0}), RETRY_MAX_DELAY_MS}) :
        jittered \in {Cap(attempt) \div 2, Cap(attempt)}}

Sleeps(call, asked) ==
    {[call EXCEPT !.at = "sleeping", !.asked = asked, !.delay = ms] :
         ms \in computeBackoffDelay(call.attempt, asked)}

\* mutant: once less than allowed
fetchWithBackoffOnceLess(call, asked, result) ==
    IF call.helper \in Retrying /\ call.attempt + 1 < MaxRetries
    THEN Sleeps(call, asked) ELSE {Ended(call, result)}

(* What becomes of a call whose request failed.                            *)
fetchWithBackoff(call, asked, result) ==
    IF call.helper \in Retrying /\ call.attempt < MaxRetries
    THEN Sleeps(call, asked) ELSE {Ended(call, result)}

\* mutant: the status is not looked at
RejectionArrivesUnseen(c) ==
    /\ calls[c].at = "rejected"
    /\ \E next \in fetchWithBackoff(calls[c], calls[c].asked, "ok") : calls' = [calls EXCEPT ![c] = next]
    /\ UNCHANGED <<configured, begun, objects, returned>>

RejectionArrives(c) ==
    LET result == IF calls[c].helper \in Heartbeat THEN mapForgeError(calls[c].status)
                  ELSE Failure(calls[c].helper, RequestOf(c))
    IN
    /\ calls[c].at = "rejected"
    /\ \E next \in fetchWithBackoff(calls[c], calls[c].asked, result) : calls' = [calls EXCEPT ![c] = next]
    /\ UNCHANGED <<configured, begun, objects, returned>>

(* The request was lost, or its answer.                                    *)
NetworkError(c) ==
    /\ calls[c].at \in {"sent", "answered", "rejected"}
    /\ LET call == [calls[c] EXCEPT !.lost = @ \/ calls[c].at = "answered"] IN
       \E next \in fetchWithBackoff(call, -1, Failure(call.helper, "network")) : calls' = [calls EXCEPT ![c] = next]
    /\ UNCHANGED <<configured, begun, objects, returned>>

Wake(c) ==
    /\ calls[c].at = "sleeping"
    /\ calls' = [calls EXCEPT ![c].at = "sent", ![c].sent = @ + 1, ![c].attempt = @ + 1,
                              ![c].asked = -1, ![c].status = 0, ![c].delay = 0]
    /\ UNCHANGED <<configured, begun, objects, returned>>

\* mutant: a key is given back without waiting for the upload
AnswerArrivesEarly(c) ==
    LET call == calls[c]
        last == call.stage >= Len(Helper[call.helper].requests) - (IF call.helper \in Storing THEN 1 ELSE 0)
    IN
    /\ call.at = "answered"
    /\ calls' = [calls EXCEPT ![c] =
                    IF last THEN Ended(call, "ok")
                    ELSE [call EXCEPT !.stage = @ + 1, !.at = "sent", !.done = 0]]
    /\ returned' = IF last /\ call.helper \in Storing
                   THEN returned \cup {[key |-> Key(c), n |-> call.n]} ELSE returned
    /\ UNCHANGED <<configured, begun, objects>>

(* On to the next request, or the end.                                     *)
AnswerArrives(c) ==
    LET call == calls[c]
        last == call.stage = Len(Helper[call.helper].requests)
    IN
    /\ call.at = "answered"
    /\ calls' = [calls EXCEPT ![c] =
                    IF last THEN Ended(call, "ok")
                    ELSE [call EXCEPT !.stage = @ + 1, !.at = "sent", !.done = 0]]
    /\ returned' = IF last /\ call.helper \in Storing
                   THEN returned \cup {[key |-> Key(c), n |-> call.n]} ELSE returned
    /\ UNCHANGED <<configured, begun, objects>>

(* The status is 2xx, but the body does not arrive whole, cannot be parsed *)
(* or lacks what the helper checks for.  This comes after fetchWithBackoff:*)
(* it is not tried again.                                                  *)
BodyFails(c) ==
    /\ calls[c].at = "answered" /\ RequestOf(c) \in Helper[calls[c].helper].reads
    /\ \E why \in {"body"} \cup (IF RequestOf(c) = "download" THEN {"large"} ELSE {}) :
        calls' = [calls EXCEPT ![c] = Ended([@ EXCEPT !.lost = TRUE], Failure(@.helper, why))]
    /\ UNCHANGED <<configured, begun, objects, returned>>
-----------------------------------------------------------------------------
Settles(c) ==
    CarriedOut(c) \/ Rejected(c) \/ RejectionArrives(c) \/ NetworkError(c)
    \/ AnswerArrives(c) \/ BodyFails(c) \/ Wake(c)

ForgeNext == \E c \in Callers : Begin(c) \/ Settles(c)

ForgeSpec == ForgeInit /\ [][ForgeNext]_forgeVars
-----------------------------------------------------------------------------
Failed(call) == call.result \notin {"none", "ok"}

(* A call of a language model that failed has used up its attempts, unless *)
(* nothing was sent or a body was lost (that, fetchWithBackoff does not    *)
(* see); no helper but those sends a request twice.                        *)
AllAttemptsUsed ==
    \A c \in Callers :
        LET call == calls[c] IN
        IF call.helper \in Retrying
        THEN /\ call.sent <= MaxRetries + 1
             /\ (Failed(call) /\ call.sent > 0 /\ ~ call.lost) => call.sent = MaxRetries + 1
        ELSE call.sent <= 1

(* Success means that the last request was carried out; failure that it    *)
(* was not, unless its answer was lost or of no use; and it is carried out *)
(* twice in one call (a completion paid for twice) only after a lost answer.*)
OutcomeIsHonest ==
    \A c \in Callers :
        LET call == calls[c] IN
        /\ call.result = "ok" => call.done >= 1
        /\ (Failed(call) /\ call.done >= 1) => call.lost
        /\ call.done > 1 => call.lost

(* Without the service's URL and key nothing is sent by any helper but     *)
(* those of language models, which have a URL of their own.                *)
NothingSentUnconfigured ==
    \A c \in Callers :
        (calls[c].sent > 0 /\ configured # {"url", "key"})
            => (configured = {"key"} /\ calls[c].helper \in Retrying)

(* What a helper stored stays under the key it gave back, whatever other   *)
(* calls store under the same name at the same time.                       *)
StoredStays == returned \subseteq objects

(* A failure of the service reaches the callers of notifyOwner, of         *)
(* transcribeAudio and of the storage proxy as a value, never as an error  *)
(* thrown: nothing catches one above the proxy's handler.                  *)
FailuresAreValues ==
    \A c \in Callers :
        (calls[c].helper \in {"notifyOwner", "transcribeAudio", "storageProxy"} /\ calls[c].sent > 0)
            => calls[c].result # "throws"

(* The wait before another attempt has a floor that doubles as long as it  *)
(* may, honours the service's wish and never exceeds half a minute.        *)
DelayInRange ==
    \A c \in Callers :
        calls[c].at = "sleeping" =>
            /\ calls[c].delay >= Min({RETRY_BASE_DELAY_MS * 2^(calls[c].attempt), RETRY_MAX_DELAY_MS}) \div 2
            /\ calls[c].delay >= Min({calls[c].asked, RETRY_MAX_DELAY_MS})
            /\ calls[c].delay <= RETRY_MAX_DELAY_MS

(* A caller can rely on what it is told: outcome, stored object and kind   *)
(* of failure are what happened upstream, as far as answers arrived.       *)
CallersAreToldTheTruth ==
    /\ ForgeTypeOK
    /\ OutcomeIsHonest /\ FailuresAreValues
    /\ NothingSentUnconfigured /\ StoredStays

(* fetchWithBackoff makes all of its attempts and no more, and waits       *)
(* neither too briefly nor too long before each.                           *)
RetriesInBounds == AllAttemptsUsed /\ DelayInRange
=============================================================================
