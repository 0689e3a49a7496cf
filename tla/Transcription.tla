--------------------------- MODULE Transcription ---------------------------
(***************************************************************************)
(* Speech recognition: jobs send their audio to the own worker, which      *)
(* takes one at a time (asr/client.py, services/kaggle_asr/main.py), or to *)
(* a hosted recogniser, whose usage is recorded (asr/whisper.py).  With    *)
(* ModelCalls these are the calls of providers.                            *)
(***************************************************************************)
EXTENDS ModelCalls, FiniteSets

CONSTANTS AsrJobs,      \* jobs that want a transcript
          MaxAsrTries   \* bound: calls to the recogniser per job

ASSUME AsrAssumption == "" \notin AsrJobs /\ MaxAsrTries \in Nat

VARIABLES
    provider,  \* "none" until chosen, "worker" or "whisper"
    asr,       \* per job: [at, tries]
    gpu,       \* the worker's lock: the job in it, "" if none, and whether its client waits
    usage,     \* per job: usage records of the hosted recogniser
    atFault    \* history: jobs whose own audio was at fault

asrVars == <<provider, asr, gpu, usage, atFault>>

FreeGpu == [job |-> "", awaited |-> FALSE]

AsrTypeOK ==
    /\ provider \in {"none", "worker", "whisper"}
    /\ \A j \in AsrJobs : /\ asr[j].at \in {"idle", "waiting", "deferred", "failed", "done"}
                          /\ asr[j].tries \in 0..MaxAsrTries
    /\ gpu.job \in AsrJobs \cup {""} /\ (gpu.job = "" => ~ gpu.awaited)

AsrInit ==
    /\ provider = "none"
    /\ asr = [j \in AsrJobs |-> [at |-> "idle", tries |-> 0]]
    /\ gpu = FreeGpu
    /\ usage = [j \in AsrJobs |-> 0]
    /\ atFault = {}

\* build_asr_client
ChooseProvider(p) ==
    /\ provider = "none" /\ provider' = p
    /\ UNCHANGED <<asr, gpu, usage, atFault>>

\* The statuses for which ASRClientError is retryable.
RetryableStatus(s) == s \in {408, 409, 425, 429} \/ s >= 500

\* What becomes of a job on a status; the processor defers it or fails it for good.
Concluded(status) ==
    CASE status = 200 -> "done"
      [] status # 200 /\ RetryableStatus(status) -> "deferred"
      [] OTHER -> "failed"

CanSend(j) == asr[j].at \in {"idle", "deferred"} /\ asr[j].tries < MaxAsrTries

\* A request reaches the worker.  It refuses a file of an unknown kind (415), then any other job
\* while one is in the lock (429); between the look at the lock and its acquisition nothing else
\* runs.
SendToWorker(j, badKind) ==
    /\ provider = "worker" /\ CanSend(j)
    /\ LET status == CASE badKind -> 415
                       [] ~ badKind /\ gpu.job # "" -> 429
                       [] OTHER -> 0
       IN  /\ asr' = [asr EXCEPT ![j] = [at |-> IF status = 0 THEN "waiting" ELSE Concluded(status),
                                         tries |-> asr[j].tries + 1]]
           /\ gpu' = IF status = 0 THEN [job |-> j, awaited |-> TRUE] ELSE gpu
           /\ atFault' = IF badKind THEN atFault \cup {j} ELSE atFault
    /\ UNCHANGED <<provider, usage>>

\* The worker answers: 413 and 400 for the audio, 422 for a recording without speech or one
\* that is too long, 200 with a transcript.  The answer to a client that is gone is lost.
WorkerAnswers(status) ==
    /\ gpu.job # ""
    /\ asr' = IF gpu.awaited THEN [asr EXCEPT ![gpu.job].at = Concluded(status)] ELSE asr
    /\ atFault' = IF status = 200 THEN atFault ELSE atFault \cup {gpu.job}
    /\ gpu' = FreeGpu
    /\ UNCHANGED <<provider, usage>>

\* The client gives up first (timeout_seconds), or loses the tunnel; the worker goes on.
ClientGivesUp ==
    /\ gpu.awaited
    /\ asr' = [asr EXCEPT ![gpu.job].at = "deferred"]
    /\ gpu' = [gpu EXCEPT !.awaited = FALSE]
    /\ UNCHANGED <<provider, usage, atFault>>

\* The worker restarts, and its client loses the connection.
WorkerRestarts ==
    /\ gpu.job # ""
    /\ asr' = IF gpu.awaited THEN [asr EXCEPT ![gpu.job].at = "deferred"] ELSE asr
    /\ gpu' = FreeGpu
    /\ UNCHANGED <<provider, usage, atFault>>

\* on_usage is called for everything but a body without a usable transcript (_envelope raises
\* before the success is reported).
WhisperUsage(outcome) == outcome # "no_text"

\* WhisperASRClient.transcribe: no answer, an error, a body that is no JSON, a body without
\* text, or a transcript.
SendToWhisper(j, outcome) ==
    /\ provider = "whisper" /\ CanSend(j)
    /\ asr' = [asr EXCEPT ![j] = [at |-> CASE outcome = "transcript" -> "done"
                                           [] outcome = "unreachable" -> "deferred"
                                           [] outcome = "http_429" -> Concluded(429)
                                           [] outcome = "http_503" -> Concluded(503)
                                           [] outcome = "http_401" -> Concluded(401)
                                           [] OTHER -> "failed",
                                  tries |-> asr[j].tries + 1]]
    /\ usage' = IF WhisperUsage(outcome) THEN [usage EXCEPT ![j] = @ + 1] ELSE usage
    /\ atFault' = IF outcome \in {"http_401", "not_json", "no_text"} THEN atFault \cup {j} ELSE atFault
    /\ UNCHANGED <<provider, gpu>>

AsrNext ==
    \/ \E p \in {"worker", "whisper"} : ChooseProvider(p)
    \/ \E j \in AsrJobs :
          \/ \E bad \in BOOLEAN : SendToWorker(j, bad)
          \/ \E o \in {"unreachable", "http_429", "http_503", "http_401", "not_json", "no_text",
                       "transcript"} : SendToWhisper(j, o)
    \/ \E s \in {200, 400, 413, 422} : WorkerAnswers(s)
    \/ ClientGivesUp \/ WorkerRestarts

-----------------------------------------------------------------------------
(* Properties.                                                             *)

\* A job fails for good only on an answer that is final for it: not because the worker is still
\* busy with a request its client gave up on, not for a timeout, a lost connection or a restart
\* (RemoteASRClient.transcribe, WhisperASRClient.transcribe).
OnlyFinalAnswersAreFatal == \A j \in AsrJobs : asr[j].at = "failed" => j \in atFault

\* Every call to the hosted recogniser that a job was deferred for, and every one that gave a
\* transcript, is in the usage ledger; only a final call may be missing.
WhisperUsageKept ==
    provider = "whisper" =>
       \A j \in AsrJobs : usage[j] = asr[j].tries \/ (asr[j].at = "failed" /\ usage[j] = asr[j].tries - 1)

\* A call of a recogniser: a job fails for good only on an answer that no later call would
\* change, and every answered request of the hosted one is recorded (transcribe).
AsrInv == AsrTypeOK /\ OnlyFinalAnswersAreFatal /\ WhisperUsageKept

\* Calls of providers, of the language model and of the recognisers: what was asked of them is
\* accounted for, and an attempt is given up only when nothing else would help (request_json,
\* transcribe, classify_failure).
ProvidersInv == ModelInv /\ AsrInv

=============================================================================
