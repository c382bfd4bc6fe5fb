---------------------------- MODULE VodGeneration ----------------------------
(***************************************************************************)
(* The MP4 files that POST /recordings/playback generates on demand: the   *)
(* sessions that wait for one, the FFmpeg that each of them runs in the    *)
(* background, the disk cache they share, and the shutdown of the API.     *)
(* Source: apps/api/src/routes/recordings.ts                               *)
(*                                                                         *)
(* One recording, asked for with the same options by several users: other  *)
(* recordings have another job key and other files.  A step is a callback  *)
(* of Node with the promise continuations it settles, or a step of FFmpeg. *)
(*                                                                         *)
(* Data abstracted: how far FFmpeg has come is whether it opened its file, *)
(* moves, or hangs, near the end or not; the codec and the options are the *)
(* choice of a first attempt that copies or transcodes.  A session may end *)
(* at any time, by DELETE or when it expires: a repeated POST, which only  *)
(* postpones that, changes nothing here.  The endpoints that report the    *)
(* status or send the file read what is modelled.                          *)
(***************************************************************************)
EXTENDS Naturals

CONSTANTS
    User,
    MaxSessions   \* bound: playback sessions created

ASSUME BoundsAssumption == MaxSessions \in Nat

VARIABLES
    cached,    \* RECORDINGS_CACHE_DIR is set
    session,   \* recordingSessions: status by session, errors by their code
    owner,     \* session -> userId
    job,       \* recordingJobKeys of the recording, 0 without an entry
    run,       \* session -> how far its runVodBackground is
    ffmpeg,    \* session -> the process of that run
    file,      \* path -> what it holds: 0 is in the cache, s is temporary
    down       \* the API has shut down

vars == <<cached, session, owner, job, run, ffmpeg, file, down>>

Session == 1..MaxSessions
Path(s) == IF cached THEN 0 ELSE s

(* known: it is session.vodProcess; linked: it writes to the file at its   *)
(* path, which nobody has unlinked; near: the recording was almost over    *)
(* when it hung.  SIGINT is sent for nearCompleteFinalize only.            *)
Process == [state : {"none", "spawned", "writing", "moving", "hung"}, known : BOOLEAN,
            linked : BOOLEAN, near : BOOLEAN, signal : {"none", "int", "term"}]
NoProcess == [state |-> "none", known |-> FALSE, linked |-> FALSE, near |-> FALSE, signal |-> "none"]

(* tiny: 512 bytes at most; broken: two processes wrote it at once.        *)
Content == {"none", "tiny", "part", "whole", "broken"}

(* A run that is under way has a session that waits for it, or that is     *)
(* gone, and the job's session was created for a run of its own.           *)
TypeOK ==
    /\ cached \in BOOLEAN /\ down \in BOOLEAN
    /\ session \in [Session -> {"none", "starting", "ready", "stalled", "failed", "gone"}]
    /\ owner \in [Session -> User]
    /\ job \in 0..MaxSessions
    /\ run \in [Session -> {"none", "probing", "copying", "transcoding", "fallback", "over"}]
    /\ ffmpeg \in [Session -> Process]
    /\ file \in [0..MaxSessions -> Content]
    /\ \A s \in Session :
         /\ session[s] \in {"starting", "gone"} \/ run[s] \in {"none", "over"}
         /\ session[s] = "starting" => run[s] \notin {"none", "over"}
         /\ ffmpeg[s].linked => ffmpeg[s].state # "none"
    /\ job # 0 => run[job] # "none"

Init ==
    /\ cached \in BOOLEAN /\ down = FALSE
    /\ session = [s \in Session |-> "none"] /\ owner \in [Session -> User]
    /\ job = 0 /\ run = [s \in Session |-> "none"]
    /\ ffmpeg = [s \in Session |-> NoProcess]
    /\ file = [p \in 0..MaxSessions |-> "none"]

Live(s) == ffmpeg[s].state # "none"
Exists(s) == session[s] \notin {"none", "gone"}
Writers(p) == {s \in Session : Path(s) = p /\ ffmpeg[s].linked}

(***************************************************************************)
(* The requests.                                                           *)
(***************************************************************************)

(* The next session to be created.                                         *)
Unused(s) == session[s] = "none" /\ \A t \in 1..(s - 1) : session[t] # "none"

(* Any file of more than 512 bytes in the cache is a hit: a session that   *)
(* is ready at once, without a job key.                                    *)
Hit == cached /\ file[0] \in {"part", "whole", "broken"}

PostHit(s) ==
    /\ ~down /\ Unused(s) /\ Hit
    /\ session' = [session EXCEPT ![s] = "ready"]
    /\ UNCHANGED <<cached, owner, job, run, ffmpeg, file, down>>

(* A user gets back the job's session if it is their own and not in error. *)
Reusable(u) == job # 0 /\ session[job] \in {"starting", "ready"} /\ owner[job] = u

PostNew(s) ==
    /\ ~down /\ Unused(s) /\ ~Hit /\ ~Reusable(owner[s])
    /\ session' = [session EXCEPT ![s] = "starting"]
    /\ run' = [run EXCEPT ![s] = "probing"]
    /\ job' = s
    /\ UNCHANGED <<cached, owner, ffmpeg, file, down>>

Terminated(p) == IF p.known THEN [p EXCEPT !.signal = "term"] ELSE p

(* DELETE, or the sweep of expired sessions.  Only a session that became   *)
(* ready knows its file.                                                   *)
End(s) ==
    /\ ~down /\ Exists(s)
    /\ session' = [session EXCEPT ![s] = "gone"]
    /\ job' = IF run[s] = "none" THEN job ELSE 0
    /\ ffmpeg' = [ffmpeg EXCEPT ![s] = Terminated(@)]
    /\ file' = IF session[s] = "ready" /\ ~cached THEN [file EXCEPT ![s] = "none"] ELSE file
    /\ UNCHANGED <<cached, owner, run, down>>

(* The hook onClose; after it the runs of this process are no more.        *)
Shutdown ==
    /\ ~down /\ down' = TRUE
    /\ session' = [s \in Session |-> IF Exists(s) THEN "gone" ELSE session[s]]
    /\ ffmpeg' = [s \in Session |-> IF Exists(s) THEN Terminated(ffmpeg[s]) ELSE ffmpeg[s]]
    /\ UNCHANGED <<cached, owner, job, run, file>>

(* runCacheCleanup: files written to lately are the last it would take.    *)
Evict ==
    /\ ~down /\ cached /\ file[0] # "none" /\ Writers(0) = {}
    /\ file' = [file EXCEPT ![0] = "none"]
    /\ UNCHANGED <<cached, session, owner, job, run, ffmpeg, down>>

(***************************************************************************)
(* FFmpeg.                                                                 *)
(***************************************************************************)

Spawned(s) == [NoProcess EXCEPT !.state = "spawned", !.known = Exists(s)]

(* -y truncates what another process may still be writing.                 *)
Open(s) ==
    /\ ffmpeg[s].state = "spawned"
    /\ ffmpeg' = [ffmpeg EXCEPT ![s].state = "writing", ![s].linked = TRUE]
    /\ file' = [file EXCEPT ![Path(s)] = IF Writers(Path(s)) = {} THEN "tiny" ELSE "broken"]
    /\ UNCHANGED <<cached, session, owner, job, run, down>>

(* The first progress line with frames: the handler of stderr starts the   *)
(* timer that looks for a stall.                                           *)
Progress(s) ==
    /\ ffmpeg[s].state = "writing"
    /\ ffmpeg' = [ffmpeg EXCEPT ![s].state = "moving"]
    /\ file' = IF ffmpeg[s].linked /\ file[Path(s)] = "tiny" THEN [file EXCEPT ![Path(s)] = "part"] ELSE file
    /\ UNCHANGED <<cached, session, owner, job, run, down>>

(* The NVR stops delivering for longer than the timer allows.              *)
Hang(s) ==
    /\ ffmpeg[s].state = "moving"
    /\ \E near \in BOOLEAN :
         ffmpeg' = [ffmpeg EXCEPT ![s].state = "hung", ![s].near = near]
    /\ UNCHANGED <<cached, session, owner, job, run, file, down>>

(* Slip: the timer of the first attempt is not started again.              *)
SlipStallTimer(s) == session[s] = "starting" /\ ffmpeg[s].state = "hung" /\ run[s] # "fallback"

(* The timer lives on while the session waits.                             *)
StallTimer(s) == session[s] = "starting" /\ ffmpeg[s].state = "hung"

(* Slip: every stall is taken for the end of the recording.                *)
SlipStallCheck(s) ==
    /\ ~down /\ StallTimer(s) /\ ffmpeg[s].signal = "none"
    /\ ffmpeg' = [ffmpeg EXCEPT ![s].signal = "int"]
    /\ UNCHANGED <<cached, session, owner, job, run, file, down>>

(* Slip: after the kill nobody calls finish.                               *)
SlipStallUnfinished(s) ==
    /\ ~down /\ StallTimer(s) /\ ffmpeg[s].signal = "none"
    /\ ffmpeg' = [ffmpeg EXCEPT ![s].signal = IF ffmpeg[s].near THEN "int" ELSE "term"]
    /\ session' = [session EXCEPT ![s] = IF ffmpeg[s].near THEN @ ELSE "stalled"]
    /\ UNCHANGED <<cached, owner, job, run, file, down>>

StallCheck(s) ==
    /\ ~down /\ StallTimer(s) /\ ffmpeg[s].signal = "none"
    /\ IF ffmpeg[s].near
       THEN /\ ffmpeg' = [ffmpeg EXCEPT ![s].signal = "int"]
            /\ UNCHANGED <<session, run>>
       ELSE /\ ffmpeg' = [ffmpeg EXCEPT ![s].signal = "term", ![s].known = FALSE]
            /\ session' = [session EXCEPT ![s] = "stalled"]
            /\ run' = [run EXCEPT ![s] = "over"]
    /\ UNCHANGED <<cached, owner, job, file, down>>

(***************************************************************************)
(* runVodBackground.                                                       *)
(***************************************************************************)

(* Nobody looks whether the session is still there.                        *)
Probed(s) ==
    /\ ~down /\ run[s] = "probing"
    /\ \E attempt \in {"copying", "transcoding"} : run' = [run EXCEPT ![s] = attempt]
    /\ ffmpeg' = [ffmpeg EXCEPT ![s] = Spawned(s)]
    /\ UNCHANGED <<cached, session, owner, job, file, down>>

Ended(s, status) ==
    /\ session' = [session EXCEPT ![s] = status]
    /\ run' = [run EXCEPT ![s] = "over"]
    /\ ffmpeg' = [ffmpeg EXCEPT ![s] = NoProcess]

(* An FFmpeg that succeeded left `content` at its path.  Only the first    *)
(* attempt looks at the size, and only a copy is followed by another one.  *)
Succeeded(s, content) ==
    LET usable == content \in {"part", "whole", "broken"} \cup (IF run[s] = "fallback" THEN {"tiny"} ELSE {})
    IN  \/ /\ usable \/ run[s] # "copying"
           /\ Ended(s, IF usable THEN "ready" ELSE "failed")
           /\ file' = [file EXCEPT ![Path(s)] = content]
        \/ /\ ~usable /\ run[s] = "copying"
           /\ run' = [run EXCEPT ![s] = "fallback"]
           /\ ffmpeg' = [t \in Session |->
                IF t = s THEN Spawned(s)
                ELSE IF Path(t) = Path(s) THEN [ffmpeg[t] EXCEPT !.linked = FALSE] ELSE ffmpeg[t]]
           /\ file' = [file EXCEPT ![Path(s)] = "none"]
           /\ UNCHANGED session

(* 'exit', with code 0 or not; one that was signalled has another code.    *)
(* The runs that were told of a stall, or whose session is gone, are over: *)
(* the file stays where it is.                                             *)
Exit(s) ==
    LET p == ffmpeg[s]
        written == IF p.linked /\ file[Path(s)] = "part" THEN "whole" ELSE file[Path(s)]
        cancelled == down \/ ~Exists(s) \/ run[s] = "over"
    IN  /\ Live(s)
        /\ \E ok \in BOOLEAN :
             /\ ok => p.state \in {"writing", "moving"} /\ p.signal = "none"
             /\ LET content == IF ok \/ (p.near /\ p.signal = "int") THEN written ELSE file[Path(s)]
                IN  \/ /\ cancelled /\ Ended(s, session[s])
                       /\ file' = [file EXCEPT ![Path(s)] = content]
                    \/ /\ ~cancelled /\ (ok \/ p.signal = "int") /\ Succeeded(s, content)
                    \/ /\ ~cancelled /\ ~ok /\ p.signal # "int" /\ Ended(s, "failed")
                       /\ UNCHANGED file
        /\ UNCHANGED <<cached, owner, job, down>>

(* 'error' comes instead of 'exit': a failure also for a session that is   *)
(* gone, whose file is then unlinked.                                      *)
SpawnFails(s) ==
    /\ ~down /\ ffmpeg[s].state = "spawned"
    /\ IF Exists(s)
       THEN Ended(s, "failed") /\ UNCHANGED file
       ELSE /\ file' = [file EXCEPT ![Path(s)] = "none"]
            /\ ffmpeg' = [t \in Session |->
                 IF t = s THEN NoProcess
                 ELSE IF Path(t) = Path(s) THEN [ffmpeg[t] EXCEPT !.linked = FALSE] ELSE ffmpeg[t]]
            /\ run' = [run EXCEPT ![s] = "over"]
            /\ UNCHANGED session
    /\ UNCHANGED <<cached, owner, job, down>>

----------------------------------------------------------------------------

FFmpegStep(s) == Open(s) \/ Progress(s) \/ Hang(s) \/ Exit(s)

Next ==
    \/ Shutdown \/ Evict
    \/ \E s \in Session :
         \/ PostHit(s) \/ PostNew(s) \/ End(s) \/ Probed(s) \/ StallCheck(s) \/ SpawnFails(s)
         \/ FFmpegStep(s)

(* What goes on by itself.  The probe has a timeout of its own, and so has *)
(* every read of FFmpeg before the first frames; then it ends or hangs.    *)
(* The timer is a setInterval, and a process that is signalled exits.      *)
Owed(s) ==
    \/ Probed(s) \/ StallCheck(s)
    \/ FFmpegStep(s) /\ (ffmpeg[s].state # "hung" \/ ffmpeg[s].signal # "none")

Fairness == \A s \in Session : WF_vars(Owed(s))

Spec == Init /\ [][Next]_vars

FairSpec == Spec /\ Fairness

----------------------------------------------------------------------------
(* Properties                                                              *)

(* A file that no other session ever generated is not cut short when it is *)
(* offered as ready, whatever stalls, second attempts and endings it had:  *)
(* without the cache that is every file.                                   *)
OwnFileIsNotCutShort ==
    \A s \in Session :
        /\ session[s] = "ready" /\ run[s] # "none"
        /\ cached => \A t \in Session \ {s} : run[t] = "none"
        => file[Path(s)] \in {"none", "tiny", "whole"}

(* A session does not wait for ever, also when its users keep it alive by  *)
(* asking again: a stream that stops is noticed in every attempt.  Of the  *)
(* sessions there are, in the end none is left waiting.                    *)
GenerationSettles == []<>(\A s \in Session : session[s] # "starting")

(* "terminar TODOS los FFmpeg de preview y VOD ... para no dejar hijos     *)
(* huerfanos" (recordings.ts:1362-1364).  The code breaks it: a session    *)
(* that ends during the probe leaves an FFmpeg that no session knows.      *)
ShutdownLeavesNoFFmpeg ==
    down => \A s \in Session : Live(s) => ffmpeg[s].signal # "none"

=============================================================================
