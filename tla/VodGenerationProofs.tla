------------------------- MODULE VodGenerationProofs -------------------------
(***************************************************************************)
(* The MP4 files generated on demand, for any number of sessions: the      *)
(* state stays well typed, and a file that one session generated by itself *)
(* is not cut short when it is offered as ready.                           *)
(*                                                                         *)
(* The invariant follows the file of a session that nobody else writes to. *)
(* It holds nothing before the first FFmpeg opens it; while a generation   *)
(* runs it is part of the recording only under an FFmpeg that still writes *)
(* to it; so what a generation that succeeds leaves is whole, or tiny.     *)
(***************************************************************************)
EXTENDS VodGeneration, TLAPS

Status == {"none", "starting", "ready", "stalled", "failed", "gone"}
RunPhase == {"none", "probing", "copying", "transcoding", "fallback", "over"}
Generating == {"copying", "transcoding", "fallback"}

Typed ==
    /\ cached \in BOOLEAN /\ down \in BOOLEAN
    /\ session \in [Session -> Status]
    /\ owner \in [Session -> User]
    /\ job \in 0..MaxSessions
    /\ run \in [Session -> RunPhase]
    /\ ffmpeg \in [Session -> Process]
    /\ file \in [0..MaxSessions -> Content]
    /\ job # 0 => run[job] # "none"

(* How the status of a session, its run and its FFmpeg go together.        *)
RunOK(status, phase, p) ==
    /\ status \in {"starting", "gone"} \/ phase \in {"none", "over"}
    /\ status = "starting" => phase \notin {"none", "over"}
    /\ status = "none" => phase = "none"
    /\ p.linked => p.state \notin {"none", "spawned"}
    /\ phase \in {"none", "probing"} \/ status = "ready" => p.state = "none"
    /\ p.signal = "int" => p.near /\ p.state = "hung"

(* What is at the path of a session to which no other one wrote.           *)
OwnFile(status, phase, p, content) ==
    /\ content # "broken"
    /\ phase \in {"none", "probing"} => content = "none"
    /\ content = "part" /\ phase \in Generating => p.linked
    /\ status = "ready" /\ phase # "none" => content \in {"none", "tiny", "whole"}

Alone(s) == cached => \A t \in Session \ {s} : run[t] = "none"

SessionOK(s) ==
    /\ RunOK(session[s], run[s], ffmpeg[s])
    /\ down => ~Exists(s)
    /\ Alone(s) => OwnFile(session[s], run[s], ffmpeg[s], file[Path(s)])

IInv == Typed /\ \A s \in Session : SessionOK(s)

(***************************************************************************)
(* Steps of one session.                                                   *)
(***************************************************************************)

LEMMA Paths ==
    ASSUME NEW s \in Session
    PROVE  /\ Path(s) \in 0..MaxSessions /\ s \in 0..MaxSessions /\ s # 0
           /\ 0 \in 0..MaxSessions
BY BoundsAssumption DEF Path, Session

LEMMA NoProcessTyped ==
    ASSUME NEW s \in Session
    PROVE  /\ NoProcess \in Process /\ NoProcess.state = "none" /\ NoProcess.linked = FALSE
           /\ Spawned(s) \in Process /\ Spawned(s).state = "spawned" /\ Spawned(s).linked = FALSE
BY DEF NoProcess, Process, Spawned, Exists

(* The step is one of s: of the others it changes at most whether their    *)
(* FFmpeg still writes to a file of their own, and at the path of s only.  *)
StepOf(s) ==
    /\ cached' = cached
    /\ \A t \in Session \ {s} :
         /\ session'[t] = session[t] /\ run'[t] = run[t]
         /\ \/ ffmpeg'[t] = ffmpeg[t]
            \/ /\ run'[s] # "none" /\ Path(t) = Path(s)
               /\ ffmpeg'[t] = [ffmpeg[t] EXCEPT !.linked = FALSE]
    /\ \A p \in 0..MaxSessions : p # Path(s) => file'[p] = file[p]
    /\ run[s] # "none" => run'[s] # "none"
    /\ run'[s] = "none" => file'[Path(s)] = file[Path(s)] \/ file'[Path(s)] = "none"

(* Such a step keeps the invariant if it keeps it for s.                   *)
LEMMA OneSession ==
    ASSUME IInv, NEW s \in Session, StepOf(s), Typed',
           RunOK(session'[s], run'[s], ffmpeg'[s]),
           Alone(s)' => OwnFile(session'[s], run'[s], ffmpeg'[s], file'[Path(s)]),
           down' => down /\ session' = session
    PROVE  IInv'
<1>1. Typed /\ cached' = cached
  BY DEF IInv, StepOf
<1>2. ASSUME NEW t \in Session PROVE (down => ~Exists(t))'
  BY DEF IInv, SessionOK, Exists
<1>3. SessionOK(s)'
  BY <1>1, <1>2 DEF SessionOK, Path
<1>4. ASSUME NEW t \in Session \ {s} PROVE SessionOK(t)'
  <2>1. /\ session'[t] = session[t] /\ run'[t] = run[t]
        /\ \/ ffmpeg'[t] = ffmpeg[t]
           \/ /\ run'[s] # "none" /\ Path(t) = Path(s)
              /\ ffmpeg'[t] = [ffmpeg[t] EXCEPT !.linked = FALSE]
    BY DEF StepOf
  <2>2. ffmpeg[t] \in Process /\ RunOK(session[t], run[t], ffmpeg[t])
    BY <1>1 DEF IInv, Typed, SessionOK
  <2>3. RunOK(session'[t], run'[t], ffmpeg'[t])
    <3>1. CASE ffmpeg'[t] = ffmpeg[t]
      BY <2>1, <2>2, <3>1
    <3>2. CASE ffmpeg'[t] = [ffmpeg[t] EXCEPT !.linked = FALSE]
      <4>1. /\ ffmpeg'[t].linked = FALSE /\ ffmpeg'[t].state = ffmpeg[t].state
            /\ ffmpeg'[t].signal = ffmpeg[t].signal /\ ffmpeg'[t].near = ffmpeg[t].near
        BY <2>2, <3>2 DEF Process
      <4> QED
        BY <2>1, <2>2, <4>1 DEF RunOK
    <3> QED
      BY <2>1, <3>1, <3>2
  <2>4. ASSUME Alone(t)' PROVE OwnFile(session'[t], run'[t], ffmpeg'[t], file'[Path(t)])
    <3>1. Alone(t)
      <4>1. SUFFICES ASSUME cached, NEW u \in Session \ {t} PROVE run[u] = "none"
        BY DEF Alone
      <4>2. run'[u] = "none"
        BY <1>1, <2>4, <4>1 DEF Alone, Session
      <4> QED
        BY <4>1, <4>2 DEF StepOf
    <3>2. OwnFile(session[t], run[t], ffmpeg[t], file[Path(t)])
      BY <3>1 DEF IInv, SessionOK
    <3>3. CASE cached
      <4>1. run'[s] = "none" /\ run[s] = "none"
        BY <1>1, <2>4, <3>3 DEF Alone, StepOf
      <4>2. file'[Path(t)] = file[Path(t)] \/ file'[Path(t)] = "none"
        BY <3>3, <4>1 DEF StepOf, Path
      <4>3. ffmpeg'[t] = ffmpeg[t]
        BY <2>1, <4>1
      <4> QED
        BY <2>1, <3>2, <4>2, <4>3 DEF OwnFile
    <3>4. CASE ~cached
      <4>1. Path(t) = t /\ Path(s) = s /\ Path(t) # Path(s)
        BY <3>4 DEF Path
      <4>2. ffmpeg'[t] = ffmpeg[t] /\ file'[Path(t)] = file[Path(t)]
        BY <2>1, <4>1, Paths DEF StepOf
      <4> QED
        BY <2>1, <3>2, <4>2
    <3> QED
      BY <3>3, <3>4
  <2> QED
    BY <1>1, <1>2, <2>3, <2>4 DEF SessionOK, Path
<1> QED
  BY <1>3, <1>4 DEF IInv, Session

(***************************************************************************)
(* One lemma for each action.                                              *)
(***************************************************************************)

(* What the invariant says of s before the step.                           *)
LEMMA Before ==
    ASSUME IInv, NEW s \in Session
    PROVE  /\ session[s] \in Status /\ run[s] \in RunPhase /\ ffmpeg[s] \in Process
           /\ RunOK(session[s], run[s], ffmpeg[s])
           /\ Alone(s) => OwnFile(session[s], run[s], ffmpeg[s], file[Path(s)])
           /\ file[Path(s)] \in Content /\ down => ~Exists(s)
BY Paths DEF IInv, Typed, SessionOK

LEMMA PostHitOK ==
    ASSUME IInv, NEW s \in Session, PostHit(s)
    PROVE  IInv'
<1>1. /\ session' = [session EXCEPT ![s] = "ready"] /\ ~down /\ session[s] = "none"
      /\ UNCHANGED <<cached, owner, job, run, ffmpeg, file, down>>
  BY DEF PostHit, Unused
<1>2. Typed /\ Typed' /\ session'[s] = "ready"
  BY <1>1 DEF IInv, Typed, Status
<1>3. run[s] = "none"
  BY <1>1, Before DEF RunOK
<1>4. StepOf(s)
  BY <1>1, <1>2, <1>3 DEF StepOf, Typed
<1>5. RunOK(session'[s], run'[s], ffmpeg'[s])
  BY <1>1, <1>2, <1>3, Before DEF RunOK
<1>6. ASSUME Alone(s)' PROVE OwnFile(session'[s], run'[s], ffmpeg'[s], file'[Path(s)])
  BY <1>1, <1>3, <1>6, Before DEF OwnFile, Alone, Generating
<1> QED
  BY <1>1, <1>2, <1>4, <1>5, <1>6, OneSession

LEMMA PostNewOK ==
    ASSUME IInv, NEW s \in Session, PostNew(s)
    PROVE  IInv'
<1>1. /\ session' = [session EXCEPT ![s] = "starting"] /\ ~down /\ session[s] = "none"
      /\ run' = [run EXCEPT ![s] = "probing"] /\ job' = s
      /\ UNCHANGED <<cached, owner, ffmpeg, file, down>>
  BY DEF PostNew, Unused
<1>2. Typed /\ Typed' /\ session'[s] = "starting" /\ run'[s] = "probing"
  BY <1>1, Paths DEF IInv, Typed, Status, RunPhase, Session
<1>3. run[s] = "none"
  BY <1>1, Before DEF RunOK
<1>4. StepOf(s)
  BY <1>1, <1>2, <1>3 DEF StepOf, Typed
<1>5. RunOK(session'[s], run'[s], ffmpeg'[s])
  BY <1>1, <1>2, <1>3, Before DEF RunOK
<1>6. ASSUME Alone(s)' PROVE OwnFile(session'[s], run'[s], ffmpeg'[s], file'[Path(s)])
  <2>1. Alone(s)
    BY <1>1, <1>2, <1>6 DEF Alone, Typed
  <2> QED
    BY <1>1, <1>2, <1>3, <2>1, Before DEF OwnFile, Generating
<1> QED
  BY <1>1, <1>2, <1>4, <1>5, <1>6, OneSession

LEMMA TerminatedTyped ==
    ASSUME NEW p \in Process
    PROVE  /\ Terminated(p) \in Process /\ Terminated(p).state = p.state
           /\ Terminated(p).linked = p.linked /\ Terminated(p).near = p.near
           /\ Terminated(p).signal \in {p.signal, "term"}
BY DEF Terminated, Process

LEMMA EndOK ==
    ASSUME IInv, NEW s \in Session, End(s)
    PROVE  IInv'
<1>1. /\ session' = [session EXCEPT ![s] = "gone"] /\ ~down /\ session[s] \notin {"none", "gone"}
      /\ job' = IF run[s] = "none" THEN job ELSE 0
      /\ ffmpeg' = [ffmpeg EXCEPT ![s] = Terminated(ffmpeg[s])]
      /\ file' = IF session[s] = "ready" /\ ~cached THEN [file EXCEPT ![s] = "none"] ELSE file
      /\ UNCHANGED <<cached, owner, run, down>>
  BY DEF End, Exists
<1>2. /\ Typed /\ session'[s] = "gone" /\ ffmpeg'[s] = Terminated(ffmpeg[s])
      /\ ffmpeg[s] \in Process /\ Terminated(ffmpeg[s]) \in Process
  BY <1>1, TerminatedTyped DEF IInv, Typed
<1>3. Typed'
  <2>1. file' \in [0..MaxSessions -> Content] /\ ffmpeg' \in [Session -> Process]
    BY <1>1, <1>2 DEF Typed, Content
  <2>2. session' \in [Session -> Status] /\ job' \in 0..MaxSessions
    BY <1>1, <1>2, Paths DEF Typed, Status
  <2> QED
    BY <1>1, <1>2, <2>1, <2>2 DEF Typed
<1>4. file'[Path(s)] \in {file[Path(s)], "none"} /\ \A p \in 0..MaxSessions : p # Path(s) => file'[p] = file[p]
  BY <1>1, <1>2, Paths DEF Path, Typed
<1>5. StepOf(s)
  BY <1>1, <1>2, <1>4 DEF StepOf, Typed
<1>6. RunOK(session'[s], run'[s], ffmpeg'[s])
  BY <1>1, <1>2, Before, TerminatedTyped DEF RunOK
<1>7. ASSUME Alone(s)' PROVE OwnFile(session'[s], run'[s], ffmpeg'[s], file'[Path(s)])
  <2>1. Alone(s)
    BY <1>1, <1>7 DEF Alone
  <2> QED
    BY <1>1, <1>2, <1>4, <2>1, Before, TerminatedTyped DEF OwnFile
<1> QED
  BY <1>1, <1>3, <1>5, <1>6, <1>7, OneSession

LEMMA ProbedOK ==
    ASSUME IInv, NEW s \in Session, Probed(s)
    PROVE  IInv'
<1>1. PICK attempt \in {"copying", "transcoding"} : run' = [run EXCEPT ![s] = attempt]
  BY DEF Probed
<1>2. /\ ffmpeg' = [ffmpeg EXCEPT ![s] = Spawned(s)] /\ ~down /\ run[s] = "probing"
      /\ UNCHANGED <<cached, session, owner, job, file, down>>
  BY DEF Probed
<1>3. Typed /\ Typed' /\ run'[s] = attempt /\ ffmpeg'[s] = Spawned(s)
  <2>1. run' \in [Session -> RunPhase] /\ ffmpeg' \in [Session -> Process]
    BY <1>1, <1>2, NoProcessTyped DEF IInv, Typed, RunPhase
  <2>2. job # 0 => run'[job] # "none"
    BY <1>1 DEF IInv, Typed
  <2> QED
    BY <1>1, <1>2, <2>1, <2>2 DEF IInv, Typed
<1>4. StepOf(s)
  BY <1>1, <1>2, <1>3 DEF StepOf, Typed
<1>5. RunOK(session'[s], run'[s], ffmpeg'[s])
  <2>1. Spawned(s).signal = "none"
    BY DEF Spawned, NoProcess
  <2> QED
    BY <1>1, <1>2, <1>3, <2>1, Before, NoProcessTyped DEF RunOK
<1>6. ASSUME Alone(s)' PROVE OwnFile(session'[s], run'[s], ffmpeg'[s], file'[Path(s)])
  <2>1. Alone(s)
    BY <1>1, <1>2, <1>3, <1>6 DEF Alone, Typed
  <2> QED
    BY <1>1, <1>2, <1>3, <2>1, Before DEF OwnFile, RunOK
<1> QED
  BY <1>2, <1>3, <1>4, <1>5, <1>6, OneSession

LEMMA BeforeTyped ==
    ASSUME IInv, NEW s \in Session
    PROVE  /\ session[s] \in Status /\ run[s] \in RunPhase /\ file[Path(s)] \in Content
           /\ down \in BOOLEAN /\ cached \in BOOLEAN
BY Paths DEF IInv, Typed

LEMMA BeforeStatus ==
    ASSUME IInv, NEW s \in Session
    PROVE  RunOK(session[s], run[s], ffmpeg[s])
BY Before

LEMMA BeforeDown ==
    ASSUME IInv, NEW s \in Session, down
    PROVE  session[s] \in {"none", "gone"}
<1>1. SessionOK(s)
  BY DEF IInv
<1>2. down => ~Exists(s)
  BY <1>1 DEF SessionOK
<1> QED
  BY <1>2 DEF Exists

(* A step that changes the FFmpeg of s and nothing else.                   *)
LEMMA FFmpegOnly ==
    ASSUME IInv, NEW s \in Session, NEW p \in Process,
           ffmpeg' = [ffmpeg EXCEPT ![s] = p],
           UNCHANGED <<cached, session, owner, job, run, file, down>>,
           RunOK(session[s], run[s], p), p.linked = ffmpeg[s].linked
    PROVE  IInv'
<1>1. Typed /\ Typed' /\ ffmpeg'[s] = p
  BY DEF IInv, Typed
<1>2. StepOf(s)
  BY <1>1 DEF StepOf, Typed
<1>3. ASSUME Alone(s)' PROVE OwnFile(session'[s], run'[s], ffmpeg'[s], file'[Path(s)])
  <2>1. Alone(s)
    BY <1>3 DEF Alone
  <2> QED
    BY <1>1, <2>1, Before DEF OwnFile
<1> QED
  BY <1>1, <1>2, <1>3, OneSession

LEMMA HangOK ==
    ASSUME IInv, NEW s \in Session, Hang(s)
    PROVE  IInv'
<1>1. PICK near \in BOOLEAN : ffmpeg' = [ffmpeg EXCEPT ![s].state = "hung", ![s].near = near]
  BY DEF Hang
<1> DEFINE p == [ffmpeg[s] EXCEPT !.state = "hung", !.near = near]
<1>2. /\ ffmpeg[s] \in Process /\ ffmpeg[s].state = "moving" /\ ffmpeg \in [Session -> Process]
      /\ UNCHANGED <<cached, session, owner, job, run, file, down>>
  BY Before DEF Hang, IInv, Typed
<1>3. /\ p \in Process /\ p.state = "hung" /\ p.linked = ffmpeg[s].linked
      /\ p.signal = ffmpeg[s].signal
  BY <1>2 DEF Process
<1>4. ffmpeg' = [ffmpeg EXCEPT ![s] = p]
  BY <1>1, <1>2
<1>5. RunOK(session[s], run[s], p)
  BY <1>2, <1>3, Before DEF RunOK
<1> HIDE DEF p
<1> QED
  BY <1>2, <1>3, <1>4, <1>5, FFmpegOnly

LEMMA StallCheckOK ==
    ASSUME IInv, NEW s \in Session, StallCheck(s)
    PROVE  IInv'
<1>1. /\ ~down /\ session[s] = "starting" /\ ffmpeg[s].state = "hung"
      /\ ffmpeg[s] \in Process /\ ffmpeg \in [Session -> Process]
      /\ UNCHANGED <<cached, owner, job, file, down>>
  BY Before DEF StallCheck, StallTimer, IInv, Typed
<1>2. CASE ffmpeg[s].near
  <2> DEFINE p == [ffmpeg[s] EXCEPT !.signal = "int"]
  <2>1. /\ p \in Process /\ p.state = "hung" /\ p.near /\ p.linked = ffmpeg[s].linked
    BY <1>1, <1>2 DEF Process
  <2>2. ffmpeg' = [ffmpeg EXCEPT ![s] = p] /\ UNCHANGED <<session, run>>
    BY <1>1, <1>2 DEF StallCheck
  <2>3. RunOK(session[s], run[s], p)
    BY <1>1, <2>1, Before DEF RunOK
  <2> HIDE DEF p
  <2> QED
    BY <1>1, <2>1, <2>2, <2>3, FFmpegOnly
<1>3. CASE ~ffmpeg[s].near
  <2> DEFINE p == [ffmpeg[s] EXCEPT !.signal = "term", !.known = FALSE]
  <2>1. /\ p \in Process /\ p.state = "hung" /\ p.linked = ffmpeg[s].linked
        /\ p.signal = "term"
    BY <1>1 DEF Process
  <2>2. /\ ffmpeg' = [ffmpeg EXCEPT ![s] = p]
        /\ session' = [session EXCEPT ![s] = "stalled"] /\ run' = [run EXCEPT ![s] = "over"]
    BY <1>1, <1>3 DEF StallCheck
  <2> HIDE DEF p
  <2>3. /\ Typed /\ Typed' /\ session'[s] = "stalled" /\ run'[s] = "over" /\ ffmpeg'[s] = p
    <3>1. Typed
      BY DEF IInv
    <3>2. /\ session' \in [Session -> Status] /\ run' \in [Session -> RunPhase]
          /\ ffmpeg' \in [Session -> Process]
      BY <2>1, <2>2, <3>1 DEF Typed, Status, RunPhase
    <3>3. job # 0 => run'[job] # "none"
      BY <2>2, <3>1 DEF Typed
    <3> QED
      BY <1>1, <2>2, <3>1, <3>2, <3>3 DEF Typed
  <2>4. StepOf(s)
    BY <1>1, <2>2, <2>3 DEF StepOf, Typed
  <2>5. RunOK(session'[s], run'[s], ffmpeg'[s])
    BY <2>1, <2>3, Before DEF RunOK
  <2>6. ASSUME Alone(s)' PROVE OwnFile(session'[s], run'[s], ffmpeg'[s], file'[Path(s)])
    <3>1. Alone(s)
      BY <1>1, <2>2, <2>3, <2>6 DEF Alone, Typed
    <3> QED
      BY <1>1, <2>1, <2>3, <3>1, Before DEF OwnFile, Generating, Path
  <2> QED
    BY <1>1, <2>3, <2>4, <2>5, <2>6, OneSession
<1> QED
  BY <1>2, <1>3

(* Nobody else writes to the file that s opens by itself.                  *)
LEMMA OpensAlone ==
    ASSUME IInv, NEW s \in Session, ffmpeg[s].state = "spawned", Alone(s)
    PROVE  Writers(Path(s)) = {}
<1>1. SUFFICES ASSUME NEW t \in Session, Path(t) = Path(s), ffmpeg[t].linked PROVE FALSE
  BY DEF Writers
<1>2. t # s
  BY <1>1, Before DEF RunOK
<1>3. run[t] = "none"
  BY <1>1, <1>2 DEF Alone, Path
<1> QED
  BY <1>1, <1>3, Before DEF RunOK

LEMMA OpenOK ==
    ASSUME IInv, NEW s \in Session, Open(s)
    PROVE  IInv'
<1> DEFINE p == [ffmpeg[s] EXCEPT !.state = "writing", !.linked = TRUE]
           c == IF Writers(Path(s)) = {} THEN "tiny" ELSE "broken"
<1>1. /\ ffmpeg[s].state = "spawned" /\ ffmpeg[s] \in Process /\ ffmpeg \in [Session -> Process]
      /\ file' = [file EXCEPT ![Path(s)] = c]
      /\ UNCHANGED <<cached, session, owner, job, run, down>>
  BY Before DEF Open, IInv, Typed
<1>2. /\ p \in Process /\ p.state = "writing" /\ p.linked /\ p.signal = ffmpeg[s].signal
  BY <1>1 DEF Process
<1>3. ffmpeg' = [ffmpeg EXCEPT ![s] = p]
  BY <1>1 DEF Open
<1>4. c \in Content /\ Typed
  BY DEF Content, IInv
<1>5. Alone(s) => c = "tiny"
  BY <1>1, OpensAlone
<1> HIDE DEF p, c
<1>6. Typed' /\ ffmpeg'[s] = p /\ file'[Path(s)] = c
  BY <1>1, <1>2, <1>3, <1>4, Paths DEF Typed
<1>7. session[s] # "ready" /\ run[s] \notin {"none", "probing"}
  BY <1>1, Before DEF RunOK
<1>8. StepOf(s)
  BY <1>1, <1>3, <1>4, <1>7, Paths DEF StepOf, Typed
<1>9. RunOK(session'[s], run'[s], ffmpeg'[s])
  BY <1>1, <1>2, <1>6, <1>7, Before DEF RunOK
<1>10. ASSUME Alone(s)' PROVE OwnFile(session'[s], run'[s], ffmpeg'[s], file'[Path(s)])
  <2>1. Alone(s)
    BY <1>1, <1>10 DEF Alone
  <2> QED
    BY <1>1, <1>2, <1>5, <1>6, <1>7, <2>1 DEF OwnFile
<1> QED
  BY <1>1, <1>6, <1>8, <1>9, <1>10, OneSession

LEMMA ProgressOK ==
    ASSUME IInv, NEW s \in Session, Progress(s)
    PROVE  IInv'
<1> DEFINE p == [ffmpeg[s] EXCEPT !.state = "moving"]
           c == IF ffmpeg[s].linked /\ file[Path(s)] = "tiny" THEN "part" ELSE file[Path(s)]
<1>1. /\ ffmpeg[s].state = "writing" /\ ffmpeg[s] \in Process /\ ffmpeg \in [Session -> Process]
      /\ UNCHANGED <<cached, session, owner, job, run, down>>
  BY Before DEF Progress, IInv, Typed
<1>2. /\ p \in Process /\ p.state = "moving" /\ p.linked = ffmpeg[s].linked
      /\ p.signal = ffmpeg[s].signal
  BY <1>1 DEF Process
<1>3. ffmpeg' = [ffmpeg EXCEPT ![s] = p]
  BY <1>1 DEF Progress
<1>4. Typed /\ c \in Content /\ file \in [0..MaxSessions -> Content]
  <2>1. c \in Content
    BY BeforeTyped DEF Content
  <2> QED
    BY <2>1 DEF IInv, Typed
<1>5. file' = [file EXCEPT ![Path(s)] = c]
  BY <1>4, Paths DEF Progress
<1>6. /\ c = "part" => ffmpeg[s].linked \/ file[Path(s)] = "part"
      /\ c = "broken" => file[Path(s)] = "broken"
  OBVIOUS
<1> HIDE DEF p, c
<1>7. Typed' /\ ffmpeg'[s] = p /\ file'[Path(s)] = c
  BY <1>1, <1>2, <1>3, <1>4, <1>5, Paths DEF Typed
<1>8. session[s] # "ready" /\ run[s] \notin {"none", "probing"}
  BY <1>1, Before DEF RunOK
<1>9. StepOf(s)
  BY <1>1, <1>3, <1>4, <1>5, <1>8, Paths DEF StepOf, Typed
<1>10. RunOK(session'[s], run'[s], ffmpeg'[s])
  BY <1>1, <1>2, <1>7, <1>8, Before DEF RunOK
<1>11. ASSUME Alone(s)' PROVE OwnFile(session'[s], run'[s], ffmpeg'[s], file'[Path(s)])
  <2>1. Alone(s)
    BY <1>1, <1>11 DEF Alone
  <2> QED
    BY <1>1, <1>2, <1>6, <1>7, <1>8, <2>1, Before DEF OwnFile
<1> QED
  BY <1>1, <1>7, <1>9, <1>10, <1>11, OneSession

(* The run of s ends, with a status for its session and a file.            *)
LEMMA EndedOK ==
    ASSUME IInv, NEW s \in Session, NEW status \in Status, NEW c \in Content,
           Ended(s, status), file' = [file EXCEPT ![Path(s)] = c],
           UNCHANGED <<cached, owner, job, down>>,
           run[s] # "none", status \notin {"none", "starting"}, down => status = session[s],
           Alone(s) => c # "broken" /\ (status = "ready" => c \in {"none", "tiny", "whole"})
    PROVE  IInv'
<1>1. /\ session' = [session EXCEPT ![s] = status] /\ run' = [run EXCEPT ![s] = "over"]
      /\ ffmpeg' = [ffmpeg EXCEPT ![s] = NoProcess] /\ Typed
  BY DEF Ended, IInv
<1>2. Typed'
  <2>1. run' \in [Session -> RunPhase] /\ session' \in [Session -> Status]
    BY <1>1 DEF Typed, RunPhase
  <2>2. ffmpeg' \in [Session -> Process] /\ file' \in [0..MaxSessions -> Content]
    BY <1>1, NoProcessTyped, Paths DEF Typed
  <2>3. job # 0 => run'[job] # "none"
    BY <1>1 DEF Typed
  <2> QED
    BY <1>1, <2>1, <2>2, <2>3 DEF Typed
<1>3. /\ session'[s] = status /\ run'[s] = "over" /\ ffmpeg'[s] = NoProcess /\ file'[Path(s)] = c
  BY <1>1, Paths DEF Typed
<1>4. StepOf(s)
  BY <1>1, <1>3, Paths DEF StepOf, Typed
<1>5. RunOK(session'[s], run'[s], ffmpeg'[s])
  BY <1>3 DEF RunOK, NoProcess
<1>6. ASSUME Alone(s)' PROVE OwnFile(session'[s], run'[s], ffmpeg'[s], file'[Path(s)])
  <2>1. Alone(s)
    BY <1>1, <1>6 DEF Alone, Typed
  <2> QED
    BY <1>3, <2>1 DEF OwnFile, Generating
<1>7. down' => down /\ session' = session
  BY <1>1 DEF Typed
<1> QED
  BY <1>2, <1>4, <1>5, <1>6, <1>7, OneSession

(* The file of s is unlinked, and s runs another FFmpeg q or none.         *)
LEMMA UnlinkOK ==
    ASSUME IInv, NEW s \in Session, NEW q \in Process, NEW phase \in {"fallback", "over"},
           run' = [run EXCEPT ![s] = phase], file' = [file EXCEPT ![Path(s)] = "none"],
           ffmpeg' = [t \in Session |->
               IF t = s THEN q
               ELSE IF Path(t) = Path(s) THEN [ffmpeg[t] EXCEPT !.linked = FALSE] ELSE ffmpeg[t]],
           UNCHANGED <<cached, session, owner, job, down>>,
           run[s] # "none", RunOK(session[s], phase, q)
    PROVE  IInv'
<1>1. Typed
  BY DEF IInv
<1>2. /\ run'[s] = phase /\ ffmpeg'[s] = q /\ file'[Path(s)] = "none"
  BY <1>1, Paths DEF Typed
<1>3. Typed'
  <2>1. run' \in [Session -> RunPhase] /\ file' \in [0..MaxSessions -> Content]
    BY <1>1, Paths DEF Typed, RunPhase, Content
  <2>2. ASSUME NEW t \in Session PROVE ffmpeg'[t] \in Process
    BY Before DEF Process
  <2>3. ffmpeg' \in [Session -> Process]
    BY <2>2
  <2>4. job # 0 => run'[job] # "none"
    BY <1>1 DEF Typed
  <2> QED
    BY <1>1, <2>1, <2>3, <2>4 DEF Typed
<1>4. StepOf(s)
  BY <1>1, <1>2, Paths DEF StepOf, Typed
<1>5. RunOK(session'[s], run'[s], ffmpeg'[s])
  BY <1>2
<1>6. OwnFile(session'[s], run'[s], ffmpeg'[s], file'[Path(s)])
  BY <1>2 DEF OwnFile
<1> QED
  BY <1>3, <1>4, <1>5, <1>6, OneSession

(* What FFmpeg leaves when it succeeds.                                    *)
LEMMA SucceededOK ==
    ASSUME IInv, NEW s \in Session, NEW c \in Content, Succeeded(s, c),
           UNCHANGED <<cached, owner, job, down>>, ~down,
           session[s] = "starting", run[s] \in Generating,
           Alone(s) => c \in {"none", "tiny", "whole"}
    PROVE  IInv'
<1> DEFINE usable == c \in {"part", "whole", "broken"} \cup (IF run[s] = "fallback" THEN {"tiny"} ELSE {})
<1>1. CASE /\ Ended(s, IF usable THEN "ready" ELSE "failed")
           /\ file' = [file EXCEPT ![Path(s)] = c]
  <2> DEFINE status == IF usable THEN "ready" ELSE "failed"
  <2>1. status \in Status /\ status \notin {"none", "starting"} /\ Ended(s, status)
    BY <1>1 DEF Status
  <2> HIDE DEF status
  <2> QED
    BY <1>1, <2>1, EndedOK DEF Generating
<1>2. CASE /\ run' = [run EXCEPT ![s] = "fallback"]
           /\ ffmpeg' = [t \in Session |->
                IF t = s THEN Spawned(s)
                ELSE IF Path(t) = Path(s) THEN [ffmpeg[t] EXCEPT !.linked = FALSE] ELSE ffmpeg[t]]
           /\ file' = [file EXCEPT ![Path(s)] = "none"]
           /\ UNCHANGED session
  <2>1. RunOK(session[s], "fallback", Spawned(s))
    BY NoProcessTyped DEF RunOK, Spawned, NoProcess
  <2> QED
    BY <1>2, <2>1, UnlinkOK, NoProcessTyped DEF Generating
<1> QED
  BY <1>1, <1>2 DEF Succeeded

LEMMA SpawnFailsOK ==
    ASSUME IInv, NEW s \in Session, SpawnFails(s)
    PROVE  IInv'
<1>1. /\ ~down /\ ffmpeg[s].state = "spawned" /\ UNCHANGED <<cached, owner, job, down>>
  BY DEF SpawnFails
<1>2. run[s] \in Generating \cup {"over"}
  BY <1>1, Before DEF RunOK, RunPhase, Generating
<1>3. CASE Exists(s)
  <2>1. Ended(s, "failed") /\ UNCHANGED file
    BY <1>3 DEF SpawnFails
  <2>2. file' = [file EXCEPT ![Path(s)] = file[Path(s)]]
    BY <2>1 DEF IInv, Typed
  <2>3. file[Path(s)] \in Content /\ "failed" \in Status
    BY BeforeTyped DEF Status
  <2>4. Alone(s) => file[Path(s)] # "broken"
    BY Before DEF OwnFile
  <2> QED
    BY <1>1, <1>2, <2>1, <2>2, <2>3, <2>4, EndedOK DEF Generating
<1>4. CASE ~Exists(s)
  <2>1. /\ file' = [file EXCEPT ![Path(s)] = "none"]
        /\ ffmpeg' = [t \in Session |->
             IF t = s THEN NoProcess
             ELSE IF Path(t) = Path(s) THEN [ffmpeg[t] EXCEPT !.linked = FALSE] ELSE ffmpeg[t]]
        /\ run' = [run EXCEPT ![s] = "over"]
        /\ UNCHANGED session
    BY <1>4 DEF SpawnFails
  <2>2. session[s] = "gone"
    BY <1>2, <1>4, Before DEF Exists, RunOK, Generating
  <2>3. RunOK(session[s], "over", NoProcess)
    BY <2>2 DEF RunOK, NoProcess
  <2> QED
    BY <1>1, <1>2, <2>1, <2>3, UnlinkOK, NoProcessTyped DEF Generating
<1> QED
  BY <1>3, <1>4

LEMMA ExitOK ==
    ASSUME IInv, NEW s \in Session, Exit(s)
    PROVE  IInv'
<1> DEFINE p == ffmpeg[s]
           written == IF p.linked /\ file[Path(s)] = "part" THEN "whole" ELSE file[Path(s)]
           cancelled == down \/ ~Exists(s) \/ run[s] = "over"
           content(ok) == IF ok \/ (p.near /\ p.signal = "int") THEN written ELSE file[Path(s)]
<1>1. PICK ok \in BOOLEAN :
        /\ ok => p.state \in {"writing", "moving"} /\ p.signal = "none"
        /\ \/ /\ cancelled /\ Ended(s, session[s])
              /\ file' = [file EXCEPT ![Path(s)] = content(ok)]
           \/ /\ ~cancelled /\ (ok \/ p.signal = "int") /\ Succeeded(s, content(ok))
           \/ /\ ~cancelled /\ ~ok /\ p.signal # "int" /\ Ended(s, "failed")
              /\ UNCHANGED file
  BY DEF Exit
<1>2. p.state # "none" /\ UNCHANGED <<cached, owner, job, down>>
  BY DEF Exit, Live
<1>3. /\ run[s] \in Generating \cup {"over"} /\ session[s] \notin {"none", "ready"}
      /\ session[s] \in Status /\ file[Path(s)] \in Content
  <2>1. run[s] \in RunPhase /\ session[s] \in Status /\ file[Path(s)] \in Content
    BY BeforeTyped
  <2> QED
    BY <1>2, <2>1, BeforeStatus DEF RunOK, RunPhase, Generating
<1>4. content(ok) \in Content /\ (content(ok) = "broken" => file[Path(s)] = "broken")
  BY <1>3 DEF Content
<1>5. Alone(s) => file[Path(s)] # "broken"
  BY Before DEF OwnFile
<1>6. CASE /\ cancelled /\ Ended(s, session[s])
           /\ file' = [file EXCEPT ![Path(s)] = content(ok)]
  <2>1. session[s] # "starting"
    <3>1. CASE run[s] = "over"
      BY <3>1, BeforeStatus DEF RunOK
    <3>2. CASE ~Exists(s)
      BY <3>2 DEF Exists
    <3>3. CASE down
      BY <3>3, BeforeDown
    <3> QED
      BY <1>6, <3>1, <3>2, <3>3
  <2> HIDE DEF content
  <2> QED
    BY <1>2, <1>3, <1>4, <1>5, <1>6, <2>1, EndedOK DEF Generating
<1>7. CASE /\ ~cancelled /\ (ok \/ p.signal = "int") /\ Succeeded(s, content(ok))
  <2>1. run[s] \in Generating /\ session[s] = "starting"
    BY <1>3, <1>7, Before DEF RunOK, Exists, Generating
  <2>2. content(ok) = written
    BY <1>7, Before DEF RunOK
  <2>3. Alone(s) => written \in {"none", "tiny", "whole"}
    BY <1>3, <2>1, Before DEF OwnFile, Content
  <2> HIDE DEF content, written
  <2> QED
    BY <1>2, <1>4, <1>7, <2>1, <2>2, <2>3, SucceededOK
<1>8. CASE /\ ~cancelled /\ Ended(s, "failed") /\ UNCHANGED file
  <2>1. file' = [file EXCEPT ![Path(s)] = file[Path(s)]]
    BY <1>8 DEF IInv, Typed
  <2>2. "failed" \in Status
    BY DEF Status
  <2> QED
    BY <1>2, <1>3, <1>5, <1>8, <2>1, <2>2, EndedOK DEF Generating
<1> QED
  BY <1>1, <1>6, <1>7, <1>8

LEMMA ShutdownOK ==
    ASSUME IInv, Shutdown
    PROVE  IInv'
<1>1. /\ down' = TRUE /\ UNCHANGED <<cached, owner, job, run, file>> /\ Typed
  BY DEF Shutdown, IInv
<1>2. ASSUME NEW s \in Session
      PROVE  /\ session'[s] = IF Exists(s) THEN "gone" ELSE session[s]
             /\ ffmpeg'[s] \in {ffmpeg[s], Terminated(ffmpeg[s])}
             /\ ffmpeg'[s] \in Process
  BY Before, TerminatedTyped DEF Shutdown
<1>3. Typed'
  <2>1. session' \in [Session -> Status] /\ ffmpeg' \in [Session -> Process]
    BY <1>2, Before DEF Shutdown, Status
  <2> QED
    BY <1>1, <2>1 DEF Typed
<1>4. ASSUME NEW s \in Session PROVE SessionOK(s)'
  <2>1. /\ ffmpeg'[s].state = ffmpeg[s].state /\ ffmpeg'[s].linked = ffmpeg[s].linked
        /\ ffmpeg'[s].near = ffmpeg[s].near /\ ffmpeg'[s].signal \in {ffmpeg[s].signal, "term"}
    BY <1>2, Before, TerminatedTyped
  <2>2. session'[s] \in {"none", "gone"} /\ (session'[s] = "none" => session[s] = "none")
    BY <1>2 DEF Exists
  <2>3. RunOK(session'[s], run'[s], ffmpeg'[s])
    BY <1>1, <2>1, <2>2, BeforeStatus DEF RunOK
  <2>4. ASSUME Alone(s)' PROVE OwnFile(session'[s], run'[s], ffmpeg'[s], file'[Path(s)])
    <3>1. Alone(s)
      BY <1>1, <2>4 DEF Alone
    <3> QED
      BY <1>1, <2>1, <2>2, <3>1, Before DEF OwnFile
  <2>5. ~Exists(s)'
    BY <2>2 DEF Exists
  <2>6. Path(s)' = Path(s)
    BY <1>1 DEF Path
  <2> QED
    BY <2>3, <2>4, <2>5, <2>6 DEF SessionOK
<1> QED
  BY <1>3, <1>4 DEF IInv

LEMMA EvictOK ==
    ASSUME IInv, Evict
    PROVE  IInv'
<1>1. /\ file' = [file EXCEPT ![0] = "none"] /\ cached /\ Typed
      /\ UNCHANGED <<cached, session, owner, job, run, ffmpeg, down>>
  BY DEF Evict, IInv
<1>2. Typed'
  BY <1>1 DEF Typed, Content
<1>3. ASSUME NEW s \in Session PROVE SessionOK(s)'
  <2>1. file'[Path(s)] = "none"
    BY <1>1, BoundsAssumption DEF Typed, Path
  <2>2. OwnFile(session'[s], run'[s], ffmpeg'[s], file'[Path(s)])
    BY <2>1 DEF OwnFile
  <2>3. Path(s)' = Path(s)
    BY <1>1 DEF Path
  <2>4. RunOK(session'[s], run'[s], ffmpeg'[s])
    BY <1>1, BeforeStatus
  <2>5. down' => session'[s] \in {"none", "gone"}
    <3>1. down => session[s] \in {"none", "gone"}
      BY BeforeDown
    <3> QED
      BY <1>1, <3>1
  <2> QED
    BY <2>2, <2>3, <2>4, <2>5 DEF SessionOK, Exists
<1> QED
  BY <1>2, <1>3 DEF IInv

(***************************************************************************)
(* The theorems.                                                           *)
(***************************************************************************)

LEMMA InitOK == Init => IInv
<1> SUFFICES ASSUME Init PROVE IInv
  OBVIOUS
<1>1. Typed
  <2>1. \A s \in Session : NoProcess \in Process
    BY NoProcessTyped
  <2>2. /\ ffmpeg \in [Session -> Process] /\ session \in [Session -> Status]
        /\ run \in [Session -> RunPhase] /\ file \in [0..MaxSessions -> Content]
    BY <2>1 DEF Init, Status, RunPhase, Content
  <2>3. cached \in BOOLEAN /\ down \in BOOLEAN /\ owner \in [Session -> User]
    BY DEF Init
  <2>4. job = 0 /\ job \in 0..MaxSessions
    BY BoundsAssumption DEF Init
  <2> QED
    BY <2>2, <2>3, <2>4 DEF Typed
<1>2. ASSUME NEW s \in Session PROVE SessionOK(s)
  <2>1. /\ session[s] = "none" /\ run[s] = "none" /\ ffmpeg[s] = NoProcess
        /\ file[Path(s)] = "none" /\ ~down
    BY Paths DEF Init
  <2>2. RunOK(session[s], run[s], ffmpeg[s])
    BY <2>1 DEF RunOK, NoProcess
  <2>3. OwnFile(session[s], run[s], ffmpeg[s], file[Path(s)])
    BY <2>1 DEF OwnFile
  <2> QED
    BY <2>1, <2>2, <2>3 DEF SessionOK
<1> QED
  BY <1>1, <1>2 DEF IInv

LEMMA StepKeepsIInv == IInv /\ [Next]_vars => IInv'
<1> SUFFICES ASSUME IInv, [Next]_vars PROVE IInv'
  OBVIOUS
<1>1. CASE Shutdown
  BY <1>1, ShutdownOK
<1>2. CASE Evict
  BY <1>2, EvictOK
<1>3. ASSUME NEW s \in Session,
             \/ PostHit(s) \/ PostNew(s) \/ End(s) \/ Probed(s) \/ StallCheck(s) \/ SpawnFails(s)
             \/ FFmpegStep(s)
      PROVE  IInv'
  BY <1>3, PostHitOK, PostNewOK, EndOK, ProbedOK, StallCheckOK, SpawnFailsOK,
     OpenOK, ProgressOK, HangOK, ExitOK DEF FFmpegStep
<1>4. CASE UNCHANGED vars
  <2>1. Typed'
    BY <1>4 DEF IInv, Typed, vars
  <2>2. ASSUME NEW s \in Session PROVE SessionOK(s)'
    BY <1>4 DEF IInv, SessionOK, Alone, Path, Exists, vars
  <2> QED
    BY <2>1, <2>2 DEF IInv
<1> QED
  BY <1>1, <1>2, <1>3, <1>4 DEF Next

(* The inductive invariant of the generation.                              *)
THEOREM GenerationInductive == Spec => []IInv
BY InitOK, StepKeepsIInv, PTL DEF Spec

LEMMA IInvIsTyped == IInv => TypeOK
<1> SUFFICES ASSUME IInv PROVE TypeOK
  OBVIOUS
<1>1. \A s \in Session :
         /\ session[s] \in {"starting", "gone"} \/ run[s] \in {"none", "over"}
         /\ session[s] = "starting" => run[s] \notin {"none", "over"}
         /\ ffmpeg[s].linked => ffmpeg[s].state # "none"
  BY DEF IInv, SessionOK, RunOK
<1> QED
  BY <1>1 DEF TypeOK, IInv, Typed, Status, RunPhase

(* The state stays well typed: only a run under way has a session that     *)
(* waits, and only a process that runs writes to a file (runVodBackground, *)
(* recordings.ts).                                                         *)
THEOREM GenerationTyped == Spec => []TypeOK
BY GenerationInductive, IInvIsTyped, PTL

LEMMA IInvIsWhole == IInv => OwnFileIsNotCutShort
<1> SUFFICES ASSUME IInv, NEW s \in Session, session[s] = "ready", run[s] # "none",
                    cached => \A t \in Session \ {s} : run[t] = "none"
             PROVE  file[Path(s)] \in {"none", "tiny", "whole"}
  BY DEF OwnFileIsNotCutShort
<1>1. Alone(s)
  BY DEF Alone
<1> QED
  BY <1>1, Before DEF OwnFile

(* A file that one session generated by itself is offered as ready only if *)
(* it is not cut short: stalls, second attempts and endings leave nothing  *)
(* else at its path (the stall timer and the size check of                 *)
(* runVodBackground, recordings.ts).                                       *)
THEOREM OwnFilesAreWhole == Spec => []OwnFileIsNotCutShort
BY GenerationInductive, IInvIsWhole, PTL
============================================================================
