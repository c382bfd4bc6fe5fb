----------------------- MODULE MCPreviewSessionsOne ------------------------
(* One session with its takeovers, alone with the NVR.                     *)
EXTENDS PreviewSessions

CONSTANT s1

MCSession == {s1}
MCViewOf == [s \in MCSession |-> s]
============================================================================
