------------------------------ MODULE Verdict ------------------------------
(***************************************************************************)
(* Judge of relay/internal/verdict/verdict.go: four checks on the evidence *)
(* a task leaves behind.  A reason stands for its message, and the words   *)
(* that Judge looks for in the output for the output.                      *)
(***************************************************************************)
EXTENDS Integers

CONSTANT Now  \* bound, at least 1: times of dispatch (0 for none) and of
              \* the artifact

NoUsage    == [APICalls |-> 0, Completed |-> FALSE, Failed |-> FALSE, Given |-> FALSE]
NoArtifact == [Named |-> FALSE, Size |-> 0, ModTime |-> 0]

Usages == {NoUsage} \cup
    [APICalls : 0..1, Completed : BOOLEAN, Failed : BOOLEAN, Given : {TRUE}]

(* A named artifact of no size, or none at all, is missing. *)
Artifacts == {NoArtifact} \cup [Named : {TRUE}, Size : 0..1, ModTime : 1..Now]

VARIABLES ev,      \* the evidence
          reasons  \* the set of reasons Judge has found, one or none

vars == <<ev, reasons>>

Init == /\ ev \in [ExitCode : 0..1, ErrorInStdout : BOOLEAN, Usage : Usages,
                   Artifact : Artifacts, DispatchTime : 0..Now]
        /\ reasons = {}

ExitZeroButFailed == ev.ExitCode = 0 /\ ev.Usage.Given /\ ev.Usage.Failed

BadArtifact ==
    /\ ev.Usage.Given /\ ev.Usage.Completed
    /\ \/ ~ev.Artifact.Named
       \/ ev.Artifact.Size = 0
       \/ ev.DispatchTime # 0 /\ ev.Artifact.ModTime < ev.DispatchTime

(* Failed usage excuses the exit code. *)
NonZeroExit == ev.ExitCode # 0 /\ (~ev.Usage.Given \/ ~ev.Usage.Failed)

Found == {r \in {"exit zero but failed", "error in stdout", "artifact", "exit code"} :
             \/ r = "exit zero but failed" /\ ExitZeroButFailed
             \/ r = "error in stdout" /\ ev.ErrorInStdout
             \/ r = "artifact" /\ BadArtifact
             \/ r = "exit code" /\ NonZeroExit}

Judge == /\ reasons = {}
         /\ reasons' = {Found}
         /\ UNCHANGED ev

Spec == Init /\ [][Judge]_vars

Accepted == reasons = {{}}

----------------------------------------------------------------------------
(* README.md of relay says that a verdict demands Usage.Failed == false:   *)
(* a task whose usage says that it failed is not accepted.                 *)
FailedIsRejected == Accepted => ~ev.Usage.Failed
=============================================================================
