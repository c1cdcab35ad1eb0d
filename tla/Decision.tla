------------------------------ MODULE Decision ------------------------------
(***************************************************************************)
(* What a finding does to the exit code (internal/decision): the           *)
(* confidence gate, the applicability gate and the test-fixture rule, in   *)
(* the order DecideWithOptions applies them, under the policy a command    *)
(* line and a policy file settle between them (internal/policy).           *)
(***************************************************************************)
EXTENDS Evidence

Independent(e) ==
  {k \in {"correlated", "routeConfirmed", "reachable", "provenPath", "probe", "crossTool", "auth"} :
     CASE k = "correlated" -> e.source = "correlated"
       [] k = "probe" -> e.probe # ""
       [] k = "auth" -> e.auth = "required"
       [] OTHER -> e[k]}
SelfEvident(e) ==
  {k \in {"direct", "deterministic", "imported"} :
     CASE k = "direct" -> e.direct
       [] k = "deterministic" -> HasDeterministicDetection(e)
       [] OTHER -> e.source = "imported" /\ e.confidence = "HIGH"}
Corroborated(e) == Independent(e) \cup SelfEvident(e) # {}

Threshold(failOn) == IF failOn = "" THEN 0 ELSE SeverityRank(failOn)
AboveThreshold(e, failOn) == Threshold(failOn) > 0 /\ SeverityRank(e.severity) >= Threshold(failOn)

(* The confidence gate: what is above the threshold blocks only when its    *)
(* confidence and its corroboration hold it up.                             *)
ApplyConfidenceGate(e) ==
  LET band == BandFor(Score(e))
      alone == Independent(e) = {}
  IN  IF \/ e.unconfirmed /\ alone
         \/ band = "LOW"
         \/ ~Corroborated(e)
         \/ band = "MEDIUM" /\ alone
      THEN "WARN" ELSE "BLOCK"

(* The shadow of the gate under the relaxed policy is the override.         *)
Decide0(e, failOn, opts) ==
  LET above == AboveThreshold(e, failOn)
      d(status, override) == [status |-> status, override |-> override, above |-> above]
  IN  CASE above /\ opts.enforce -> d(ApplyConfidenceGate(e), FALSE)
        [] above /\ ~opts.enforce -> d("BLOCK", ApplyConfidenceGate(e) # "BLOCK")
        [] ~above /\ SeverityRank(e.severity) >= SeverityRank("MEDIUM") -> d("WARN", FALSE)
        [] OTHER -> d("INFO", FALSE)

ApplyApplicabilityGate(d, e, opts) ==
  IF /\ d.above /\ ~opts.blockInapplicable
     /\ d.status \in {"BLOCK", "WARN"}
     /\ e.category = "deps"
     /\ ApplicabilityOf(e) = "evidence_against"
  THEN [d EXCEPT !.status = "WARN"] ELSE d

(* Test code: a block nothing independent supports is held at WARN, what is *)
(* below the threshold sinks to INFO, and so does a credential whose place  *)
(* and shape both say it is a fixture.                                      *)
FixtureCorroborated(e) == e.inTest /\ e.placeholder /\ ~e.anchored
DeescalateTests(d, e) ==
  LET alone == Independent(e) = {}
      first == IF d.status = "BLOCK" /\ alone THEN "WARN"
               ELSE IF d.status = "WARN" /\ ~d.above THEN "INFO" ELSE d.status
  IN  [d EXCEPT !.status = IF first = "WARN" /\ alone /\ FixtureCorroborated(e) THEN "INFO" ELSE first]

(* Mutant: the override is left on a finding a later gate held.             *)
KeepOverride(d) == d
SettleOverride(d) == [d EXCEPT !.override = d.override /\ d.status = "BLOCK"]

DecideWithOptions(e, failOn, opts) ==
  LET gated == ApplyApplicabilityGate(Decide0(e, failOn, opts), e, opts)
  IN  SettleOverride(IF opts.deescalate /\ e.inTest THEN DeescalateTests(gated, e) ELSE gated)

ExitCode(decisions) == IF \E d \in decisions : d.status = "BLOCK" THEN 1 ELSE 0

-----------------------------------------------------------------------------
(* The options a run decides under.  A file that cannot be read, of another *)
(* version or with a threshold that does not exist ends the run; a flag the *)
(* command line sets is never replaced by the file's.                       *)
FailOns == {"", "CRITICAL", "HIGH", "MEDIUM", "LOW"}
SupportedVersion == 1
PolicyLoads(file) == /\ file.version > 0 /\ file.version <= SupportedVersion
                     /\ file.failOn \in FailOns
(* A policy file's settings are the options it names; an empty fail_on is   *)
(* none.                                                                    *)
Settings(file) == [k \in {o \in DOMAIN file : o # "version" /\ ~(o = "failOn" /\ file.failOn = "")} |-> file[k]]
ApplyPolicy(cli, file, defaults) ==
  [k \in DOMAIN defaults |->
     IF k \in DOMAIN cli THEN cli[k]
     ELSE IF k \in DOMAIN Settings(file) THEN file[k] ELSE defaults[k]]
=============================================================================
