------------------------------- MODULE LocalRun -------------------------------
(***************************************************************************)
(* A developer's machine: `ovtest [cases]`, bootstrap-openviking-user and  *)
(* reset-local-state (src/cmd/ovtest/main.go), one after the other, with   *)
(* the files they share: ovcli.conf and ovcli.conf.root, the rows of       *)
(* runs.jsonl, the workspace in which the local OpenViking server keeps    *)
(* its accounts.  The developer starts and stops that server at any time,  *)
(* each write can fail half way, and a command can be killed between any   *)
(* two steps.                                                              *)
(***************************************************************************)
EXTENDS Naturals, Sequences

CONSTANTS
  MaxCommands,  \* bounds the commands given on this machine
  MaxRuns,      \* bounds the runs of one invocation: cases times --repeat
  Targets,      \* the URIs of OV_TEST_CLEANUP_URIS that are concrete
  MaxTries      \* attempts at deleting a target that conflicts

ASSUME LocalAssumption == MaxTries \in Nat \ {0}

Files == {"user", "root"}    \* ovcli.conf, ovcli.conf.root
NoConf == [kind |-> "absent", key |-> 0, admin |-> FALSE]
WholeConfs == [kind : {"whole"}, key : 0..1, admin : BOOLEAN]

VARIABLES
  server,      \* "down", "hung" or "up"
  key,         \* the user key in the server's workspace, 0 when it has none
  minted,      \* the keys it has made so far
  conf,        \* the configuration of the ov command
  tail,        \* how runs.jsonl ends: after a "line", "cut", or "bare" of its newline
  corrupt,     \* whether it holds a row that is not JSON
  commands, command, request, pc,
  anyFail, exit,
  preflight, ran, passed, readable, oldTail,
  newKey, paths,               \* the key to write, and the files still to write
  left, tries, present,        \* of the API cleanup
  skipped, misread,            \* targets passed over: by their wait, by their delete
  removing, late               \* of the reset

machine == <<server, key, minted>>
record == <<tail, corrupt>>
given == <<commands, command, request, oldTail>>
counts == <<preflight, ran, passed, readable>>
bootstrap == <<newKey, paths>>
cleanup == <<left, tries, present, skipped, misread>>
reset == <<removing, late>>
localVars == <<machine, conf, record, given, pc, anyFail, exit, counts, bootstrap, cleanup, reset>>

(* What a run is asked for, with names that no case has among its cases or *)
(* none; and what ov.conf tells a reset: the endpoint (its url, or host and *)
(* port), which is none, one whose host is by its text a loopback, or one  *)
(* elsewhere (0.0.0.0, a name, an address of the network), where the       *)
(* server of this machine may well listen; and where the workspace is.     *)
RunRequests ==
  {r \in [runs : 0..MaxRuns, unknown : BOOLEAN, ov : BOOLEAN, record : BOOLEAN,
          cleanup : {"off", "targets", "broad"}] : r.runs > 0 \/ r.unknown}
ResetRequests == [endpoint : {"none", "loopback", "elsewhere"},
                  workspace : {"none", "inside", "outside"}]

LocalInit ==
  /\ server \in {"down", "up"} /\ key \in 0..1 /\ minted = 1
  /\ conf \in [Files -> WholeConfs \cup {NoConf}] /\ conf["root"].key = 0
  /\ tail = "line" /\ corrupt = FALSE
  /\ commands = 0 /\ command = "none" /\ request = <<>> /\ pc = "idle" /\ oldTail = "line"
  /\ anyFail = FALSE /\ exit = "none"
  /\ preflight = "none" /\ ran = 0 /\ passed = 0 /\ readable = 0
  /\ newKey = 0 /\ paths = <<>>
  /\ left = {} /\ tries = 0 /\ present = {} /\ skipped = {} /\ misread = {}
  /\ removing = <<>> /\ late = FALSE

At(p) == pc = p
Goto(p) == pc' = p /\ UNCHANGED <<anyFail, exit>>
Exit(failed) ==
  pc' = "over" /\ anyFail' = failed /\ exit' = (IF failed THEN "failure" ELSE "success")
Fails == Exit(TRUE)
-----------------------------------------------------------------------------
(* The developer starts, stops and breaks the server; a command is killed. *)
ServerStarts ==
  /\ server = "down" /\ server' = "up" /\ late' = (late \/ pc = "remove")
  /\ UNCHANGED <<key, minted, conf, record, given, pc, anyFail, exit, counts, bootstrap, cleanup, removing>>

ServerBreaks ==
  /\ \/ server = "up" /\ server' \in {"down", "hung"}
     \/ server = "hung" /\ server' = "down"
  /\ UNCHANGED <<key, minted, conf, record, given, pc, anyFail, exit, counts, bootstrap, cleanup, reset>>

(* The memory of a process goes with it, whether it exits or is killed.    *)
Forget ==
  /\ pc' = "idle" /\ command' = "none" /\ request' = <<>> /\ oldTail' = "line"
  /\ anyFail' = FALSE /\ exit' = "none"
  /\ preflight' = "none" /\ ran' = 0 /\ passed' = 0 /\ readable' = 0
  /\ newKey' = 0 /\ paths' = <<>>
  /\ left' = {} /\ tries' = 0 /\ present' = {} /\ skipped' = {} /\ misread' = {}
  /\ removing' = <<>> /\ late' = FALSE

Ends ==
  /\ ~At("idle") /\ Forget
  /\ UNCHANGED <<machine, conf, record, commands>>

Invoke ==
  /\ At("idle") /\ commands < MaxCommands /\ commands' = commands + 1
  /\ \/ /\ command' = "run" /\ pc' = "open"
        /\ request' \in RunRequests /\ anyFail' = request'.unknown
     \/ command' = "bootstrap" /\ pc' = "create" /\ request' = <<>> /\ anyFail' = FALSE
     \/ command' = "reset" /\ pc' = "probe" /\ request' \in ResetRequests /\ anyFail' = FALSE
  /\ oldTail' = tail
  /\ UNCHANGED <<machine, conf, record, exit, counts, bootstrap, cleanup, reset>>
-----------------------------------------------------------------------------
(* run, up to the first case: the record has to be writable, and cases     *)
(* that use OpenViking have to find their key accepted.                    *)
OpenRecord ==
  /\ At("open")
  /\ \/ Goto("preflight")
     \/ request.record /\ request.runs > 0 /\ Fails
  /\ UNCHANGED <<machine, conf, record, given, counts, bootstrap, cleanup, reset>>

(* Whether one of the cases uses OpenViking, by its name.                  *)
Needed == request.ov /\ request.runs > 0
KeyRejected == server = "up" /\ (key = 0 \/ conf["user"].key # key)
BootstrapConfigAvailable ==
  \/ conf["root"].kind # "absent"
  \/ conf["user"].kind = "whole" /\ conf["user"].admin

(* What `ov status` prints when it fails decides, by its text: with "401"  *)
(* or "unauthorized" in it, whatever went wrong, the key counts as         *)
(* rejected, and without any such word the cases go on unchecked.          *)
Preflight ==
  /\ At("preflight")
  /\ LET Starts(how) == preflight' = how /\ Goto("cases")
     IN
     \/ ~Needed /\ Starts("unneeded")
     \/ Needed /\ conf["user"].kind # "whole" /\ preflight' = "failed" /\ Fails
     \/ /\ Needed /\ conf["user"].kind = "whole"
        /\ \/ server = "up" /\ ~KeyRejected /\ Starts("accepted")
           \/ Starts("unchecked")
           \/ /\ BootstrapConfigAvailable /\ Goto("create")
              /\ preflight' = (IF KeyRejected THEN "rejected" ELSE "misread")
           \/ ~BootstrapConfigAvailable /\ preflight' = "failed" /\ Fails
  /\ UNCHANGED <<machine, conf, record, given, ran, passed, readable, bootstrap, cleanup, reset>>
-----------------------------------------------------------------------------
(* The bootstrap of the test user: create the account, or make a new key   *)
(* for the one that exists, and write the key to the configuration files.  *)
(* The answer of a request that was served may still be lost.              *)
AdminConf == IF conf["root"].kind # "absent" THEN "root" ELSE "user"
AdminServed == server = "up" /\ conf[AdminConf].kind = "whole" /\ conf[AdminConf].admin

(* ovcli.conf, and ovcli.conf.root where there is one.  The slip writes    *)
(* only the file that the account was made with.                           *)
BootstrapPathsOfAdmin == <<AdminConf>>
BootstrapPaths == IF conf["root"].kind = "absent" THEN <<"user">> ELSE <<"user", "root">>

MakeKey ==
  /\ AdminServed /\ minted' = minted + 1 /\ key' = minted + 1 /\ UNCHANGED server
  /\ \/ newKey' = minted + 1 /\ paths' = BootstrapPaths /\ Goto("read")
     \/ UNCHANGED bootstrap /\ Fails

CreateAccount ==
  /\ At("create")
  /\ \/ key = 0 /\ MakeKey
     \/ AdminServed /\ key # 0 /\ Goto("regenerate") /\ UNCHANGED <<machine, bootstrap>>
     \/ Fails /\ UNCHANGED <<machine, bootstrap>>
  /\ UNCHANGED <<conf, record, given, counts, cleanup, reset>>

RegenerateKey ==
  /\ At("regenerate")
  /\ \/ MakeKey
     \/ Fails /\ UNCHANGED <<machine, bootstrap>>
  /\ UNCHANGED <<conf, record, given, counts, cleanup, reset>>

(* One file after the other is read and, once it is truncated, written     *)
(* anew.  Neither an absent ovcli.conf nor one that is not JSON is          *)
(* replaced.                                                               *)
ReadConf ==
  /\ At("read")
  /\ IF conf[Head(paths)].kind = "whole"
       THEN Goto("write") /\ conf' = [conf EXCEPT ![Head(paths)].kind = "torn"]
       ELSE Fails /\ UNCHANGED conf
  /\ UNCHANGED <<machine, record, given, counts, bootstrap, cleanup, reset>>

WriteConf ==
  /\ At("write")
  /\ \/ /\ conf' = [conf EXCEPT ![Head(paths)].kind = "whole", ![Head(paths)].key = newKey]
        /\ paths' = Tail(paths)
        /\ IF paths' # <<>> THEN Goto("read") /\ UNCHANGED preflight
           ELSE IF command = "run" THEN Goto("cases") /\ preflight' = "repaired"
           ELSE Exit(FALSE) /\ UNCHANGED preflight
     \/ Fails /\ UNCHANGED <<conf, paths, preflight>>
  /\ UNCHANGED <<machine, record, given, ran, passed, readable, newKey, cleanup, reset>>
-----------------------------------------------------------------------------
(* A run of a case, and its row: one write of a whole line, which joins    *)
(* what an earlier one left unfinished, and may itself stop anywhere.  For *)
(* the slip a row that could not be written is only worth its warning.     *)
FailedOfResult(result, row) == result = "failed"
Failed(result, row) == result = "failed" \/ row \in {"none", "cut", "bare"}

(* What a report can read: every line is a record or a corrupt row, which  *)
(* it counts and leaves out.                                               *)
Joined(row) == row = "line" /\ tail # "line"
Readable(row) == row = "line" /\ tail = "line"

AppendRecord(row) ==
  /\ tail' = CASE row = "none" -> tail
                [] row \in {"cut", "bare"} /\ tail # "line" -> "cut"
                [] OTHER -> row
  /\ corrupt' = (corrupt \/ Joined(row))
  /\ readable' = readable + (IF Readable(row) THEN 1 ELSE 0)

RunCase ==
  /\ At("cases") /\ ran < request.runs /\ ran' = ran + 1
  /\ \E result \in {"passed", "failed"},
        row \in IF request.record THEN {"line", "none", "cut", "bare"} ELSE {"off"} :
       /\ passed' = passed + (IF result = "passed" THEN 1 ELSE 0)
       /\ anyFail' = (anyFail \/ Failed(result, row))
       /\ IF row = "off" THEN UNCHANGED <<record, readable>> ELSE AppendRecord(row)
  /\ present' = Targets
  /\ UNCHANGED <<machine, conf, given, pc, exit, preflight, bootstrap, left, tries, skipped, misread, reset>>

(* OV_TEST_CLEANUP_MODE=api: only concrete targets count, and it is an     *)
(* error when none is named.                                               *)
CleanupTargets == IF request.cleanup = "targets" THEN Targets ELSE {}

CasesEnd ==
  /\ At("cases") /\ ran = request.runs
  /\ IF request.cleanup = "off" \/ ran = 0 THEN Exit(anyFail) /\ UNCHANGED left
     ELSE IF CleanupTargets = {} THEN Fails /\ UNCHANGED left
     ELSE left' = CleanupTargets /\ Goto("wait")
  /\ UNCHANGED <<machine, conf, record, given, counts, bootstrap, tries, present, skipped, misread, reset>>
-----------------------------------------------------------------------------
(* The API cleanup: wait for the server's queue and delete, up to five     *)
(* times while the server says CONFLICT.  A delete whose output says "not  *)
(* found" or "404" anywhere, be it in a conflict or in the URI it repeats, *)
(* has succeeded; a wait that fails with such a text passes its target     *)
(* over, and its exit code stands only if it is the last.                  *)
NextTarget(t, failed) ==
  /\ left' = left \ {t} /\ tries' = 0
  /\ IF left' # {} THEN Goto("wait") ELSE Exit(anyFail \/ failed)

CleanupFails == Fails /\ UNCHANGED <<left, tries, skipped, misread>>

WaitForQueue ==
  /\ At("wait")
  /\ LET t == CHOOSE x \in left : TRUE IN
     \/ server = "up" /\ Goto("delete") /\ UNCHANGED <<left, tries, skipped, misread>>
     \/ skipped' = skipped \cup {t} /\ NextTarget(t, TRUE) /\ UNCHANGED misread
     \/ CleanupFails
  /\ UNCHANGED <<machine, conf, record, given, counts, bootstrap, present, reset>>

RetryConflict == tries + 1 < MaxTries

DeleteTarget ==
  /\ At("delete")
  /\ LET t == CHOOSE x \in left : TRUE IN
     \/ server = "up" /\ present' = present \ {t} /\ NextTarget(t, FALSE) /\ UNCHANGED <<skipped, misread>>
     \/ misread' = misread \cup {t} /\ NextTarget(t, FALSE) /\ UNCHANGED <<present, skipped>>
     \/ /\ server = "up" /\ UNCHANGED present
        /\ IF RetryConflict
             THEN tries' = tries + 1 /\ Goto("wait") /\ UNCHANGED <<left, skipped, misread>>
             ELSE CleanupFails
     \/ present' \in {present} \cup (IF server = "up" THEN {present \ {t}} ELSE {}) /\ CleanupFails
  /\ UNCHANGED <<machine, conf, record, given, counts, bootstrap, reset>>
-----------------------------------------------------------------------------
(* reset-local-state: only an endpoint on a loopback host is probed, and   *)
(* only a refused connection counts as a stopped server.  For the slip any *)
(* error does.                                                             *)
Probed == request.endpoint = "loopback"
ProbePassesOnError == Probed => server # "up"
ProbePasses == Probed => server = "down"

ResetTargets == IF request.workspace = "inside" THEN <<"state", "workspace">> ELSE <<"state">>

(* An ov.conf that cannot be read ends the reset as well.                  *)
ProbeServer ==
  /\ At("probe")
  /\ \/ /\ ProbePasses /\ request.workspace # "outside"
        /\ removing' = ResetTargets /\ Goto("remove")
     \/ Fails /\ UNCHANGED removing
  /\ UNCHANGED <<machine, conf, record, given, counts, bootstrap, cleanup, late>>

(* The accounts go with the workspace, and a removal that fails may have   *)
(* removed some of it.                                                     *)
RemoveTarget ==
  /\ At("remove")
  /\ LET wiped == IF Head(removing) = "workspace" THEN {0} ELSE {key} IN
     \/ /\ key' \in wiped /\ removing' = Tail(removing)
        /\ IF removing' = <<>> THEN Exit(FALSE) ELSE Goto("remove")
     \/ key' \in wiped \cup {key} /\ Fails /\ UNCHANGED removing
  /\ UNCHANGED <<server, minted, conf, record, given, counts, bootstrap, cleanup, late>>
-----------------------------------------------------------------------------
Over == At("idle") /\ commands = MaxCommands /\ UNCHANGED localVars

LocalNext ==
  \/ ServerStarts \/ ServerBreaks \/ Ends \/ Invoke \/ OpenRecord \/ Preflight
  \/ CreateAccount \/ RegenerateKey \/ ReadConf \/ WriteConf
  \/ RunCase \/ CasesEnd \/ WaitForQueue \/ DeleteTarget \/ ProbeServer \/ RemoveTarget \/ Over

LocalSpec == LocalInit /\ [][LocalNext]_localVars
===============================================================================
