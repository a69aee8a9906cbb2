---------------------------- MODULE LocalRunProofs ----------------------------
(* Safety of the local commands, for any number of commands, runs, targets *)
(* and attempts.                                                           *)
EXTENDS LocalRunProps, TLAPS

Confs == [kind : {"absent", "torn", "whole"}, key : Nat, admin : BOOLEAN]

ConfOK == conf \in [Files -> Confs]
VerdictOK == anyFail \in BOOLEAN /\ exit \in {"none", "failure", "success"}
DataOK ==
  /\ server \in {"down", "hung", "up"} /\ key \in Nat /\ minted \in Nat
  /\ tail \in {"line", "cut", "bare"} /\ oldTail \in {"line", "cut", "bare"}
  /\ corrupt \in BOOLEAN /\ late \in BOOLEAN
  /\ preflight \in {"none", "unneeded", "failed", "accepted", "unchecked", "repaired",
                   "rejected", "misread"}
  /\ ran \in Nat /\ passed \in Nat /\ readable \in Nat /\ newKey \in Nat
LocalTypeOK == ConfOK /\ VerdictOK /\ DataOK

(* Which command is at which place, and what it was asked for.             *)
Bootstrapping == pc \in {"create", "regenerate", "read", "write"}
Unrun == Bootstrapping \/ pc \in {"idle", "open", "preflight"}
PlaceInv ==
  /\ pc \in {"idle", "over", "open", "preflight", "create", "regenerate", "read", "write",
             "cases", "wait", "delete", "probe", "remove"}
  /\ pc \in {"open", "preflight", "cases", "wait", "delete"} => command = "run"
  /\ Bootstrapping => command \in {"run", "bootstrap"}
  /\ pc \in {"probe", "remove"} => command = "reset"
  /\ command = "run" => request \in RunRequests
  /\ pc # "over" => exit = "none"

(* Why the bootstrap of a run, and the removal of a reset, came about.     *)
ReasonInv ==
  /\ pc \in {"create", "regenerate"} /\ command = "run" =>
       preflight = "misread" \/ key = 0 \/ conf["user"].key # key
  /\ pc = "remove" /\ Probed => server = "down" \/ late

(* The files that are still to write, and what those before them hold.     *)
FilesInv ==
  pc \in {"read", "write"} =>
    /\ newKey = key /\ key # 0
    /\ \/ paths = <<"user">> /\ conf["root"].kind = "absent"
       \/ paths = <<"user", "root">> /\ conf["root"].kind # "absent" /\ conf["root"].admin
       \/ /\ paths = <<"root">> /\ conf["root"].kind # "absent" /\ conf["root"].admin
          /\ conf["user"].kind = "whole" /\ conf["user"].key = key

(* How the rows of n runs can have come out if each was written whole.     *)
RowsOK(n) ==
  \/ readable = n /\ tail = (IF n = 0 THEN oldTail ELSE "line")
  \/ oldTail # "line" /\ readable + 1 = n /\ corrupt /\ tail = "line"

(* What an unblemished run has counted.                                    *)
TallyInv ==
  /\ Unrun => ran = 0 /\ passed = 0 /\ readable = 0 /\ skipped = {} /\ misread = {}
  /\ command = "run" /\ Unrun => tail = oldTail
  /\ pc = "cases" => skipped = {} /\ misread = {} /\ (ran > 0 => present = Targets)
  /\ command = "run" /\ ~anyFail /\ pc # "over" =>
       /\ ~request.unknown /\ passed = ran
       /\ request.record => RowsOK(ran)

(* What the cleanup still has to delete.                                   *)
CleanupInv ==
  pc \in {"wait", "delete"} =>
    /\ ran = request.runs /\ request.cleanup = "targets"
    /\ left # {} /\ left \subseteq Targets /\ left \cap skipped = {}
    /\ present \subseteq left \cup skipped \cup misread

LocalInv ==
  /\ LocalTypeOK /\ PlaceInv /\ ReasonInv /\ FilesInv /\ TallyInv /\ CleanupInv
  /\ PreflightRight /\ ExitEarned

(* The lists of files that a bootstrap writes.                             *)
LEMMA HeadsAndTails ==
  /\ Head(<<"user">>) = "user" /\ Tail(<<"user">>) = <<>>
  /\ Head(<<"root">>) = "root" /\ Tail(<<"root">>) = <<>>
  /\ Head(<<"user", "root">>) = "user" /\ Tail(<<"user", "root">>) = <<"root">>
  /\ <<"root">> # <<>>
OBVIOUS

LEMMA LocalInitially == ASSUME LocalInit PROVE LocalInv
<1>1. LocalTypeOK
  <2>1. \A c \in WholeConfs \cup {NoConf} : c \in Confs
    <3>1. NoConf \in Confs BY DEF NoConf, Confs
    <3>2. ASSUME NEW c \in WholeConfs PROVE c \in Confs BY DEF WholeConfs, Confs
    <3> QED BY <3>1, <3>2
  <2>2. ConfOK BY <2>1, Zenon DEF LocalInit, ConfOK
  <2>3. key \in Nat /\ minted \in Nat BY DEF LocalInit
  <2>4. VerdictOK /\ DataOK BY <2>3 DEF LocalInit, VerdictOK, DataOK
  <2> QED BY <2>2, <2>4 DEF LocalTypeOK
<1>2. PlaceInv /\ ReasonInv /\ FilesInv
  BY DEF LocalInit, PlaceInv, ReasonInv, FilesInv, Bootstrapping
<1>3. TallyInv /\ CleanupInv /\ PreflightRight /\ ExitEarned
  BY DEF LocalInit, TallyInv, CleanupInv, PreflightRight, ExitEarned, Unrun, Bootstrapping
<1> QED BY <1>1, <1>2, <1>3 DEF LocalInv

(* What happens outside of a command, or ends it.                          *)
LEMMA MachineStep ==
  ASSUME LocalInv, ServerStarts \/ ServerBreaks \/ Ends \/ Invoke \/ UNCHANGED localVars
  PROVE  LocalInv'
<1> USE DEF LocalInv, LocalTypeOK, VerdictOK, DataOK, PlaceInv, Bootstrapping, machine, record,
            given, counts, bootstrap, cleanup, reset, At, Goto, Fails, Exit
<1>1. CASE ServerStarts
  <2>1. ConfOK' /\ VerdictOK' BY <1>1 DEF ConfOK, ServerStarts
  <2>2. DataOK' BY <1>1 DEF ServerStarts
  <2>3. PlaceInv' /\ ReasonInv' BY <1>1 DEF ReasonInv, Probed, ServerStarts
  <2>4. FilesInv' /\ PreflightRight'
    BY <1>1 DEF ConfOK, FilesInv, PreflightRight, Files, Confs, ServerStarts
  <2>5. TallyInv' BY <1>1 DEF TallyInv, RowsOK, Unrun, ServerStarts
  <2>6. CleanupInv' /\ ExitEarned'
    BY <1>1 DEF TallyInv, RowsOK, Unrun, CleanupInv, ExitEarned, ServerStarts
  <2> QED BY <2>1, <2>2, <2>3, <2>4, <2>5, <2>6, Zenon DEF LocalInv, LocalTypeOK
<1>2. CASE ServerBreaks
  BY <1>2 DEF ConfOK, ReasonInv, Probed, FilesInv, TallyInv, RowsOK, Unrun, CleanupInv, PreflightRight,
     ExitEarned, ServerBreaks
<1>3. CASE Ends
  BY <1>3 DEF ConfOK, ReasonInv, Probed, FilesInv, TallyInv, RowsOK, Unrun, CleanupInv, PreflightRight,
     ExitEarned, Ends, Forget
<1>4. CASE Invoke
  <2>1. ConfOK' /\ VerdictOK' BY <1>4 DEF ConfOK, Invoke, At, RunRequests
  <2>2. DataOK' BY <1>4 DEF Invoke, At, RunRequests
  <2>3. PlaceInv' /\ ReasonInv' BY <1>4 DEF ReasonInv, Probed, Invoke, At, RunRequests
  <2>4. FilesInv' /\ PreflightRight'
    BY <1>4 DEF ConfOK, FilesInv, PreflightRight, Files, Confs, Invoke, At, RunRequests
  <2>5. TallyInv' BY <1>4 DEF TallyInv, RowsOK, Unrun, Invoke, At, RunRequests
  <2>6. CleanupInv' /\ ExitEarned'
    BY <1>4 DEF TallyInv, RowsOK, Unrun, CleanupInv, ExitEarned, Invoke, At, RunRequests
  <2> QED BY <2>1, <2>2, <2>3, <2>4, <2>5, <2>6, Zenon DEF LocalInv, LocalTypeOK
<1>5. CASE UNCHANGED localVars
  BY <1>5 DEF ConfOK, ReasonInv, Probed, FilesInv, TallyInv, RowsOK, Unrun, CleanupInv, PreflightRight,
     ExitEarned, localVars
<1> QED BY <1>1, <1>2, <1>3, <1>4, <1>5, Zenon

(* A run up to its first case.                                             *)
LEMMA StartStep ==
  ASSUME LocalInv, OpenRecord \/ Preflight
  PROVE  LocalInv'
<1> USE DEF LocalInv, LocalTypeOK, VerdictOK, DataOK, PlaceInv, Bootstrapping, machine, record,
            given, counts, bootstrap, cleanup, reset, At, Goto, Fails, Exit
<1>1. CASE OpenRecord
  <2>1. ConfOK' /\ VerdictOK' BY <1>1 DEF ConfOK, OpenRecord
  <2>2. DataOK' BY <1>1 DEF OpenRecord
  <2>3. PlaceInv' /\ ReasonInv' BY <1>1 DEF ReasonInv, Probed, OpenRecord
  <2>4. FilesInv' /\ PreflightRight'
    BY <1>1 DEF ConfOK, FilesInv, PreflightRight, Files, Confs, OpenRecord
  <2>5. TallyInv' BY <1>1 DEF TallyInv, RowsOK, Unrun, OpenRecord
  <2>6. CleanupInv' /\ ExitEarned'
    BY <1>1 DEF TallyInv, RowsOK, Unrun, CleanupInv, ExitEarned, OpenRecord
  <2> QED BY <2>1, <2>2, <2>3, <2>4, <2>5, <2>6, Zenon DEF LocalInv, LocalTypeOK
<1>2. CASE Preflight
  <2>1. ConfOK' /\ VerdictOK'
    BY <1>2 DEF ConfOK, Preflight, Needed, KeyRejected, BootstrapConfigAvailable
  <2>2. DataOK' BY <1>2 DEF Preflight, Needed, KeyRejected, BootstrapConfigAvailable
  <2>3. PlaceInv' /\ ReasonInv'
    BY <1>2 DEF ReasonInv, Probed, Preflight, Needed, KeyRejected, BootstrapConfigAvailable
  <2>4. FilesInv' /\ PreflightRight'
    BY <1>2 DEF ConfOK, FilesInv, PreflightRight, Files, Confs, Preflight, Needed, KeyRejected,
       BootstrapConfigAvailable
  <2>5. TallyInv'
    BY <1>2 DEF TallyInv, RowsOK, Unrun, Preflight, Needed, KeyRejected, BootstrapConfigAvailable
  <2>6. CleanupInv' /\ ExitEarned'
    BY <1>2 DEF TallyInv, RowsOK, Unrun, CleanupInv, ExitEarned, Preflight, Needed, KeyRejected,
       BootstrapConfigAvailable
  <2> QED BY <2>1, <2>2, <2>3, <2>4, <2>5, <2>6, Zenon DEF LocalInv, LocalTypeOK
<1> QED BY <1>1, <1>2, Zenon

(* The bootstrap, alone or in a run.                                       *)
LEMMA BootstrapStep ==
  ASSUME LocalInv, CreateAccount \/ RegenerateKey \/ ReadConf \/ WriteConf
  PROVE  LocalInv'
<1> USE DEF LocalInv, LocalTypeOK, VerdictOK, DataOK, PlaceInv, Bootstrapping, machine, record,
            given, counts, bootstrap, cleanup, reset, At, Goto, Fails, Exit
<1>1. CASE CreateAccount
  <2>1. ConfOK' /\ VerdictOK'
    BY <1>1 DEF ConfOK, CreateAccount, MakeKey, AdminServed, AdminConf, BootstrapPaths
  <2>2. DataOK' BY <1>1 DEF CreateAccount, MakeKey, AdminServed, AdminConf, BootstrapPaths
  <2>3. PlaceInv' /\ ReasonInv'
    BY <1>1 DEF ReasonInv, Probed, CreateAccount, MakeKey, AdminServed, AdminConf, BootstrapPaths
  <2>4. FilesInv' /\ PreflightRight'
    BY <1>1 DEF ConfOK, FilesInv, PreflightRight, Files, Confs, CreateAccount, MakeKey,
       AdminServed, AdminConf, BootstrapPaths
  <2>5. TallyInv'
    BY <1>1 DEF TallyInv, RowsOK, Unrun, CreateAccount, MakeKey, AdminServed, AdminConf,
       BootstrapPaths
  <2>6. CleanupInv' /\ ExitEarned'
    BY <1>1 DEF TallyInv, RowsOK, Unrun, CleanupInv, ExitEarned, CreateAccount, MakeKey,
       AdminServed, AdminConf, BootstrapPaths
  <2> QED BY <2>1, <2>2, <2>3, <2>4, <2>5, <2>6, Zenon DEF LocalInv, LocalTypeOK
<1>2. CASE RegenerateKey
  <2>1. ConfOK' /\ VerdictOK'
    BY <1>2 DEF ConfOK, RegenerateKey, MakeKey, AdminServed, AdminConf, BootstrapPaths
  <2>2. DataOK' BY <1>2 DEF RegenerateKey, MakeKey, AdminServed, AdminConf, BootstrapPaths
  <2>3. PlaceInv' /\ ReasonInv'
    BY <1>2 DEF ReasonInv, Probed, RegenerateKey, MakeKey, AdminServed, AdminConf, BootstrapPaths
  <2>4. FilesInv' /\ PreflightRight'
    BY <1>2 DEF ConfOK, FilesInv, PreflightRight, Files, Confs, RegenerateKey, MakeKey,
       AdminServed, AdminConf, BootstrapPaths
  <2>5. TallyInv'
    BY <1>2 DEF TallyInv, RowsOK, Unrun, RegenerateKey, MakeKey, AdminServed, AdminConf,
       BootstrapPaths
  <2>6. CleanupInv' /\ ExitEarned'
    BY <1>2 DEF TallyInv, RowsOK, Unrun, CleanupInv, ExitEarned, RegenerateKey, MakeKey,
       AdminServed, AdminConf, BootstrapPaths
  <2> QED BY <2>1, <2>2, <2>3, <2>4, <2>5, <2>6, Zenon DEF LocalInv, LocalTypeOK
<1>3. CASE ReadConf
  <2>1. LocalTypeOK'
    <3>1. ConfOK'
      <4>1. conf[Head(paths)] \in Confs /\ Head(paths) \in Files
        BY <1>3 DEF ConfOK, FilesInv, Files, ReadConf
      <4>2. [conf EXCEPT ![Head(paths)].kind = "torn"] \in [Files -> Confs]
        BY <4>1 DEF ConfOK, Confs
      <4> QED BY <1>3, <4>1, <4>2, Zenon DEF ConfOK, ReadConf
    <3>2. VerdictOK' BY <1>3 DEF ConfOK, ReadConf
    <3>3. DataOK' BY <1>3 DEF ConfOK, ReadConf
    <3> QED BY <3>1, <3>2, <3>3, Zenon
  <2>2. PlaceInv' BY <1>3 DEF ConfOK, ReadConf
  <2>3. ReasonInv' BY <1>3 DEF ConfOK, ReasonInv, Probed, ReadConf
  <2>4. FilesInv' BY <1>3 DEF ConfOK, FilesInv, Files, Confs, ReadConf
  <2>5. PreflightRight' BY <1>3 DEF ConfOK, FilesInv, PreflightRight, Files, Confs, ReadConf
  <2>6. TallyInv' BY <1>3 DEF ConfOK, TallyInv, RowsOK, Unrun, ReadConf
  <2>7. CleanupInv' BY <1>3 DEF ConfOK, TallyInv, CleanupInv, ReadConf
  <2>8. ExitEarned' BY <1>3 DEF ConfOK, TallyInv, RowsOK, CleanupInv, ExitEarned, Unrun, ReadConf
  <2> QED BY <2>1, <2>2, <2>3, <2>4, <2>5, <2>6, <2>7, <2>8, Zenon
<1>4. CASE WriteConf
  <2>1. LocalTypeOK'
    <3>1. ConfOK'
      <4>1. conf[Head(paths)] \in Confs /\ Head(paths) \in Files
        BY <1>4 DEF ConfOK, FilesInv, Files, WriteConf
      <4>2. [conf EXCEPT ![Head(paths)].kind = "whole", ![Head(paths)].key = newKey]
              \in [Files -> Confs]
        BY <4>1 DEF ConfOK, Confs
      <4> QED BY <1>4, <4>2, Zenon DEF ConfOK, WriteConf
    <3>2. VerdictOK' BY <1>4 DEF ConfOK, WriteConf
    <3>3. DataOK' BY <1>4 DEF ConfOK, WriteConf
    <3> QED BY <3>1, <3>2, <3>3, Zenon
  <2>2. PlaceInv' BY <1>4 DEF ConfOK, WriteConf
  <2>3. ReasonInv' BY <1>4 DEF ConfOK, ReasonInv, Probed, WriteConf
  <2>9. /\ newKey' = key' /\ key' = key /\ key # 0
        /\ \/ paths = <<"user">> /\ conf["root"].kind = "absent"
           \/ paths = <<"user", "root">> /\ conf["root"].kind # "absent" /\ conf["root"].admin
           \/ /\ paths = <<"root">> /\ conf["root"].kind # "absent" /\ conf["root"].admin
              /\ conf["user"].kind = "whole" /\ conf["user"].key = key
    BY <1>4 DEF FilesInv, WriteConf
  <2>10. ASSUME pc' \in {"read", "cases"}
         PROVE  /\ conf' = [conf EXCEPT ![Head(paths)] =
                             [conf[Head(paths)] EXCEPT !.kind = "whole", !.key = newKey]]
                /\ paths' = Tail(paths) /\ (pc' = "read" <=> paths' # <<>>)
    BY <1>4, <2>10 DEF WriteConf
  <2>11. ASSUME pc' \in {"read", "cases"}
         PROVE  \A f \in Files :
                  IF f = Head(paths)
                    THEN /\ conf'[f].kind = "whole" /\ conf'[f].key = key
                         /\ conf'[f].admin = conf[f].admin
                    ELSE conf'[f] = conf[f]
    <3>1. conf \in [Files -> Confs] /\ newKey = key
      BY <1>4 DEF ConfOK, FilesInv, WriteConf
    <3>2. ASSUME NEW f \in Files, f # Head(paths) PROVE conf'[f] = conf[f]
      BY <2>10, <2>11, <3>1, <3>2
    <3>3. ASSUME NEW f \in Files, f = Head(paths)
          PROVE  conf'[f].kind = "whole" /\ conf'[f].key = key /\ conf'[f].admin = conf[f].admin
      <4>1. conf'[f] = [conf[f] EXCEPT !.kind = "whole", !.key = key] BY <2>10, <2>11, <3>1, <3>3
      <4>2. conf[f] \in Confs BY <3>1
      <4> QED BY <4>1, <4>2 DEF Confs
    <3> QED BY <3>2, <3>3, Zenon
  <2>4. FilesInv'
    <3>1. pc' # "write" BY <1>4 DEF WriteConf
    <3>2. ASSUME pc' = "read" PROVE paths = <<"user", "root">>
      BY <2>9, <2>10, <3>2, HeadsAndTails, Zenon
    <3> QED BY <2>9, <2>10, <2>11, HeadsAndTails, <3>1, <3>2 DEF FilesInv, Files
  <2>5. PreflightRight'
    <3> SUFFICES ASSUME pc' = "cases" PROVE PreflightRight' BY DEF PreflightRight
    <3>1. paths' = Tail(paths) /\ paths' = <<>>
      BY <2>10
    <3>2. CASE paths = <<"user">>
      BY <2>9, <2>11, <3>2, HeadsAndTails DEF Files, PreflightRight
    <3>3. CASE paths = <<"root">>
      <4>1. conf'["root"].kind = "whole" /\ conf'["root"].key = key /\ conf'["root"].admin
            /\ conf'["user"] = conf["user"]
        BY <2>9, <2>11, <3>3, HeadsAndTails DEF Files
      <4>2. conf'["root"] \in Confs BY <2>1 DEF ConfOK, Files
      <4>3. conf'["root"] = [kind |-> "whole", key |-> key, admin |-> TRUE] BY <4>1, <4>2 DEF Confs
      <4> QED BY <2>9, <3>3, <4>1, <4>3 DEF PreflightRight
    <3> QED BY <2>9, <3>1, <3>2, <3>3, HeadsAndTails, Zenon
  <2>6. TallyInv' BY <1>4 DEF ConfOK, TallyInv, RowsOK, Unrun, WriteConf
  <2>7. CleanupInv' BY <1>4 DEF ConfOK, TallyInv, CleanupInv, WriteConf
  <2>8. ExitEarned' BY <1>4 DEF ConfOK, TallyInv, RowsOK, CleanupInv, ExitEarned, Unrun, WriteConf
  <2> QED BY <2>1, <2>2, <2>3, <2>4, <2>5, <2>6, <2>7, <2>8, Zenon
<1> QED BY <1>1, <1>2, <1>3, <1>4, Zenon

(* The cases and the cleanup after them.                                   *)
LEMMA CasesStep ==
  ASSUME LocalInv, RunCase \/ CasesEnd \/ WaitForQueue \/ DeleteTarget
  PROVE  LocalInv'
<1> USE DEF LocalInv, LocalTypeOK, VerdictOK, DataOK, PlaceInv, Bootstrapping, machine, record,
            given, counts, bootstrap, cleanup, reset, At, Goto, Fails, Exit
<1>1. CASE RunCase
  <2> PICK result \in {"passed", "failed"},
           row \in IF request.record THEN {"line", "none", "cut", "bare"} ELSE {"off"} :
        /\ passed' = passed + (IF result = "passed" THEN 1 ELSE 0)
        /\ anyFail' = (anyFail \/ Failed(result, row))
        /\ IF row = "off" THEN UNCHANGED <<record, readable>> ELSE AppendRecord(row)
    BY <1>1, Zenon DEF RunCase
  <2>9. pc = "cases" /\ ran' = ran + 1 /\ present' = Targets
        /\ UNCHANGED <<pc, command, request, skipped, misread, oldTail>>
    BY <1>1, Zenon DEF RunCase, given, At
  <2>1. LocalTypeOK'
    <3>1. ConfOK' BY <1>1 DEF ConfOK, RunCase, AppendRecord, Failed, Joined, Readable, RunRequests
    <3>2. VerdictOK'
      BY <1>1 DEF ConfOK, RunCase, AppendRecord, Failed, Joined, Readable, RunRequests
    <3>3. DataOK'
      <4>1. tail' \in {"line", "cut", "bare"} /\ corrupt' \in BOOLEAN
        BY DEF AppendRecord, LocalInv, LocalTypeOK, DataOK
      <4>2. readable' \in Nat /\ passed' \in Nat /\ ran' \in Nat
        BY <2>9 DEF AppendRecord
      <4> QED BY <1>1, <4>1, <4>2, Zenon DEF RunCase
    <3> QED BY <3>1, <3>2, <3>3, Zenon
  <2>2. PlaceInv' BY <1>1 DEF ConfOK, RunCase, AppendRecord, Failed, Joined, Readable, RunRequests
  <2>3. ReasonInv'
    BY <1>1 DEF ConfOK, ReasonInv, Probed, RunCase, AppendRecord, Failed, Joined, Readable, RunRequests
  <2>4. FilesInv'
    BY <1>1 DEF ConfOK, FilesInv, Files, Confs, RunCase, AppendRecord, Failed, Joined, Readable,
       RunRequests
  <2>5. PreflightRight'
    BY <1>1 DEF ConfOK, FilesInv, PreflightRight, Files, Confs, RunCase, AppendRecord, Failed,
       Joined, Readable, RunRequests
  <2>6. TallyInv'
    <3>1. command = "run" /\ skipped = {} /\ misread = {} /\ ran \in Nat
      BY <2>9 DEF TallyInv
    <3>2. ASSUME ~anyFail'
          PROVE  /\ ~request.unknown /\ passed' = ran'
                 /\ request.record => row = "line" /\ RowsOK(ran)
      BY <2>9, <3>1, <3>2 DEF Failed, TallyInv
    <3>3. ASSUME row = "line", RowsOK(ran) PROVE RowsOK(ran)'
      <4>1. ran = 0 \/ ran > 0 BY <3>1
      <4>2. /\ tail' = "line" /\ corrupt' = (corrupt \/ tail # "line")
            /\ readable' = readable + (IF tail = "line" THEN 1 ELSE 0)
        BY <3>3 DEF AppendRecord, Joined, Readable
      <4>3. readable \in Nat BY DEF LocalInv, LocalTypeOK, DataOK
      <4>4. CASE readable = ran /\ tail = "line"
        BY <2>9, <3>1, <4>2, <4>3, <4>4 DEF RowsOK
      <4>5. CASE readable = ran /\ ran = 0 /\ tail = oldTail /\ tail # "line"
        <5>1. corrupt' BY <4>2, <4>5, Zenon
        <5>2. readable' + 1 = ran' BY <2>9, <4>2, <4>5
        <5> QED BY <2>9, <4>2, <4>5, <5>1, <5>2 DEF RowsOK
      <4>6. CASE oldTail # "line" /\ readable + 1 = ran /\ corrupt /\ tail = "line"
        BY <2>9, <3>1, <4>2, <4>3, <4>6 DEF RowsOK
      <4> QED BY <3>3, <4>1, <4>4, <4>5, <4>6 DEF RowsOK
    <3> QED BY <2>9, <3>1, <3>2, <3>3 DEF TallyInv, Unrun
  <2>7. CleanupInv'
    BY <1>1 DEF ConfOK, TallyInv, CleanupInv, RunCase, AppendRecord, Failed, Joined, Readable,
       RunRequests
  <2>8. ExitEarned'
    BY <1>1 DEF ConfOK, TallyInv, RowsOK, CleanupInv, ExitEarned, Unrun, RunCase, AppendRecord,
       Failed, Joined, Readable, RunRequests
  <2> QED BY <2>1, <2>2, <2>3, <2>4, <2>5, <2>6, <2>7, <2>8, Zenon
<1>2. CASE CasesEnd
  <2>1. ConfOK' /\ VerdictOK' BY <1>2 DEF ConfOK, CasesEnd, CleanupTargets
  <2>2. DataOK' BY <1>2 DEF CasesEnd, CleanupTargets
  <2>3. PlaceInv' /\ ReasonInv' BY <1>2 DEF ReasonInv, Probed, CasesEnd, CleanupTargets
  <2>4. FilesInv' /\ PreflightRight'
    BY <1>2 DEF ConfOK, FilesInv, PreflightRight, Files, Confs, CasesEnd, CleanupTargets
  <2>5. TallyInv' BY <1>2 DEF TallyInv, RowsOK, Unrun, CasesEnd, CleanupTargets
  <2>6. CleanupInv' /\ ExitEarned'
    BY <1>2 DEF TallyInv, RowsOK, Unrun, CleanupInv, ExitEarned, CasesEnd, CleanupTargets
  <2> QED BY <2>1, <2>2, <2>3, <2>4, <2>5, <2>6, Zenon DEF LocalInv, LocalTypeOK
<1>3. CASE WaitForQueue
  <2>1. ConfOK' /\ VerdictOK' BY <1>3 DEF ConfOK, WaitForQueue, NextTarget, CleanupFails
  <2>2. DataOK' BY <1>3 DEF WaitForQueue, NextTarget, CleanupFails
  <2>3. PlaceInv' /\ ReasonInv' BY <1>3 DEF ReasonInv, Probed, WaitForQueue, NextTarget, CleanupFails
  <2>4. FilesInv' /\ PreflightRight'
    BY <1>3 DEF ConfOK, FilesInv, PreflightRight, Files, Confs, WaitForQueue, NextTarget,
       CleanupFails
  <2>5. TallyInv' BY <1>3 DEF TallyInv, RowsOK, Unrun, WaitForQueue, NextTarget, CleanupFails
  <2>6. CleanupInv' /\ ExitEarned'
    BY <1>3 DEF TallyInv, RowsOK, Unrun, CleanupInv, ExitEarned, WaitForQueue, NextTarget,
       CleanupFails
  <2> QED BY <2>1, <2>2, <2>3, <2>4, <2>5, <2>6, Zenon DEF LocalInv, LocalTypeOK
<1>4. CASE DeleteTarget
  <2>1. ConfOK' /\ VerdictOK' BY <1>4 DEF ConfOK, DeleteTarget, NextTarget, CleanupFails
  <2>2. DataOK' BY <1>4 DEF DeleteTarget, NextTarget, CleanupFails
  <2>3. PlaceInv' /\ ReasonInv' BY <1>4 DEF ReasonInv, Probed, DeleteTarget, NextTarget, CleanupFails
  <2>4. FilesInv' /\ PreflightRight'
    BY <1>4 DEF ConfOK, FilesInv, PreflightRight, Files, Confs, DeleteTarget, NextTarget,
       CleanupFails
  <2>5. TallyInv' BY <1>4 DEF TallyInv, RowsOK, Unrun, DeleteTarget, NextTarget, CleanupFails
  <2>6. CleanupInv' /\ ExitEarned'
    BY <1>4 DEF TallyInv, RowsOK, Unrun, CleanupInv, ExitEarned, DeleteTarget, NextTarget,
       CleanupFails
  <2> QED BY <2>1, <2>2, <2>3, <2>4, <2>5, <2>6, Zenon DEF LocalInv, LocalTypeOK
<1> QED BY <1>1, <1>2, <1>3, <1>4, Zenon

(* The removal of local state.                                             *)
LEMMA ResetStep ==
  ASSUME LocalInv, ProbeServer \/ RemoveTarget
  PROVE  LocalInv'
<1> USE DEF LocalInv, LocalTypeOK, VerdictOK, DataOK, PlaceInv, Bootstrapping, machine, record,
            given, counts, bootstrap, cleanup, reset, At, Goto, Fails, Exit
<1>1. CASE ProbeServer
  <2>1. ConfOK' /\ VerdictOK' BY <1>1 DEF ConfOK, ProbeServer, ProbePasses, Probed
  <2>2. DataOK' BY <1>1 DEF ProbeServer, ProbePasses, Probed
  <2>3. PlaceInv' /\ ReasonInv' BY <1>1 DEF ReasonInv, ProbeServer, ProbePasses, Probed
  <2>4. FilesInv' /\ PreflightRight'
    BY <1>1 DEF ConfOK, FilesInv, PreflightRight, Files, Confs, ProbeServer, ProbePasses, Probed
  <2>5. TallyInv' BY <1>1 DEF TallyInv, RowsOK, Unrun, ProbeServer, ProbePasses, Probed
  <2>6. CleanupInv' /\ ExitEarned'
    BY <1>1 DEF TallyInv, RowsOK, Unrun, CleanupInv, ExitEarned, ProbeServer, ProbePasses, Probed
  <2> QED BY <2>1, <2>2, <2>3, <2>4, <2>5, <2>6, Zenon DEF LocalInv, LocalTypeOK
<1>2. CASE RemoveTarget
  <2>1. ConfOK' /\ VerdictOK' BY <1>2 DEF ConfOK, RemoveTarget
  <2>2. DataOK' BY <1>2 DEF RemoveTarget
  <2>3. PlaceInv' /\ ReasonInv' BY <1>2 DEF ReasonInv, Probed, RemoveTarget
  <2>4. FilesInv' /\ PreflightRight'
    BY <1>2 DEF ConfOK, FilesInv, PreflightRight, Files, Confs, RemoveTarget
  <2>5. TallyInv' BY <1>2 DEF TallyInv, RowsOK, Unrun, RemoveTarget
  <2>6. CleanupInv' /\ ExitEarned'
    BY <1>2 DEF TallyInv, RowsOK, Unrun, CleanupInv, ExitEarned, RemoveTarget
  <2> QED BY <2>1, <2>2, <2>3, <2>4, <2>5, <2>6, Zenon DEF LocalInv, LocalTypeOK
<1> QED BY <1>1, <1>2, Zenon

LEMMA LocalStep == ASSUME LocalInv, [LocalNext]_localVars PROVE LocalInv'
BY MachineStep, StartStep, BootstrapStep, CasesStep, ResetStep, Zenon DEF LocalNext, Over

(* The inductive invariant of the local commands.                          *)
THEOREM LocalInvariant == LocalSpec => []LocalInv
<1>1. LocalInit => LocalInv BY LocalInitially
<1>2. LocalInv /\ [LocalNext]_localVars => LocalInv' BY LocalStep
<1> QED BY <1>1, <1>2, PTL DEF LocalSpec

(* Exit code 0 of a run is earned, however the writes of its rows and the  *)
(* requests of its cleanup end.                                            *)
THEOREM ExitsAreEarned == LocalSpec => []ExitEarned
<1>1. LocalInv => ExitEarned BY DEF LocalInv
<1> QED BY <1>1, LocalInvariant, PTL

(* Cases that begin after an accepted or repaired key have the key that    *)
(* the server accepts.                                                     *)
THEOREM PreflightsAreRight == LocalSpec => []PreflightRight
<1>1. LocalInv => PreflightRight BY DEF LocalInv
<1> QED BY <1>1, LocalInvariant, PTL

(* No command takes an account's key away without a reason.                *)
THEOREM KeysAreLostForReason == LocalSpec => KeyLostForReason
<1> DEFINE Reason ==
      key # 0 /\ key' # key =>
        \/ command = "bootstrap"
        \/ command = "run" /\ (KeyRejected \/ preflight = "misread")
        \/ command = "reset" /\ (Probed => server = "down" \/ late)
<1>1. ASSUME LocalInv, LocalNext PROVE Reason
  <2>1. CASE CreateAccount \/ RegenerateKey
    BY <1>1, <2>1 DEF CreateAccount, RegenerateKey, MakeKey, AdminServed, At, machine, KeyRejected,
       LocalInv, PlaceInv, ReasonInv, Bootstrapping
  <2>2. CASE RemoveTarget
    BY <1>1, <2>2 DEF RemoveTarget, At, LocalInv, PlaceInv, ReasonInv, Probed
  <2>3. CASE ~(CreateAccount \/ RegenerateKey \/ RemoveTarget)
    <3>1. key' = key
      BY <1>1, <2>3, Zenon DEF LocalNext, ServerStarts, ServerBreaks, Ends, Invoke, OpenRecord,
         Preflight, ReadConf, WriteConf, RunCase, CasesEnd, WaitForQueue, DeleteTarget,
         ProbeServer, Over, localVars, machine
    <3> QED BY <3>1
  <2> QED BY <2>1, <2>2, <2>3
<1>2. LocalInv /\ [LocalNext]_localVars => [Reason]_localVars BY <1>1
<1> QED BY <1>2, LocalInvariant, PTL DEF LocalSpec, KeyLostForReason
===============================================================================
