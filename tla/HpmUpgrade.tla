------------------------------ MODULE HpmUpgrade ------------------------------
(***************************************************************************)
(* The firmware upgrade of "ipmiutil hpm upgrade" (util/ihpm.c), PICMG      *)
(* HPM.1: the stages of HpmfwupgUpgrade, the loop that uploads a component   *)
(* block by block, and HpmfwupgSendCmd, which repeats commands and, over a    *)
(* LAN, makes up answers to those that got none.                               *)
(*                                                                         *)
(* The BMC (external) follows HPM.1: it knows a repeated block by its number  *)
(* and answers it again, may refuse a block as too long, may ask for sections *)
(* of the image in an order of its own, and may do any command in the          *)
(* background ("in progress"). A byte of the image is its position.             *)
(***************************************************************************)
EXTENDS Naturals, Sequences, SequencesExt

CONSTANTS
    Setups,         \* the images, targets, options and faults of an instance
    BlockNumbers,   \* a block number is a byte: 256 in the code
    RetryCountMax   \* RETRY_COUNT_MAX

VARIABLES
    setup,      \* what is fixed at the start: a member of Setups
    stage,      \* the command that is sent next, or the stage of HpmfwupgUpgrade
    waiting,    \* HpmfwupgWaitLongDurationCmd: "no", or where its loop is
    record,     \* the action record of the image that is worked on
    mask,       \* compUpdateMask
    comp,       \* pFwupgCtx->componentId
    up,         \* HpmFwupgActionUploadFirmware: its counters
    isValidSize,\* static: the length of blocks is not reduced any more
    errorCount, \* static: retryable completion codes since the last 0x00
    rc,         \* "ok" or "error"
    assumed,    \* history: a result was taken that no answer gave
    bmc,        \* the target
    faults      \* lost or refused commands that may still occur

ua == <<stage, waiting, record, mask, comp, up, isValidSize, errorCount, rc, assumed>>
vars == <<setup, ua, bmc, faults>>

NoSection == [off |-> 0, len |-> 0]
NoComponent == 8
Idle == [pos |-> 0, end |-> 0, len |-> 0, number |-> 0, total |-> 0]

Init ==
    /\ setup \in Setups
    /\ stage = "begin" /\ waiting = "no" /\ rc = "ok" /\ assumed = FALSE
    /\ record = 1 /\ mask = {} /\ comp = 0 /\ up = Idle
    /\ isValidSize = FALSE /\ errorCount = 0
    /\ bmc = [work |-> "none", result |-> "ok", comp |-> NoComponent, stored |-> <<>>, asked |-> <<>>,
              last |-> BlockNumbers, next |-> NoSection, section |-> 0, finished |-> {}, active |-> FALSE]
    /\ faults = setup.faults

Action == setup.image[record]

-----------------------------------------------------------------------------
(* The BMC.                                                                *)

Says(cc, b) == [cc |-> cc, bmc |-> b]
Span(from, n) == [i \in 1..n |-> from + i - 1]

\* What a command does to the BMC, once it is done.
Effect(cmd) ==
    CASE cmd = "initiate" ->
           [bmc EXCEPT !.comp = comp, !.stored = <<>>, !.last = BlockNumbers, !.section = 0, !.next = NoSection,
                       !.asked = IF setup.sections = <<>> THEN Span(0, Action.len) ELSE <<>>]
      [] cmd = "finish" -> [bmc EXCEPT !.finished = @ \cup {comp}]
      [] cmd = "activate" -> [bmc EXCEPT !.active = TRUE]
      [] cmd = "abort" -> [bmc EXCEPT !.comp = NoComponent]
      [] cmd = "manualRollback" -> [bmc EXCEPT !.active = FALSE]
      [] OTHER -> bmc

\* A command is done at once, or taken up, or refused.
Does(cmd) ==
    {Says("ok", [Effect(cmd) EXCEPT !.result = "ok"]), Says("refused", [bmc EXCEPT !.result = "refused"])}
    \cup IF cmd \in setup.long THEN {Says("progress", [bmc EXCEPT !.work = cmd])} ELSE {}

\* The section the BMC asks for with the block that completes what it asked for.
Section(b) ==
    IF Len(b.stored) >= Len(b.asked) /\ b.section < Len(setup.sections)
        THEN setup.sections[b.section + 1] ELSE NoSection

NextNumber == IF bmc.last = BlockNumbers THEN 0 ELSE (bmc.last + 1) % BlockNumbers

\* The next block is stored.
Store(count) ==
    LET b == [bmc EXCEPT !.stored = @ \o Span(up.pos, count), !.last = up.number, !.next = NoSection]
        s == Section(b)
        first == IF b.asked = <<>> THEN b.stored ELSE b.asked
    IN IF s = NoSection THEN b
       ELSE [b EXCEPT !.section = @ + 1, !.next = s, !.asked = first \o Span(s.off, s.len)]

\* A block is too long, or the last one again, or the next one, or out of order.
TakesBlock(count) ==
    CASE count > setup.max -> {Says("length", bmc)}
      [] count <= setup.max /\ up.number = bmc.last /\ bmc.comp = comp -> {Says("ok", bmc)}
      [] count <= setup.max /\ up.number = NextNumber /\ bmc.comp = comp ->
           {Says("ok", Store(count))}
           \cup IF "block" \in setup.long THEN {Says("progress", [Store(count) EXCEPT !.work = "block"])} ELSE {}
      [] OTHER -> {Says("refused", bmc)}

Replies(cmd, count) ==
    CASE cmd = "status" -> {Says(IF bmc.work # "none" THEN "progress" ELSE bmc.result, bmc)}
      [] cmd # "status" /\ bmc.work # "none" -> {Says("busy", bmc)}
      [] cmd = "block" /\ bmc.work = "none" -> TakesBlock(count)
      [] cmd = "finish" /\ bmc.work = "none" ->
           IF bmc.comp = comp /\ up.total = Len(bmc.stored) THEN Does("finish") ELSE {Says("refused", [bmc EXCEPT !.result = "refused"])}
      [] cmd = "activate" /\ bmc.work = "none" /\ (bmc.active \/ bmc.finished = {}) -> {Says("completed", bmc)}
      [] cmd \in {"selftest", "rollback"} /\ bmc.work = "none" ->
           {Says(cc, bmc) : cc \in {"ok", "failed", "refused"} \cup (IF cmd \in setup.long THEN {"progress"} ELSE {})}
      [] OTHER -> Does(cmd)

\* Work in the background comes to its end.
Complete ==
    /\ bmc.work # "none"
    /\ \E result \in {"ok", "refused"} :
           bmc' = [(IF result = "ok" THEN Effect(bmc.work) ELSE bmc) EXCEPT !.work = "none", !.result = result]
    /\ UNCHANGED <<setup, ua, faults>>

-----------------------------------------------------------------------------
(* The stages.                                                             *)

Goto(s) == stage' = s /\ waiting' = "no"
Fail == Goto("done") /\ rc' = "error"

\* ipmi_hpmfwupg_main: an upgrade (or, with "check", the comparison of versions
\* alone), or a single one of its commands.
Begin ==
    /\ stage = "begin"
    /\ Goto(IF setup.verb \in {"upgrade", "check"} THEN "check" ELSE setup.verb)
    /\ UNCHANGED <<setup, record, mask, comp, up, isValidSize, errorCount, rc, assumed, bmc, faults>>

\* HpmfwupgTargetCheck: every query of it may fail and end the run; only the
\* version to roll back to may be missing, and is then 0.
CheckTarget ==
    /\ stage = "check"
    /\ \/ Goto("image") /\ UNCHANGED rc
       \/ Fail
    /\ UNCHANGED <<setup, record, mask, comp, up, isValidSize, errorCount, assumed, bmc, faults>>

\* HpmfwupgGetBufferFromFile and HpmfwupgValidateImageIntegrity: the file may
\* be missing, or its MD5 sum, signature, version or checksum wrong.
ReadImage ==
    /\ stage = "image"
    /\ \/ Goto("preparation") /\ UNCHANGED rc
       \/ Fail
    /\ UNCHANGED <<setup, record, mask, comp, up, isValidSize, errorCount, assumed, bmc, faults>>

\* HpmfwupgPreparationStage. With "all" or
\* "component" the user may overrule that the image is for another product, or
\* too new; and the answer that services may be affected replaces the results of
\* the two checks before that question.
Prepared ==
    /\ setup.matches \/ setup.option # "check" \/ setup.verb = "check"
    /\ setup.allowed \/ setup.affected \/ setup.verb = "check"

PreparationStage ==
    /\ stage = "preparation"
    /\ \/ Prepared /\ Goto("precheck") /\ UNCHANGED rc
       \/ Fail
    /\ UNCHANGED <<setup, record, mask, comp, up, isValidSize, errorCount, assumed, bmc, faults>>

\* The decision for one component: "all", the one given, or by its versions.
SameVersion(a) ==
    /\ a.version = setup.current[a.comp]
    /\ a.comp \in DOMAIN setup.backup => a.version = setup.backup[a.comp]

SkipUpgrade(a) ==
    CASE setup.option = "all" -> FALSE
      [] setup.option = "component" -> a.comp # setup.component
      [] OTHER -> SameVersion(a)

Uploads == {i \in DOMAIN setup.image : setup.image[i].type = "upload"}

\* HpmfwupgPreUpgradeCheck: it fails when the component given is not among
\* those to be prepared.
PreUpgradeCheck ==
    /\ stage = "precheck"
    /\ IF \E i \in DOMAIN setup.image :
              setup.image[i].type = "prepare" /\ setup.option = "component"
                /\ setup.component \notin setup.image[i].comps
         THEN Fail /\ UNCHANGED <<mask, comp>>
         ELSE /\ mask' = {setup.image[i].comp : i \in {j \in Uploads : ~SkipUpgrade(setup.image[j])}}
              /\ Goto(IF setup.verb = "check" THEN "done" ELSE "action") /\ UNCHANGED <<rc, comp>>
    /\ UNCHANGED <<setup, record, up, isValidSize, errorCount, assumed, bmc, faults>>

\* The buffer: what is sent in a block at most.
BeginUpload(a) == [pos |-> 0, end |-> a.len, len |-> setup.buffer, number |-> 0, total |-> 0]

\* HpmfwupgUpgradeStage: the next action record, or what follows the last one.
NextAction ==
    /\ stage = "action"
    /\ IF record > Len(setup.image)
         THEN Goto(IF setup.activate THEN "activate" ELSE "done") /\ UNCHANGED <<record, comp, up, rc>>
         ELSE \/ Action.type = "backup" /\ Goto("backup") /\ UNCHANGED <<record, comp, up, rc>>
              \/ /\ Action.type = "prepare"
                 /\ IF ~(mask \subseteq setup.prepares) THEN Fail /\ UNCHANGED record
                    ELSE IF mask = {} THEN Goto("action") /\ record' = record + 1 /\ UNCHANGED rc
                    ELSE Goto("prepare") /\ UNCHANGED <<record, rc>>
                 /\ UNCHANGED <<comp, up>>
              \/ /\ Action.type = "upload"
                 /\ comp' = Action.comp
                 /\ IF Action.comp \in mask
                      THEN Goto("initiate") /\ up' = BeginUpload(Action) /\ UNCHANGED record
                      ELSE Goto("action") /\ record' = record + 1 /\ UNCHANGED up
                 /\ UNCHANGED rc
    /\ UNCHANGED <<setup, mask, isValidSize, errorCount, assumed, bmc, faults>>

\* After a command that succeeded.
Proceed ==
    CASE stage \in {"backup", "prepare", "finish"} -> Goto("action") /\ record' = record + 1 /\ UNCHANGED rc
      [] stage = "initiate" -> Goto(IF up.pos < up.end THEN "block" ELSE "finish") /\ UNCHANGED <<record, rc>>
      [] stage = "block" -> Goto(IF up'.pos < up'.end THEN "block" ELSE "finish") /\ UNCHANGED <<record, rc>>
      [] stage = "activate" -> Goto(IF setup.selftest /\ setup.verb = "upgrade" THEN "selftest" ELSE "done") /\ UNCHANGED <<record, rc>>
      [] OTHER -> Goto("done") /\ rc' = "ok" /\ UNCHANGED record

\* HpmfwupgActivationStage: a failure is followed by a look at the rollback
\* status, where the target rolls back by itself and the component that was
\* handled last has a backup; the answer to that replaces the failure.
Failed ==
    /\ IF stage \in {"activate", "selftest"} /\ setup.verb = "upgrade" /\ setup.autoRollback /\ comp \in DOMAIN setup.backup
         THEN Goto("rollback") /\ rc' = "error"
         ELSE Fail
    /\ UNCHANGED record

-----------------------------------------------------------------------------
(* HpmFwupgActionUploadFirmware: the loop.                                 *)

Lower(a, b) == IF a <= b THEN a ELSE b

Count == Lower(up.len, up.end - up.pos)

\* Mutant: the section starts at the beginning of the image.
JumpKeepsBase(s) == [up EXCEPT !.pos = 0, !.end = s.len]
Jump(s) == [up EXCEPT !.pos = s.off, !.end = s.off + s.len]

Step(s) == IF s.off # 0 THEN Jump(s) ELSE [up EXCEPT !.pos = @ + Count]

\* A block was taken: the counters move on, or to the section asked for; a
\* section that is longer than the image is an error.
BlockTaken(s) ==
    /\ up' = [Step(s) EXCEPT !.total = @ + Count, !.number = (@ + 1) % BlockNumbers]
    /\ IF up'.end - up'.pos > Action.len THEN Failed ELSE Proceed

\* The block was too long, or is said to have been: a shorter one, with the
\* same number. (bufLength is a byte.)
Shrink == [up EXCEPT !.len = (@ + 256 - setup.step) % 256]

TooLong == up' = Shrink /\ UNCHANGED <<stage, waiting, record, rc>>

-----------------------------------------------------------------------------
(* The commands, and their handlers.                                       *)

Stay == UNCHANGED <<stage, waiting, record, up, rc>>

\* A command is in progress: HpmfwupgWaitLongDurationCmd. Only the reply of a
\* block moves the counters.
InProgress(s) ==
    /\ waiting' = "first" /\ UNCHANGED <<stage, record, rc>>
    /\ IF stage = "block"
         THEN up' = [Step(s) EXCEPT !.total = @ + Count, !.number = (@ + 1) % BlockNumbers]
         ELSE UNCHANGED up

\* The handlers of the upgrade commands, by completion code. The self test and
\* the rollback status are asked again while they are in progress, until their
\* timeouts; 0xD5 to Activate counts as success.
Handle(cc, s) ==
    \/ cc \in {"ok", "completed"} /\ stage = "block" /\ BlockTaken(s)
    \/ cc = "completed" /\ stage = "activate" /\ Proceed /\ UNCHANGED up
    \/ cc = "ok" /\ stage # "block" /\ Proceed /\ UNCHANGED up
    \/ cc = "progress" /\ stage \notin {"selftest", "rollback", "manualRollback"} /\ InProgress(s)
    \/ cc = "progress" /\ stage = "manualRollback" /\ Goto("rollback") /\ UNCHANGED <<record, up, rc>>
    \/ cc = "progress" /\ stage \in {"selftest", "rollback"} /\ (Stay \/ (Failed /\ UNCHANGED up))
    \/ cc = "length" /\ stage = "block" /\ TooLong
    \/ cc = "retryable" /\ Stay
    \/ cc \in {"refused", "failed", "none"} /\ Failed /\ UNCHANGED up

\* The handler of Get Upgrade Status: an error is one only if verbose is on;
\* otherwise the last answer counts again, and before the first one whatever
\* the variable held: the end of the wait is then a guess.
Waited(result) ==
    IF result = "ok"
      THEN IF stage = "block"
             THEN up' = up /\ IF up.end - up.pos > Action.len THEN Failed ELSE Proceed
             ELSE Proceed /\ UNCHANGED up
      ELSE Failed /\ UNCHANGED up

PollAgain == waiting' = "pause" /\ UNCHANGED <<stage, record, up, rc>>

\* Mutant: any code but 0x00 is taken for "in progress".
WaitsOn(cc) ==
    /\ \/ cc # "ok" /\ PollAgain
       \/ cc = "ok" /\ Waited("ok")
    /\ UNCHANGED assumed

Status(cc) ==
    \/ cc \in {"progress", "retryable"} /\ PollAgain /\ UNCHANGED assumed
    \/ cc = "ok" /\ Waited("ok") /\ UNCHANGED assumed
    \/ cc = "refused" /\ Waited("error") /\ UNCHANGED assumed
    \/ /\ cc = "none"
       /\ \/ setup.verbose /\ Waited("error") /\ UNCHANGED assumed
          \/ ~setup.verbose /\ waiting = "poll" /\ PollAgain /\ UNCHANGED assumed
          \/ ~setup.verbose /\ waiting = "first" /\ PollAgain /\ UNCHANGED assumed
          \/ ~setup.verbose /\ waiting = "first" /\ Waited("error") /\ UNCHANGED assumed
          \/ ~setup.verbose /\ waiting = "first" /\ Waited("ok") /\ assumed' = TRUE

Command == IF waiting \in {"first", "poll"} THEN "status" ELSE stage

Sending == stage \in {"backup", "prepare", "initiate", "block", "finish", "activate", "selftest",
                       "rollback", "manualRollback", "abort"}
             /\ waiting # "pause"

Dispatch(cc, s) ==
    IF Command = "status" THEN Status(cc) ELSE Handle(cc, s) /\ UNCHANGED assumed

\* The first answer to a block, even one that was made up, fixes the length.
Sized(cc) == isValidSize' = (isValidSize \/ Command = "block")

\* HpmfwupgSendCmd: the command is answered.
Answered ==
    /\ Sending
    /\ \E r \in Replies(Command, Count) :
         /\ bmc' = r.bmc
         /\ IF r.cc = "busy"
              THEN \/ Stay /\ UNCHANGED <<isValidSize, errorCount, assumed>>
                   \/ Dispatch("refused", NoSection) /\ UNCHANGED <<isValidSize, errorCount>>
              ELSE /\ Dispatch(r.cc, IF Command = "block" THEN r.bmc.next ELSE NoSection)
                   /\ Sized(r.cc)
                   /\ errorCount' = IF r.cc = "ok" THEN 0 ELSE errorCount
    /\ UNCHANGED <<setup, mask, comp, faults>>

\* It, or its answer, is lost. Over a LAN a block is then taken for too long,
\* once, an Activate or rollback for in progress, and a status is asked again in a session
\* of its own; everything else is repeated until inaccessTimeout.
Lost ==
    /\ Sending /\ faults > 0 /\ faults' = faults - 1
    /\ \E r \in Replies(Command, Count) : bmc' \in {bmc, r.bmc}
    /\ IF setup.remote /\ Command = "block" /\ ~isValidSize
         THEN Dispatch("length", NoSection) /\ isValidSize' = TRUE
       ELSE IF setup.remote /\ Command \in {"activate", "manualRollback"}
         THEN Handle("progress", NoSection) /\ assumed' = TRUE /\ UNCHANGED isValidSize
       ELSE /\ \/ Stay /\ UNCHANGED assumed
               \/ Dispatch("none", NoSection)
            /\ UNCHANGED isValidSize
    /\ UNCHANGED <<setup, mask, comp, errorCount>>

\* A completion code of 0x82 or 0x83 that says nothing of the command: a block
\* and a status are sent again, at most RetryCountMax times without a success.
Hiccup ==
    /\ Sending /\ faults > 0 /\ faults' = faults - 1
    /\ IF Command \in {"block", "status", "selftest", "rollback"} /\ errorCount < RetryCountMax
         THEN Dispatch(IF Command \in {"selftest", "rollback"} THEN "progress" ELSE "retryable", NoSection)
                /\ errorCount' = errorCount + 1
         ELSE Dispatch(IF Command = "status" THEN "none" ELSE "refused", NoSection) /\ UNCHANGED errorCount
    /\ Sized("refused")
    /\ UNCHANGED <<setup, mask, comp, bmc>>

\* The second between two polls. timeoutSec2 is not read again: nothing of this
\* step or the next depends on how late it is, and no timeout ends the loop.
Sleep ==
    /\ waiting = "pause" /\ waiting' = "poll"
    /\ UNCHANGED <<setup, stage, record, mask, comp, up, isValidSize, errorCount, rc, assumed, bmc, faults>>

Agent ==
    \/ Begin \/ CheckTarget \/ ReadImage \/ PreparationStage \/ PreUpgradeCheck \/ NextAction
    \/ Answered \/ Lost \/ Hiccup \/ Sleep

Next == Agent \/ Complete

\* The agent runs; and the target completes what it has taken up.
Spec == Init /\ [][Next]_vars /\ WF_vars(Agent) /\ WF_vars(Complete)

-----------------------------------------------------------------------------
(* Properties.                                                             *)

\* The state has the types of the agent's variables, the length of blocks
\* never grows, and errorCount is bounded by the retry limit.
TypeOK ==
    /\ setup \in Setups
    /\ stage \in {"begin", "check", "image", "preparation", "precheck", "action", "backup", "prepare", "initiate",
                  "block", "finish", "activate", "selftest", "rollback", "manualRollback", "abort", "done"}
    /\ waiting \in {"no", "first", "pause", "poll"}
    /\ {isValidSize, assumed} \subseteq BOOLEAN
    /\ record \in 1..(Len(setup.image) + 1)
    /\ mask \subseteq 0..7 /\ comp \in 0..7
    /\ up.number \in 0..(BlockNumbers - 1) /\ up.len \in 0..setup.buffer
    /\ errorCount \in 0..RetryCountMax
    /\ rc \in {"ok", "error"}

\* What the target has accepted as a whole component is what it asked for,
\* byte by byte: through repeated blocks, reduced lengths, sections in an order
\* of the target's, and numbers that start over. It rests on the length that
\* Finish states, which is what was sent (HpmFwupgActionUploadFirmware). (And
\* the variables have their types.)
FinishedIsWhole == TypeOK /\ (bmc.comp \in bmc.finished => bmc.stored = bmc.asked)

\* The components that the user asked for ("help" of ipmi_hpmfwupg_main): all,
\* the one given, or those whose version, or whose backup's, is another one.
Wanted ==
    {setup.image[i].comp : i \in {j \in Uploads :
        \/ setup.option = "all"
        \/ setup.option = "component" /\ setup.image[j].comp = setup.component
        \/ setup.option = "check" /\ \E v \in {setup.current[setup.image[j].comp]} \cup
               {setup.backup[c] : c \in DOMAIN setup.backup \cap {setup.image[j].comp}} :
                   v # setup.image[j].version}}

\* Only these are written; new firmware is activated only when the upload of
\* every component to be updated was accepted (HpmfwupgUpgradeStage); and
\* "Firmware upgrade procedure successful" means that all of them are written,
\* and active where they were to be. Except where a result was assumed, or the
\* target rolls back by itself: then the answer to the query of that takes the
\* place of the failure (HpmfwupgUpgrade).
UpgradedAsAsked ==
    /\ bmc.finished \subseteq Wanted
    /\ bmc.active => assumed \/ mask \subseteq bmc.finished
    /\ stage = "done" /\ rc = "ok" /\ ~assumed =>
           /\ setup.verb = "upgrade" => Wanted \subseteq bmc.finished
           /\ setup.activate /\ bmc.finished # {} => bmc.active \/ setup.autoRollback

\* Liveness: where the target completes whatever it takes up, the upgrade comes
\* to its end, through retries, reduced blocks and polls.
Ends == <>(stage = "done")

=============================================================================
