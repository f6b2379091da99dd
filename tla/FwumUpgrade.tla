----------------------------- MODULE FwumUpgrade -----------------------------
(***************************************************************************)
(* "ipmiutil fwum" (util/ifwum.c): the download of a firmware image to a      *)
(* Kontron controller, block by block, the upgrade, the rollback and the        *)
(* queries. KfwumMain is a row of commands, each of which runs if those before  *)
(* it succeeded; KfwumUploadFirmware cuts the image into blocks, and              *)
(* KfwumSaveFirmwareImage repeats and shortens a block.                            *)
(*                                                                         *)
(* The controller (external) stores blocks by their address or, by the newer  *)
(* protocol, one after the other, and then knows the last one again by its      *)
(* number. A byte of the image is its position.                                  *)
(***************************************************************************)
EXTENDS Integers, Sequences

CONSTANTS
    Setups,           \* tasks, files, controllers and faults of an instance
    BufferSize,       \* KFWUM_SMALL_BUFFER, KFWUM_BIG_BUFFER
    Overhead,         \* KFWUM_OLD_CMD_OVERHEAD and KFWUM_NEW_CMD_OVERHEAD
    PageSize,         \* KFWUM_PAGE_SIZE
    NoResponseLimit,  \* FWUM_SAVE_FIRMWARE_NO_RESPONSE_LIMIT
    MaxUploadRetry,   \* FWUM_MAX_UPLOAD_RETRY
    ByteValues,       \* a length or a number is a byte: 256 in the code
    TraceChunks       \* TRACE_LOG_CHUNK_COUNT

VARIABLES
    setup,   \* what is fixed at the start: a member of Setups
    pc,      \* the command that is sent next
    counter, \* the memory bank or the chunk of the trace log that is asked for
    save,    \* static: saveFirmwareInfo
    blk,     \* the variables of KfwumUploadFirmware and KfwumSaveFirmwareImage
    rc,      \* the status that KfwumMain returns
    bmc,     \* the controller
    spoiled, \* history: a block was stored that is then sent again as another
    faults   \* lost or refused commands that may still occur

vars == <<setup, pc, counter, save, blk, rc, bmc, spoiled, faults>>

None == [type |-> "address", buffer |-> 0, overhead |-> 0]
NoBlock == [address |-> 0, last |-> 0, seq |-> 0, retry |-> MaxUploadRetry,
            asked |-> 0, len |-> 0, again |-> FALSE, silent |-> 0]

Init ==
    /\ setup \in Setups
    /\ pc = "begin" /\ counter = 0 /\ rc = "ok" /\ spoiled = FALSE
    /\ save = None /\ blk = NoBlock
    /\ bmc = [image |-> <<>>, last |-> ByteValues, holds |-> setup.holds, started |-> "none", rolledBack |-> FALSE]
    /\ faults = setup.faults

Image == [i \in 1..setup.total |-> i]
Downloads == setup.task \in {"download", "upgrade"}
Goto(c) == pc' = c
Fail == pc' = "done" /\ rc' = "error"

-----------------------------------------------------------------------------
(* The controller.                                                         *)

\* A block is stored at its address, or behind the one before it.
Stored(b) ==
    LET at == IF save.type = "address" THEN b.address ELSE Len(bmc.image)
        end == IF at + b.len > Len(bmc.image) THEN at + b.len ELSE Len(bmc.image)
    IN [bmc EXCEPT !.image = [i \in 1..end |-> CASE i > at /\ i <= at + b.len -> b.address + i - at
                                                  [] i <= Len(bmc.image) /\ ~(i > at /\ i <= at + b.len) -> bmc.image[i]
                                                  [] OTHER -> 0],
                   !.last = b.seq]

\* What a command does. An image is finished if it is the one that was
\* announced, by its length and its sum; an upgrade needs an image.
Does(cmd) ==
    CASE cmd = "start" -> [bmc EXCEPT !.image = <<>>, !.last = ByteValues, !.holds = "none"]
      [] cmd = "finish" /\ bmc.image = Image -> [bmc EXCEPT !.holds = "file"]
      [] cmd = "upgrade" -> [bmc EXCEPT !.started = bmc.holds]
      [] cmd = "rollback" -> [bmc EXCEPT !.rolledBack = TRUE]
      [] OTHER -> bmc

Refuses(cmd) ==
    \/ cmd = "finish" /\ bmc.image # Image
    \/ cmd = "upgrade" /\ bmc.holds = "none"

-----------------------------------------------------------------------------
(* The commands.                                                           *)

\* Where KfwumMain goes on from a command that succeeded.
After(cmd) ==
    CASE cmd = "device" -> IF Downloads /\ ~setup.matches THEN "done" ELSE "info"
      [] cmd = "info" -> IF Downloads THEN "start" ELSE "done"
      [] cmd = "start" -> "block"
      [] cmd = "finish" -> "status"
      [] cmd = "status" -> "bank"
      [] cmd = "bank" /\ counter + 1 < setup.banks -> "bank"
      [] cmd = "bank" /\ counter + 1 >= setup.banks -> IF setup.task = "upgrade" THEN "upgrade" ELSE "done"
      [] cmd = "trace" /\ counter + 1 < TraceChunks -> "trace"
      [] OTHER -> "done"

\* ipmi_fwum_main and the reading of the file: a file that cannot be opened, is
\* empty or too short for the table of its version ends the task.
Begin ==
    /\ pc = "begin"
    /\ IF Downloads /\ ~setup.file THEN Fail
       ELSE /\ UNCHANGED rc
            /\ Goto(CASE setup.task \in {"info", "download", "upgrade"} -> "device"
                      [] setup.task = "start" -> "upgrade"
                      [] OTHER -> setup.task)
    /\ UNCHANGED <<setup, counter, save, blk, bmc, spoiled, faults>>

\* KfwumGetInfo: how the controller wants its blocks.
Info == [type |-> setup.protocol, buffer |-> BufferSize, overhead |-> Overhead[setup.protocol]]

\* KfwumUploadFirmware: a block is cut off at the end of the image or of a page.
BlockLength(s, address) ==
    LET size == (s.buffer - s.overhead) % ByteValues
    IN IF address + size > setup.total THEN setup.total - address
       ELSE IF (address % PageSize) + size > PageSize THEN PageSize - (address % PageSize)
       ELSE size

Block(s, b, address) ==
    [b EXCEPT !.address = address, !.asked = BlockLength(s, address), !.len = BlockLength(s, address),
              !.again = FALSE, !.silent = 0]

Succeeds(cmd) ==
    /\ bmc' = Does(cmd)
    /\ Goto(After(cmd))
    /\ counter' = IF After(cmd) = cmd THEN counter + 1 ELSE 0
    /\ save' = IF cmd \in {"info", "status"} THEN Info ELSE save
    /\ blk' = IF cmd = "start" THEN Block(save, NoBlock, 0) ELSE blk
    /\ rc' = IF cmd = "device" /\ After(cmd) = "done" THEN "error" ELSE "ok"

\* Mutant: the status of the Finish is not looked at.
FailsUnlessFinish(cmd) ==
    IF cmd = "finish" THEN Goto("status") /\ UNCHANGED rc ELSE Fail

\* The status of KfwumGetInfo is not looked at before a download, nor that of
\* KfwumGetDeviceInfo by the task "info".
Fails(cmd) ==
    IF \/ cmd = "info" /\ Downloads
       \/ cmd = "device" /\ ~Downloads
    THEN Goto(After(cmd)) /\ UNCHANGED rc
    ELSE Fail

\* A command is done and answered; or refused, as busy (which repeats the
\* Finish) or else; or it, or its answer, is lost.
Commands == {"device", "info", "start", "finish", "status", "bank", "upgrade", "rollback", "trace"}

Command(cmd) ==
    /\ pc = cmd
    /\ \/ ~Refuses(cmd) /\ Succeeds(cmd) /\ UNCHANGED faults
       \/ /\ \/ Refuses(cmd) /\ UNCHANGED <<bmc, faults>>
             \/ faults > 0 /\ faults' = faults - 1 /\ bmc' \in {bmc, Does(cmd)}
          /\ Fails(cmd)
          /\ UNCHANGED <<counter, save, blk>>
    /\ UNCHANGED <<setup, spoiled>>

Busy ==
    /\ pc = "finish" /\ faults > 0
    /\ faults' = faults - 1
    /\ UNCHANGED <<setup, pc, counter, save, blk, rc, bmc, spoiled>>

-----------------------------------------------------------------------------
(* The blocks.                                                             *)

\* A block was saved, with the length it has come to: later ones get no longer.
Saved(b) ==
    IF b.len = 0 THEN Fail /\ UNCHANGED <<save, blk>>
    ELSE LET s == [save EXCEPT !.buffer = (@ - (b.asked - b.len)) % ByteValues]
             moved == [b EXCEPT !.retry = MaxUploadRetry, !.last = b.address, !.seq = (b.seq + 1) % ByteValues]
             next == b.address + b.len
         IN /\ save' = s /\ UNCHANGED rc
            /\ IF next < setup.total THEN blk' = Block(s, moved, next) /\ UNCHANGED pc
               ELSE blk' = NoBlock /\ Goto("finish")

\* A block failed: the upload goes back to the block before it, MaxUploadRetry
\* times in a row; the number moves on.
GoBack(b) ==
    IF b.retry = 0 THEN Fail /\ UNCHANGED <<save, blk>>
    ELSE /\ blk' = Block(save, [b EXCEPT !.retry = @ - 1, !.seq = (@ + 1) % ByteValues], b.last)
         /\ UNCHANGED <<pc, rc, save>>

Repeat(b) == blk' = b /\ UNCHANGED <<pc, rc, save>>

Shorter(b) == [b EXCEPT !.len = (@ - 1) % ByteValues]

\* The completion codes: 0x82 is a block that was there already, 0xC7 one that
\* is too long, as is 0xC3 for the first; 0x83 and 0xC3 may occur once.
Answered(cc, b) ==
    CASE cc \in {"ok", "double"} -> Saved(b)
      [] cc = "busy" -> Repeat(b)
      [] cc = "duplicate" -> Repeat([b EXCEPT !.again = TRUE])
      [] cc = "length" \/ (cc = "timeout" /\ b.seq = 0) -> Repeat([Shorter(b) EXCEPT !.again = TRUE])
      [] cc \in {"0x83", "timeout"} /\ ~(cc = "timeout" /\ b.seq = 0) /\ ~b.again -> Repeat([b EXCEPT !.again = TRUE])
      [] OTHER -> GoBack(b)

\* No answer: over a LAN it may mean that the block is too long.
Unanswered(b) ==
    IF ~setup.remote THEN Repeat(b)
    ELSE IF b.silent + 1 < NoResponseLimit THEN Repeat([Shorter(b) EXCEPT !.silent = @ + 1])
    ELSE Saved([b EXCEPT !.len = 0])

Retries(cc, b) ==
    \/ cc \in {"busy", "duplicate", "length"}
    \/ cc \in {"0x83", "timeout"} /\ (~b.again \/ (cc = "timeout" /\ b.seq = 0))

\* A block is stored, recognised as the last one, or too long (of which nothing
\* is heard over a LAN); one of no bytes is accepted.
Deliver ==
    /\ pc = "block"
    /\ CASE blk.len > setup.max -> /\ IF setup.remote THEN Unanswered(blk) ELSE Answered("length", blk)
                                   /\ UNCHANGED bmc
         [] blk.len <= setup.max /\ save.type = "sequence" /\ blk.seq = bmc.last -> Answered("double", blk) /\ UNCHANGED bmc
         [] OTHER -> Answered("ok", blk) /\ bmc' = IF blk.len = 0 THEN bmc ELSE Stored(blk)
    /\ UNCHANGED <<setup, counter, spoiled, faults>>

Known == save.type = "sequence" /\ blk.seq = bmc.last

\* A block is refused for another reason.
Refuse ==
    /\ pc = "block" /\ faults > 0 /\ faults' = faults - 1
    /\ \E cc \in {"busy", "timeout", "0x83", "duplicate", "else"} :
           /\ Answered(cc, blk)
           /\ spoiled' = \/ spoiled
                         \/ /\ save.type = "sequence"
                            /\ IF Retries(cc, blk) THEN Known /\ cc = "timeout" /\ blk.seq = 0
                               ELSE Known \/ blk.last # blk.address
    /\ UNCHANGED <<setup, counter, bmc>>

\* A block, or the answer to it, is lost.
Lose ==
    /\ pc = "block" /\ faults > 0 /\ faults' = faults - 1
    /\ blk.len <= setup.max
    /\ \E stores \in BOOLEAN :
           /\ bmc' = IF stores /\ blk.len > 0 /\ ~Known THEN Stored(blk) ELSE bmc
           /\ spoiled' = (spoiled \/ (setup.remote /\ save.type = "sequence" /\ (stores \/ Known)))
    /\ Unanswered(blk)
    /\ UNCHANGED <<setup, counter>>

Next ==
    \/ Begin
    \/ \E cmd \in Commands : Command(cmd)
    \/ Busy \/ Deliver \/ Refuse \/ Lose

Spec == Init /\ [][Next]_vars /\ WF_vars(Next)

-----------------------------------------------------------------------------
(* Properties.                                                             *)

\* The types of the variables: lengths and numbers are bytes.
TypeOK ==
    /\ setup \in Setups
    /\ pc \in Commands \cup {"begin", "block", "done"}
    /\ rc \in {"ok", "error"}
    /\ save.type \in {"address", "sequence"} /\ {save.buffer, save.overhead} \subseteq 0..(ByteValues - 1)
    /\ {blk.asked, blk.len, blk.seq} \subseteq 0..(ByteValues - 1)
    /\ blk.address \in 0..setup.total /\ blk.last \in 0..blk.address
    /\ blk.retry \in 0..MaxUploadRetry /\ blk.silent \in 0..NoResponseLimit
    /\ bmc.image \in Seq(0..setup.total) /\ bmc.holds \in {"none", "older", "file"}
    /\ faults \in 0..setup.faults

\* When the upload has come to the end of the file, the controller has the
\* whole of it and nothing else, through shortened, repeated and refused blocks
\* (KfwumUploadFirmware). By the newer protocol it has not if a block that it
\* stored was sent once more with another length or number. No block goes beyond
\* the end of the file or of a page, as long as it is not shortened below zero.
\* (And the variables have their types.)
Uploaded ==
    /\ TypeOK
    /\ pc = "finish" /\ ~spoiled => bmc.image = Image
    /\ pc = "block" /\ blk.len \in 1..blk.asked =>
           /\ blk.address + blk.len <= setup.total
           /\ blk.address \div PageSize = (blk.address + blk.len - 1) \div PageSize

\* A task that returns 0 has done what it is named for: the controller holds
\* the file, has started to upgrade to it, or to what it held, or rolls back
\* (KfwumMain).
SuccessIsDone ==
    pc = "done" /\ rc = "ok" =>
        CASE setup.task = "download" -> bmc.holds = "file"
          [] setup.task = "upgrade" -> bmc.started = "file"
          [] setup.task = "start" -> bmc.started = setup.holds /\ setup.holds # "none"
          [] setup.task = "rollback" -> bmc.rolledBack
          [] OTHER -> TRUE

\* The controller does its part, and takes blocks whose length NoResponseLimit
\* allows to find out.
Healthy ==
    /\ faults = setup.faults /\ Downloads /\ setup.file /\ setup.matches
    /\ setup.remote => BufferSize - Overhead[setup.protocol] - setup.max < NoResponseLimit

\* Every task ends, once the controller stops to refuse and lose commands; and
\* a healthy one gets the file, however short the blocks that it takes.
Ends == <>(pc = "done" /\ (Healthy => rc = "ok"))
=============================================================================
