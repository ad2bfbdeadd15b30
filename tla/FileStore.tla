------------------------------- MODULE FileStore -------------------------------
(***************************************************************************)
(* The blocks of one tenant on a filesystem (FileStore,                    *)
(* src/internal/backend/fs.go), called by uploads, reads and sweeps at the *)
(* same time.  A step is one file operation.  ObjectService takes PutBlock *)
(* and DeleteBlocks to be atomic for each block; this module is about why. *)
(* Encryption changes the bytes of a file and not what is done with it.    *)
(***************************************************************************)
EXTENDS Integers, FiniteSets

CONSTANTS
  BlockCalls,     \* goroutines that call the store
  Blocks,         \* hashes
  MaxFileFaults   \* bound on failed calls and crashes

ASSUME FileStoreAssumption == MaxFileFaults \in Nat

VARIABLES
  path,      \* the content of each block's file: "none", "part" or "whole"
  temp,      \* the <<block, call>> pairs that have a temporary file
  storing,   \* where each call is
  faults     \* failed calls and crashes so far

fileVars == <<path, temp, storing, faults>>

(* was and wasnt say whether the block has been there, or absent, at some  *)
(* moment since the call began (history); got is what a reader has opened. *)
NoCall == [pc |-> "idle", block |-> "none", was |-> FALSE, wasnt |-> FALSE, got |-> "none"]

FileInit ==
  /\ path = [b \in Blocks |-> "none"]
  /\ temp = {}
  /\ storing = [c \in BlockCalls |-> NoCall]
  /\ faults = 0

Block(c) == storing[c].block

(* Call c goes on to pc, and every call takes note of what is on disk now. *)
Proceed(c, pc, got) ==
  storing' = [d \in BlockCalls |->
                LET now == IF d = c THEN [storing[c] EXCEPT !.pc = pc, !.got = got]
                           ELSE storing[d]
                IN  IF storing[d].pc \in {"idle", "stored", "opened", "deleted"} THEN now
                    ELSE [now EXCEPT !.was = @ \/ path'[now.block] = "whole",
                                     !.wasnt = @ \/ path'[now.block] = "none"]]

BeginCall(c, b, pc) ==
  /\ storing[c].pc \notin {"stat", "write", "again", "rename", "open", "remove"}
  /\ storing' = [storing EXCEPT ![c] = [pc |-> pc, block |-> b, was |-> path[b] = "whole",
                                        wasnt |-> path[b] = "none", got |-> "none"]]
  /\ UNCHANGED <<path, temp, faults>>

-----------------------------------------------------------------------------
(* PutBlock. *)

Stat(c) ==
  /\ storing[c].pc = "stat"
  /\ UNCHANGED <<path, temp, faults>>
  /\ Proceed(c, IF path[Block(c)] = "none" THEN "write" ELSE "stored", "none")

(* os.WriteFile into a file with a random name. *)
Write(c) ==
  /\ storing[c].pc = "write"
  /\ temp' = temp \cup {<<Block(c), c>>}
  /\ UNCHANGED <<path, faults>>
  /\ Proceed(c, "again", "none")

(* Another call has stored the block: its file stays. *)
StatAgain(c) ==
  /\ storing[c].pc = "again"
  /\ temp' = IF path[Block(c)] = "none" THEN temp ELSE temp \ {<<Block(c), c>>}
  /\ UNCHANGED <<path, faults>>
  /\ Proceed(c, IF path[Block(c)] = "none" THEN "rename" ELSE "stored", "none")

(* A stat that fails is taken for a block that is not there. *)
StatAgainFails(c) ==
  /\ faults < MaxFileFaults /\ faults' = faults + 1
  /\ storing[c].pc = "again"
  /\ UNCHANGED <<path, temp>>
  /\ Proceed(c, "rename", "none")

CopyIntoPlace(c) ==
  /\ storing[c].pc = "rename"
  /\ path' = [path EXCEPT ![Block(c)] = IF @ = "none" THEN "part" ELSE "whole"]
  /\ temp' = IF path[Block(c)] = "none" THEN temp ELSE temp \ {<<Block(c), c>>}
  /\ UNCHANGED faults
  /\ Proceed(c, IF path[Block(c)] = "none" THEN "rename" ELSE "stored", "none")

RenameIntoPlace(c) ==
  /\ storing[c].pc = "rename"
  /\ path' = [path EXCEPT ![Block(c)] = "whole"]
  /\ temp' = temp \ {<<Block(c), c>>}
  /\ UNCHANGED faults
  /\ Proceed(c, "stored", "none")

-----------------------------------------------------------------------------
(* GetBlock: what is open stays readable after a rename or a remove. *)
OpenBlock(c) ==
  /\ storing[c].pc = "open"
  /\ UNCHANGED <<path, temp, faults>>
  /\ Proceed(c, "opened", path[Block(c)])

(* DeleteBlocks, for one of its blocks; one that is gone is not an error. *)
RemoveBlock(c) ==
  /\ storing[c].pc = "remove"
  /\ path' = [path EXCEPT ![Block(c)] = "none"]
  /\ UNCHANGED <<temp, faults>>
  /\ Proceed(c, "deleted", "none")

-----------------------------------------------------------------------------
(* A file operation fails.  A temporary file that could not be written is  *)
(* left behind; one that could not be renamed is removed.                  *)
CallFails(c) ==
  /\ faults < MaxFileFaults /\ faults' = faults + 1
  /\ storing[c].pc \in {"stat", "write", "rename", "open", "remove"}
  /\ temp' \in IF storing[c].pc = "write" THEN {temp, temp \cup {<<Block(c), c>>}}
               ELSE {temp \ {<<Block(c), c>>}}
  /\ storing' = [storing EXCEPT ![c] = NoCall]
  /\ UNCHANGED path

CrashStore ==
  /\ faults < MaxFileFaults /\ faults' = faults + 1
  /\ storing' = [c \in BlockCalls |-> NoCall]
  /\ UNCHANGED <<path, temp>>

FileNext ==
  \/ \E c \in BlockCalls :
       \/ \E b \in Blocks, pc \in {"stat", "open", "remove"} : BeginCall(c, b, pc)
       \/ Stat(c) \/ Write(c) \/ StatAgain(c) \/ StatAgainFails(c) \/ RenameIntoPlace(c)
       \/ OpenBlock(c) \/ RemoveBlock(c) \/ CallFails(c)
  \/ CrashStore

FileSpec == FileInit /\ [][FileNext]_fileVars

-----------------------------------------------------------------------------
(* Properties. *)

\* Each call acts in one step, which is how ObjectService takes them, however
\* many calls store and delete a block at the time and wherever one of them
\* fails or crashes: a reader gets a whole block or none, a PutBlock that
\* succeeds has had its block in place at some moment of the call, be it by
\* another call, and a DeleteBlocks that succeeds has had it gone.
CallsActAtOnce ==
  \A c \in BlockCalls :
    /\ storing[c].pc = "opened" => storing[c].got \in {"none", "whole"}
    /\ storing[c].pc = "stored" => storing[c].was
    /\ storing[c].pc = "deleted" => storing[c].wasnt

=============================================================================
