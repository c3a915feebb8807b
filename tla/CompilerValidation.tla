-------------------------- MODULE CompilerValidation --------------------------
(***************************************************************************)
(* How analyzer-compiler.ts makes the compiler judge one state of a project *)
(* that is being edited.  The compiler is a child process that reads its    *)
(* files one by one.  validate() therefore records the identity of every    *)
(* file of the project (projectInventory) and of every file the compiler    *)
(* reads (compilerInputSnapshot) before and after the child, and            *)
(* assertCurrent() records both once more for the caller.                   *)
(*                                                                         *)
(* A file's identity (device, inode, size, times and content) is the number *)
(* of times the file was touched since validate() was called; creating or   *)
(* removing it is a touch.  A read that a touch interrupts fails.  The      *)
(* files a child lists are Input: a child that lists others fails the       *)
(* validation, as do a failing read, diagnostics, a limit and an abort.     *)
(***************************************************************************)
EXTENDS Naturals

CONSTANTS
  Project,    \* the files of the project, without node_modules
  Input,      \* the files the compiler lists, and the manifests of installed packages
  MaxWrites   \* bound of the instance: how often a file is touched during a validation

ASSUME CompilerAssumption == MaxWrites \in Nat

File == Project \cup Input

VARIABLES
  tree,        \* the identities of the files
  phase,       \* where the validation or assertCurrent() is suspended
  done, got,   \* the files it has read so far, and their identities
  inventory,   \* inventorySha256
  inputs,      \* inputSha256 and ownershipSha256
  judged,      \* what the compiler read
  moment,      \* history: the files when the compiler was spawned
  last         \* history: the files when assertCurrent() was called

records == <<inventory, inputs, judged>>
validator == <<tree, phase, done, got, records, moment, last>>

Untouched == [f \in File |-> 0]
AtRest ==
  /\ phase = "none" /\ done = {}
  /\ tree = Untouched /\ got = Untouched /\ inventory = Untouched /\ inputs = Untouched
  /\ judged = Untouched /\ moment = Untouched /\ last = Untouched
Forget ==
  /\ phase' = "none" /\ done' = {}
  /\ tree' = Untouched /\ got' = Untouched /\ inventory' = Untouched /\ inputs' = Untouched
  /\ judged' = Untouched /\ moment' = Untouched /\ last' = Untouched

OfProject == {"inventory", "again", "recheck"}
OfInput == {"baseline", "inputs", "recheckInputs"}
Reading == OfProject \cup OfInput \cup {"judging"}
Running == Reading \cup {"discovery"}

Wanted == IF phase \in OfProject THEN Project ELSE IF phase \in OfInput THEN Input ELSE File
To(next) == phase' = next /\ done' = {} /\ UNCHANGED <<tree, got>>
Complete(place) == phase = place /\ done = Wanted
SameInventory == \A f \in Project : got[f] = inventory[f]
SameInputs == \A f \in Input : got[f] = inputs[f]

-----------------------------------------------------------------------------
Touch(f) ==
  /\ phase # "none" /\ tree[f] < MaxWrites
  /\ tree' = [tree EXCEPT ![f] = @ + 1]
  /\ UNCHANGED <<phase, done, got, records, moment, last>>

(* One file is read, by the validator or, while it is judging, the compiler. *)
Read ==
  /\ phase \in Reading
  /\ \E f \in Wanted \ done : done' = done \cup {f} /\ got' = [got EXCEPT ![f] = tree[f]]
  /\ UNCHANGED <<tree, phase, records, moment, last>>

(* #execute *)
Validate ==
  /\ phase = "none" /\ To("inventory") /\ UNCHANGED <<records, moment, last>>

Inventoried ==
  /\ Complete("inventory") /\ To("discovery")
  /\ inventory' = got /\ UNCHANGED <<inputs, judged, moment, last>>

Discovered ==
  /\ phase = "discovery" /\ To("baseline") /\ UNCHANGED <<records, moment, last>>

Spawned ==
  /\ Complete("baseline") /\ To("judging")
  /\ inputs' = got /\ moment' = tree /\ UNCHANGED <<inventory, judged, last>>

Judged ==
  /\ Complete("judging") /\ To("inputs")
  /\ judged' = got /\ UNCHANGED <<inventory, inputs, moment, last>>

SameInputsAgain ==
  /\ Complete("inputs") /\ To(IF SameInputs THEN "again" ELSE "failed")
  /\ UNCHANGED <<records, moment, last>>

Validated_unchecked ==                   \* mutant: the second inventory is taken for the first
  /\ Complete("again") /\ To("validated")
  /\ inventory' = got /\ UNCHANGED <<inputs, judged, moment, last>>
Validated ==
  /\ Complete("again") /\ To(IF SameInventory THEN "validated" ELSE "failed")
  /\ UNCHANGED <<records, moment, last>>

(* assertCurrent *)
AssertCurrent ==
  /\ phase = "validated" /\ To("recheck")
  /\ last' = tree /\ UNCHANGED <<records, moment>>

Rechecked ==
  /\ Complete("recheck") /\ To(IF SameInventory THEN "recheckInputs" ELSE "failed")
  /\ UNCHANGED <<records, moment, last>>

StillCurrent ==
  /\ Complete("recheckInputs") /\ To(IF SameInputs THEN "current" ELSE "failed")
  /\ UNCHANGED <<records, moment, last>>

Fails == phase \in Running /\ To("failed") /\ UNCHANGED <<records, moment, last>>

Validating ==
  \/ Read \/ Inventoried \/ Discovered \/ Spawned \/ Judged \/ SameInputsAgain \/ Validated
  \/ Rechecked \/ StillCurrent
===============================================================================
