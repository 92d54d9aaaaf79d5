-------------------------------- MODULE Store --------------------------------
(***************************************************************************)
(* What the storage traits promise (library/src/storage): a table of       *)
(* invoices, a table of output keys and a height, changed by one command   *)
(* at a time, each of which takes effect as a whole or not at all.  A      *)
(* crash takes the contents back to what they were after some earlier      *)
(* command.                                                                *)
(***************************************************************************)
EXTENDS Integers, FiniteSets

CONSTANTS
    Sub,        \* subaddress indices, as natural numbers
    Creation,   \* creation heights
    Value,      \* what an invoice may hold besides its id
    Key,        \* output public keys
    Output,     \* output ids
    Height,     \* heights
    None        \* stands for "nothing there"

ASSUME StoreAssumption ==
    /\ Sub \subseteq Nat /\ Creation \subseteq Nat
    /\ None \notin Value \cup Output \cup Height

VARIABLES
    db,         \* the contents that readers see
    disk,       \* the contents that a crash leaves
    answer      \* the command last executed and its result

storeVars == <<db, disk, answer>>

Id == [sub : Sub, creation : Creation]

Contents ==
    [invoices : [Id -> Value \cup {None}], keys : [Key -> Output \cup {None}],
     height : Height \cup {None}]

EmptyDb ==
    [invoices |-> [i \in Id |-> None], keys |-> [k \in Key |-> None], height |-> None]

(* The commands that change the contents, and the lookups that callers act *)
(* on.                                                                     *)
Command ==
    [op : {"insert", "update"}, id : Id, value : Value]
        \cup [op : {"remove", "get"}, id : Id]
        \cup [op : {"insertKey"}, key : Key, output : Output]
        \cup [op : {"getKey"}, key : Key]
        \cup [op : {"upsert"}, height : Height]
        \cup [op : {"contains"}, sub : Sub]
        \cup [op : {"ids", "getHeight", "flush"}]

Tracked(d) == {i \in Id : d.invoices[i] # None}

(* The contents that a command leaves behind.                              *)
After(d, cmd) ==
    CASE cmd.op = "insert"    -> [d EXCEPT !.invoices[cmd.id] = cmd.value]
      [] cmd.op = "update"    -> [d EXCEPT !.invoices[cmd.id] =
                                             IF @ = None THEN None ELSE cmd.value]
      [] cmd.op = "remove"    -> [d EXCEPT !.invoices[cmd.id] = None]
      [] cmd.op = "insertKey" -> [d EXCEPT !.keys[cmd.key] = cmd.output]
      [] cmd.op = "upsert"    -> [d EXCEPT !.height = cmd.height]
      [] OTHER                -> d

(* What it answers.                                                        *)
Result(d, cmd) ==
    CASE cmd.op \in {"update", "remove", "get"} -> d.invoices[cmd.id]
      [] cmd.op = "getKey"   -> d.keys[cmd.key]
      [] cmd.op \in {"upsert", "getHeight"} -> d.height
      [] cmd.op = "contains" -> \E i \in Tracked(d) : i.sub = cmd.sub
      [] cmd.op = "ids"      -> Tracked(d)
      [] OTHER               -> None

(* Commands that insert must not find anything there.                      *)
Admissible(d, cmd) ==
    /\ cmd.op = "insert" => d.invoices[cmd.id] = None
    /\ cmd.op = "insertKey" => d.keys[cmd.key] = None

StoreInit ==
    /\ db = EmptyDb
    /\ disk = EmptyDb
    /\ answer = [ok |-> TRUE, cmd |-> [op |-> "flush"], result |-> None]

(* The disk may lag behind.                                                *)
Execute(cmd) ==
    /\ answer' = [ok |-> TRUE, cmd |-> cmd, result |-> Result(db, cmd)]
    /\ Admissible(db, cmd)
    /\ db' = After(db, cmd)
    /\ disk' \in {disk, db'}

Refuse(cmd) ==
    /\ answer' = [ok |-> FALSE, cmd |-> cmd, result |-> None]
    /\ UNCHANGED <<db, disk>>

(* A command that answers with what was there may fail to do so after it   *)
(* has taken effect.                                                       *)
LoseAnswer(cmd) ==
    /\ cmd.op \in {"update", "remove", "upsert"}
    /\ answer' = [ok |-> FALSE, cmd |-> cmd, result |-> None]
    /\ db' = After(db, cmd)
    /\ disk' \in {disk, db'}

Persist == disk' = db /\ UNCHANGED <<db, answer>>

Lose == db' = disk /\ UNCHANGED <<disk, answer>>

StoreNext ==
    \/ \E cmd \in Command : Execute(cmd) \/ Refuse(cmd) \/ LoseAnswer(cmd)
    \/ Persist
    \/ Lose

StoreSpec == StoreInit /\ [][StoreNext]_storeVars
=============================================================================
