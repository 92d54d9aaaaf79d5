--------------------------- MODULE SubaddressCache ---------------------------
(***************************************************************************)
(* How subaddresses are handed to invoices and taken back                  *)
(* (library/src/caching/subaddress_cache.rs), by the calls new_invoice and *)
(* remove_invoice of library/src/payment_gateway.rs.  Callers interleave   *)
(* at every await and lock; calls to the daemon and to the storage may     *)
(* fail, and the process may crash and be built again on its database.     *)
(* The scan loop is here as far as it shares highest_minor_index: it makes *)
(* the table of subaddress keys that a scan recognises outputs with.       *)
(*                                                                         *)
(* A database is used with one account index, so a subaddress is its minor *)
(* index.                                                                  *)
(***************************************************************************)
EXTENDS Integers, FiniteSets

CONSTANTS
    Caller,         \* concurrent users of the gateway
    MinAvailable,   \* MIN_AVAILABLE_SUBADDRESSES, 100 in the code
    MaxMinor,       \* the greatest minor index, u32::MAX in the code
    MaxHeight,      \* bound: the daemon's greatest height
    MaxInvoices,    \* bound: calls of new_invoice
    MaxFailures     \* bound: failing calls, stops and crashes

ASSUME SubaddressAssumption ==
    /\ MinAvailable \in Nat \ {0}
    /\ MaxMinor \in Nat /\ MinAvailable - 1 <= MaxMinor
    /\ MaxHeight \in Nat \ {0}
    /\ MaxInvoices \in Nat
    /\ MaxFailures \in Nat

VARIABLES
    up,             \* the gateway has been built
    available,      \* available_subaddresses
    highest,        \* highest_minor_index
    stored,         \* the ids of the invoices in the database
    published,      \* the ids that the publisher has a list of senders for
    cachedHeight,   \* cached_daemon_height
    daemon,         \* the daemon's height
    pc,             \* where each caller is
    ident,          \* the invoice id that each caller has in hand (creation 0: none yet)
    scanpc,         \* where the scan loop is
    startIds,       \* the ids that Scanner::new read from the database
    table,          \* size of the table of the SubKeyChecker
    failures,       \* failing calls, stops and crashes so far
    draws,          \* calls of new_invoice so far
    drawn,          \* ghost: a subaddress was drawn since the gateway was built
    reused          \* ghost: an id was made while one like it was being removed

cacheVars == <<available, highest>>
callVars == <<pc, ident>>
loopVars == <<scanpc, startIds, table>>

vars == <<up, cacheVars, stored, published, cachedHeight, daemon, callVars, loopVars, failures,
          draws, drawn, reused>>

Minor == 0..MaxMinor
InvoiceId == [sub : Minor, creation : 0..MaxHeight]
NoId == [sub |-> 0, creation |-> 0]
Subs(ids) == {id.sub : id \in ids}

TypeOK ==
    /\ up \in BOOLEAN
    /\ available \subseteq Minor
    /\ highest \in Minor
    /\ stored \subseteq InvoiceId
    /\ published \subseteq InvoiceId
    /\ cachedHeight \in 0..MaxHeight
    /\ daemon \in 1..MaxHeight
    /\ pc \in [Caller -> {"idle", "height", "insert", "publish", "return", "unpublish"}]
    /\ ident \in [Caller -> InvoiceId]
    /\ scanpc \in {"off", "start", "loop", "scan"}
    /\ startIds \subseteq InvoiceId
    /\ table \in 0..(MaxMinor + 1)
    /\ failures \in 0..MaxFailures
    /\ draws \in 0..MaxInvoices
    /\ drawn \in BOOLEAN
    /\ reused \in BOOLEAN

Init ==
    /\ up = FALSE
    /\ available = {} /\ highest = 0
    /\ stored = {} /\ published = {}
    /\ cachedHeight = 0 /\ daemon = 1
    /\ pc = [c \in Caller |-> "idle"]
    /\ ident = [c \in Caller |-> NoId]
    /\ scanpc = "off" /\ startIds = {} /\ table = 0
    /\ failures = 0
    /\ draws = 0
    /\ drawn = FALSE /\ reused = FALSE

-----------------------------------------------------------------------------
(* h is max(MIN_AVAILABLE_SUBADDRESSES - 1, the highest index in use).     *)
IsHighest(h) ==
    /\ h >= MinAvailable - 1
    /\ \A s \in Subs(stored) : s <= h
    /\ h = MinAvailable - 1 \/ h \in Subs(stored)

(* Defect: makes the indices available that invoices in the database use.  *)
BuildAll ==
    /\ ~up
    /\ up' = TRUE
    /\ \E h \in Minor : IsHighest(h) /\ highest' = h /\ available' = 0..h
    /\ published' = {}
    /\ cachedHeight' = 0
    /\ UNCHANGED <<stored, daemon, callVars, loopVars, failures, draws, drawn, reused>>

(* SubaddressCache::init, called when the gateway is built: every index up *)
(* to the highest is available unless an invoice in the database uses it.  *)
Build ==
    /\ ~up
    /\ up' = TRUE
    /\ \E h \in Minor :
        /\ IsHighest(h)
        /\ highest' = h
        /\ available' = (0..h) \ Subs(stored)
    /\ published' = {}
    /\ cachedHeight' = 0
    /\ UNCHANGED <<stored, daemon, callVars, loopVars, failures, draws, drawn, reused>>

(* Defects: no limit; one short.                                           *)
ExtendedToUnlimited == highest + MinAvailable
ExtendedToShort ==
    IF highest + MinAvailable - 1 < MaxMinor THEN highest + MinAvailable - 1 ELSE MaxMinor

(* extend_by: MinAvailable more at the end, fewer at the limit.            *)
ExtendedTo == IF highest + MinAvailable < MaxMinor THEN highest + MinAvailable ELSE MaxMinor

(* remove_random draws s, and extends the cache when few are left.  What   *)
(* it does when there is no s is DrawFromEmpty.                            *)
RemoveRandom(s) ==
    LET rest == available \ {s} IN
    /\ s \in available
    /\ IF Cardinality(rest) <= MinAvailable
       THEN /\ highest' = ExtendedTo
            /\ available' = rest \cup ((highest + 1)..ExtendedTo)
       ELSE /\ available' = rest
            /\ UNCHANGED highest

(* The caller now knows which id its invoice will have.                    *)
MakeId(c, s, h) ==
    LET id == [sub |-> s, creation |-> h] IN
    /\ ident' = [ident EXCEPT ![c] = id]
    /\ reused' = (reused \/ \E d \in Caller : pc[d] = "unpublish" /\ ident[d] = id)

Fail == failures < MaxFailures /\ failures' = failures + 1

(* The call is over.                                                       *)
Finish(c) == pc' = [pc EXCEPT ![c] = "idle"] /\ ident' = [ident EXCEPT ![c] = NoId]

(***************************************************************************)
(* new_invoice.                                                            *)
(***************************************************************************)
TakeSubaddress(c, s) ==
    /\ up
    /\ pc[c] = "idle"
    /\ RemoveRandom(s)
    /\ IF cachedHeight # 0
       THEN MakeId(c, s, cachedHeight) /\ pc' = [pc EXCEPT ![c] = "insert"]
       ELSE /\ ident' = [ident EXCEPT ![c] = [sub |-> s, creation |-> 0]]
            /\ pc' = [pc EXCEPT ![c] = "height"]
            /\ UNCHANGED reused
    /\ draws < MaxInvoices
    /\ draws' = draws + 1
    /\ drawn' = TRUE
    /\ UNCHANGED <<up, stored, published, cachedHeight, daemon, loopVars, failures>>

(* gen_range(0..0): new_invoice panics in the caller's task.  The lock is  *)
(* poisoned, and taken by the next call as if it were not.                 *)
DrawFromEmpty(c) ==
    /\ up
    /\ pc[c] = "idle"
    /\ available = {}
    /\ draws < MaxInvoices
    /\ draws' = draws + 1
    /\ UNCHANGED <<up, cacheVars, stored, published, cachedHeight, daemon, callVars, loopVars,
                   failures, drawn, reused>>

(* Nothing is cached before the first run: ask the daemon.                 *)
AskHeight(c) ==
    /\ pc[c] = "height"
    /\ MakeId(c, ident[c].sub, daemon)
    /\ pc' = [pc EXCEPT ![c] = "insert"]
    /\ UNCHANGED <<up, cacheVars, stored, published, cachedHeight, daemon, loopVars,
                   failures, draws, drawn>>

InsertInvoice(c) ==
    /\ pc[c] = "insert"
    /\ stored' = stored \cup {ident[c]}
    /\ pc' = [pc EXCEPT ![c] = "publish"]
    /\ UNCHANGED <<up, cacheVars, published, cachedHeight, daemon, ident, loopVars,
                   failures, draws, drawn, reused>>

(* The call to the daemon or to the storage fails: new_invoice returns the *)
(* error, and the subaddress that it drew is not put back.                 *)
NewInvoiceFails(c) ==
    /\ pc[c] \in {"height", "insert"}
    /\ Fail
    /\ Finish(c)
    /\ UNCHANGED <<up, cacheVars, stored, published, cachedHeight, daemon, loopVars,
                   draws, drawn, reused>>

PublishInvoice(c) ==
    /\ pc[c] = "publish"
    /\ published' = published \cup {ident[c]}
    /\ Finish(c)
    /\ UNCHANGED <<up, cacheVars, stored, cachedHeight, daemon, loopVars, failures,
                   draws, drawn, reused>>

(***************************************************************************)
(* remove_invoice: the database, then the subaddress, then the publisher.  *)
(***************************************************************************)
RemoveInvoice(c, id) ==
    /\ up
    /\ pc[c] = "idle"
    /\ id \in stored
    /\ stored' = stored \ {id}
    /\ ident' = [ident EXCEPT ![c] = id]
    /\ pc' = [pc EXCEPT ![c] = "return"]
    /\ UNCHANGED <<up, cacheVars, published, cachedHeight, daemon, loopVars, failures, draws, drawn,
                   reused>>

ReturnSubaddress(c) ==
    /\ pc[c] = "return"
    /\ available' = available \cup {ident[c].sub}
    /\ pc' = [pc EXCEPT ![c] = "unpublish"]
    /\ UNCHANGED <<up, highest, stored, published, cachedHeight, daemon, ident, loopVars,
                   failures, draws, drawn, reused>>

Unpublish(c) ==
    /\ pc[c] = "unpublish"
    /\ published' = published \ {ident[c]}
    /\ Finish(c)
    /\ UNCHANGED <<up, cacheVars, stored, cachedHeight, daemon, loopVars, failures,
                   draws, drawn, reused>>

-----------------------------------------------------------------------------
(***************************************************************************)
(* The scan loop.  Scanner::new caches the daemon's height and reads the   *)
(* ids of the invoices that it then makes the publisher list.              *)
(***************************************************************************)
StartRun ==
    /\ up
    /\ scanpc = "off"
    /\ cachedHeight' = daemon
    /\ startIds' = stored
    /\ scanpc' = "start"
    /\ UNCHANGED <<up, cacheVars, stored, published, daemon, callVars, table, failures,
                   draws, drawn, reused>>

(* Defect: the publisher does not learn of the invoices in the database.   *)
SpawnLoopUnlisted ==
    /\ scanpc = "start"
    /\ startIds' = {}
    /\ table' = highest + 1
    /\ scanpc' = "loop"
    /\ UNCHANGED <<up, cacheVars, stored, published, cachedHeight, daemon, callVars, failures,
                   draws, drawn, reused>>

SpawnLoop ==
    /\ scanpc = "start"
    /\ published' = published \cup startIds
    /\ startIds' = {}
    /\ table' = highest + 1
    /\ scanpc' = "loop"
    /\ UNCHANGED <<up, cacheVars, stored, cachedHeight, daemon, callVars, failures, draws, drawn,
                   reused>>

(* Defect: off by one.                                                     *)
RefreshCheckerLate == table' = IF table < highest THEN highest + 1 ELSE table

(* The table of keys is made again when the cache has outgrown it.         *)
RefreshChecker == table' = IF table <= highest THEN highest + 1 ELSE table

BeginScan ==
    /\ scanpc = "loop"
    /\ RefreshChecker
    /\ scanpc' = "scan"
    /\ UNCHANGED <<up, cacheVars, stored, published, cachedHeight, daemon, callVars, startIds,
                   failures, draws, drawn, reused>>

(* The scan has asked for the daemon's height.                             *)
EndScan ==
    /\ scanpc = "scan"
    /\ cachedHeight' = daemon
    /\ scanpc' = "loop"
    /\ UNCHANGED <<up, cacheVars, stored, published, daemon, callVars, startIds, table,
                   failures, draws, drawn, reused>>

StopLoop ==
    /\ scanpc = "loop"
    /\ Fail
    /\ scanpc' = "off"
    /\ UNCHANGED <<up, cacheVars, stored, published, cachedHeight, daemon, callVars, startIds,
                   table, draws, drawn, reused>>

(* The process dies: only the database is left.                            *)
Crash ==
    /\ up
    /\ Fail
    /\ up' = FALSE
    /\ available' = {} /\ highest' = 0
    /\ published' = {}
    /\ cachedHeight' = 0
    /\ pc' = [c \in Caller |-> "idle"] /\ ident' = [c \in Caller |-> NoId]
    /\ scanpc' = "off" /\ startIds' = {} /\ table' = 0
    /\ drawn' = FALSE
    /\ UNCHANGED <<stored, daemon, draws, reused>>

NewBlock ==
    /\ daemon < MaxHeight
    /\ daemon' = daemon + 1
    /\ UNCHANGED <<up, cacheVars, stored, published, cachedHeight, callVars, loopVars, failures,
                   draws, drawn, reused>>

Next ==
    \/ Build
    \/ \E c \in Caller :
        \/ \E s \in available : TakeSubaddress(c, s)
        \/ DrawFromEmpty(c)
        \/ AskHeight(c)
        \/ InsertInvoice(c)
        \/ NewInvoiceFails(c)
        \/ PublishInvoice(c)
        \/ \E id \in stored : RemoveInvoice(c, id)
        \/ ReturnSubaddress(c)
        \/ Unpublish(c)
    \/ StartRun
    \/ SpawnLoop
    \/ BeginScan
    \/ EndScan
    \/ StopLoop
    \/ Crash
    \/ NewBlock

Spec == Init /\ [][Next]_vars

-----------------------------------------------------------------------------
(***************************************************************************)
(* Properties.                                                             *)
(***************************************************************************)
(* No two tracked invoices share a subaddress, whatever calls interleave,  *)
(* fail or are cut off by a crash: a payment belongs to one invoice.       *)
UniqueSubaddress == \A a, b \in stored : a.sub = b.sub => a = b

(* The keys that a scan looks outputs up in include those of every invoice *)
(* that was tracked when the scan began, although invoices are created and *)
(* the cache extended while the loop runs.                                 *)
CheckerCovers ==
    [][(scanpc # "scan" /\ scanpc' = "scan") => \A s \in Subs(stored) : s < table']_vars

(* An invoice uses s, or is just being removed.                            *)
InUse(s) == s \in Subs(stored) \/ \E c \in Caller : pc[c] = "return" /\ ident[c].sub = s

(* new_invoice panics (it is called, and no caller goes on) only when the  *)
(* indices have run out or, for the first draws after the gateway was      *)
(* built, when invoices use every index up to the highest one: what is     *)
(* drawn and lost by calls that fail never empties the map, and once one   *)
(* draw has succeeded only the end of the indices can.                     *)
PanicsOnlyWhenUsedUp ==
    [][(draws' # draws /\ pc' = pc)
         => highest = MaxMinor \/ (~drawn /\ \A s \in 0..highest : InUse(s))]_vars

(* While the loop runs and no call is under way, whoever asks for updates  *)
(* of a tracked invoice gets a subscriber, unless an invoice was created   *)
(* with the id of one that was just being removed.                         *)
TrackedIsPublished ==
    (scanpc \in {"loop", "scan"} /\ ~reused /\ \A c \in Caller : pc[c] = "idle")
        => stored \subseteq published
=============================================================================
