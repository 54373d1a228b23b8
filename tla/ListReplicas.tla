---------------------------- MODULE ListReplicas ----------------------------
(***************************************************************************)
(* One shopping list and all its copies: in the local database of each     *)
(* client, in the database of each worker, in the client's main thread,    *)
(* in the client's update listener, and in the requests and publications   *)
(* under way between them.                                                 *)
(*                                                                         *)
(*   client main thread    src/src/client/main.cpp: main                   *)
(*   update listener       src/src/client/main.cpp: listenForUpdates,      *)
(*                         updateList; majClient.cpp: receive_updates      *)
(*   worker                src/src/worker/request_handler.cpp, run by      *)
(*                         majWorker.cpp: handle_request                   *)
(*   databases             src/src/database.h                              *)
(*                                                                         *)
(* The two threads of a client share the database; every Database method   *)
(* is atomic (it holds the mutex), a sequence of them is not, so the       *)
(* read-join-write of each thread is split at its db.get and db.set.       *)
(* Which workers a request reaches, in which order and whether at all, is  *)
(* left open here: the broker and the ring decide it, and messages die     *)
(* with the process that holds them.                                       *)
(***************************************************************************)
EXTENDS ShoppingList, Sequences

CONSTANTS
    Clients, Workers,
    Quantities,   \* quantities a user types in
    MaxEdits,     \* bound: edits made altogether
    MaxReqs,      \* bound: requests under way
    MaxPubs,      \* bound: publications queued at a client (ZMQ drops the rest)
    Serialized,   \* TRUE: only schedules in which the read-join-write windows
                  \* of a client's two threads do not overlap; FALSE: the code
    Stoppable,    \* nodes whose process may exit normally and start again
    CrashProne    \* nodes whose process may die without saving its database

Nodes == Clients \cup Workers

ASSUME NodeAssumption ==
    /\ Clients \cap Workers = {}
    /\ Stoppable \subseteq Nodes
    /\ CrashProne \subseteq Nodes

ASSUME BoundAssumption ==
    /\ Quantities \subseteq Nat \ {0}
    /\ MaxEdits \in Nat /\ MaxReqs \in Nat /\ MaxPubs \in Nat
    /\ Serialized \in BOOLEAN

VARIABLES
    db,          \* node -> the copy in its Database, or NoCopy
    disk,        \* node -> what Database::load would read at the next start
    mainPc,      \* client -> where its main thread is
    session,     \* client -> currentShoppingList, the copy being edited
    saveBase,    \* client -> databaseShoppingList of saveListToLocal
    lstPc,       \* client -> where its update listener is
    update,      \* client -> the update the listener is applying
    lstBase,     \* client -> databaseShoppingList of updateList
    subscribed,  \* clients whose SUB socket subscribes to the list
    reqs,        \* requests on their way to the worker named in them
    pubs,        \* client -> publications queued at its SUB socket
    used,        \* the uuids generateUUID has returned
    minted       \* history: every entry an edit has ever added

vars == <<db, disk, mainPc, session, saveBase, lstPc, update, lstBase,
          subscribed, reqs, pubs, used, minted>>

mainVars == <<mainPc, session, saveBase>>
lstVars == <<lstPc, update, lstBase>>
netVars == <<subscribed, reqs, pubs>>
histVars == <<used, minted>>

Request == [type : {"CREATE_LIST", "UPDATE_LIST"}, list : Copy, to : Workers]
           \cup [type : {"GET_LIST"}, list : {NoCopy}, to : Workers]

TypeOK ==
    /\ db \in [Nodes -> MaybeCopy]
    /\ disk \in [Nodes -> MaybeCopy]
    /\ mainPc \in [Clients -> {"menu", "edit", "save"}]
    /\ session \in [Clients -> MaybeCopy]
    /\ saveBase \in [Clients -> MaybeCopy]
    /\ lstPc \in [Clients -> {"idle", "get", "merge", "create"}]
    /\ update \in [Clients -> MaybeCopy]
    /\ lstBase \in [Clients -> MaybeCopy]
    /\ subscribed \subseteq Clients
    /\ reqs \subseteq Request
    /\ pubs \in [Clients -> Seq(Copy)]
    /\ used \subseteq Uuids
    /\ minted \subseteq Entry
    /\ \A c \in Clients : /\ mainPc[c] # "menu" => session[c] \in Copy
                          /\ lstPc[c] # "idle" => update[c] \in Copy

Init ==
    /\ db = [n \in Nodes |-> NoCopy]
    /\ disk = [n \in Nodes |-> NoCopy]
    /\ mainPc = [c \in Clients |-> "menu"]
    /\ session = [c \in Clients |-> NoCopy]
    /\ saveBase = [c \in Clients |-> NoCopy]
    /\ lstPc = [c \in Clients |-> "idle"]
    /\ update = [c \in Clients |-> NoCopy]
    /\ lstBase = [c \in Clients |-> NoCopy]
    /\ subscribed = {}
    /\ reqs = {}
    /\ pubs = [c \in Clients |-> <<>>]
    /\ used = {}
    /\ minted = {}

-----------------------------------------------------------------------------
(* Requests of the main thread.  Out of cloud mode nothing is sent; in it, *)
(* the client sends and subscribes, and the request reaches some of the    *)
(* workers.                                                                *)
Send(c, type, l) ==
    \/ UNCHANGED <<reqs, subscribed>>
    \/ \E W \in SUBSET Workers :
          /\ reqs' = reqs \cup {[type |-> type, list |-> l, to |-> w] : w \in W}
          /\ Cardinality(reqs') <= MaxReqs
          /\ subscribed' = subscribed \cup {c}

(* Menu choice 1. The new list's url is made of its id, so the one list of *)
(* this model is created once.                                             *)
CreateList(c) ==
    /\ mainPc[c] = "menu"
    /\ used = {}
    /\ \E u \in Uuids :
          /\ used' = {u}
          /\ db' = [db EXCEPT ![c] = EmptyCopy(u)]
          /\ Send(c, "CREATE_LIST", EmptyCopy(u))
    /\ UNCHANGED <<disk, mainVars, lstVars, pubs, minted>>

(* Menu choice 2: any user who was told the url. *)
GetList(c) ==
    /\ mainPc[c] = "menu"
    /\ used # {}
    /\ Send(c, "GET_LIST", NoCopy)
    /\ UNCHANGED <<db, disk, mainVars, lstVars, pubs, histVars>>

(* Menu choice 3, up to the edit menu. *)
OpenList(c) ==
    /\ mainPc[c] = "menu"
    /\ db[c] # NoCopy
    /\ session' = [session EXCEPT ![c] = FromJson(db[c])]
    /\ mainPc' = [mainPc EXCEPT ![c] = "edit"]
    /\ UNCHANGED <<db, disk, saveBase, lstVars, netVars, histVars>>

(* CausalCounter::inc and ::dec on the session's copy: the new value is d  *)
(* away from the largest own one.                                          *)
Edit(c, i, d) ==
    LET l == session[c] IN
    /\ mainPc[c] = "edit"
    /\ Cardinality(minted) < MaxEdits
    /\ \E v \in OwnValues(l, i) :
          /\ Largest(v, OwnValues(l, i))
          /\ session' = [session EXCEPT ![c] = Put(l, i, v + d)]
          /\ minted' = minted \cup {NewEntry(l, i, v + d)}
    /\ UNCHANGED <<db, disk, mainPc, saveBase, lstVars, netVars, used>>

(* createItem takes a product the list does not contain, increaseItem one  *)
(* it does.                                                                *)
CreateItem(c, i, q) ==
    /\ mainPc[c] = "edit"
    /\ ~Contains(session[c], i)
    /\ Edit(c, i, q)

IncreaseItem(c, i, q) ==
    /\ mainPc[c] = "edit"
    /\ Contains(session[c], i)
    /\ Edit(c, i, q)

(* addProductsToList. *)
AddItem(c, i, q) == CreateItem(c, i, q) \/ IncreaseItem(c, i, q)

(* buyProductsFromList: a product that reads 0 or less is asked for again. *)
BuyItem(c, i, q) ==
    /\ mainPc[c] = "edit"
    /\ Contains(session[c], i)
    /\ Edit(c, i, -q)

(* Choice 0 of the edit menu: saveListToLocal up to its db.get ... *)
SaveRead(c) ==
    /\ mainPc[c] = "edit"
    /\ Serialized => lstPc[c] = "idle"
    /\ saveBase' = [saveBase EXCEPT ![c] = db[c]]
    /\ mainPc' = [mainPc EXCEPT ![c] = "save"]
    /\ UNCHANGED <<db, disk, session, lstVars, netVars, histVars>>

(* Fault: the edited copy is written without joining the stored one. *)
SaveWriteNoJoin(c) ==
    /\ mainPc[c] = "save"
    /\ db' = [db EXCEPT ![c] = session[c]]
    /\ mainPc' = [mainPc EXCEPT ![c] = "menu"]
    /\ session' = [session EXCEPT ![c] = NoCopy]
    /\ saveBase' = [saveBase EXCEPT ![c] = NoCopy]
    /\ Send(c, "UPDATE_LIST", session[c])
    /\ UNCHANGED <<disk, lstVars, pubs, histVars>>

(* ... then the join and db.set, and in cloud mode the request.  What is   *)
(* sent is the session's copy, not the joined one.  db.exists holds here:  *)
(* only this thread deletes.                                               *)
SaveWrite(c) ==
    /\ mainPc[c] = "save"
    /\ db' = [db EXCEPT ![c] =
                 IF saveBase[c] = NoCopy THEN session[c]
                 ELSE Join(FromJson(saveBase[c]), session[c])]
    /\ mainPc' = [mainPc EXCEPT ![c] = "menu"]
    /\ session' = [session EXCEPT ![c] = NoCopy]
    /\ saveBase' = [saveBase EXCEPT ![c] = NoCopy]
    /\ Send(c, "UPDATE_LIST", session[c])
    /\ UNCHANGED <<disk, lstVars, pubs, histVars>>

(* Menu choice 4. In cloud mode the client drops one of its subscriptions, *)
(* which need not be the last: subscribe_to_list is called again on every  *)
(* request and ZMQ counts.                                                 *)
DeleteList(c) ==
    /\ mainPc[c] = "menu"
    /\ db[c] # NoCopy
    /\ Serialized => lstPc[c] = "idle"
    /\ db' = [db EXCEPT ![c] = NoCopy]
    /\ subscribed' \in {subscribed, subscribed \ {c}}
    /\ UNCHANGED <<disk, mainVars, lstVars, reqs, pubs, histVars>>

(* listenForHeartBeats: back in cloud mode, subscribe to every list held. *)
Resubscribe(c) ==
    /\ db[c] # NoCopy
    /\ c \notin subscribed
    /\ subscribed' = subscribed \cup {c}
    /\ UNCHANGED <<db, disk, mainVars, lstVars, reqs, pubs, histVars>>

-----------------------------------------------------------------------------
(* Workers: handleRequest, then publish_to_broker.  The broker forwards a  *)
(* publication to the subscribers; a full or late SUB socket misses it.    *)
Publish(l) ==
    \E S \in SUBSET {c \in subscribed : Len(pubs[c]) < MaxPubs} :
        pubs' = [c \in Clients |-> IF c \in S THEN Append(pubs[c], l) ELSE pubs[c]]

(* CREATE_LIST replaces whatever is stored. *)
HandleCreate(r) ==
    LET new == [FromJson(r.list) EXCEPT !.id = NoUuid] IN
    /\ r.type = "CREATE_LIST"
    /\ db' = [db EXCEPT ![r.to] = new]
    /\ Publish(new)

HandleGet(r) ==
    /\ r.type = "GET_LIST"
    /\ IF db[r.to] = NoCopy THEN UNCHANGED pubs ELSE Publish(db[r.to])
    /\ UNCHANGED db

(* Fault: an update replaces the stored list. *)
HandleUpdateOverwrites(r) ==
    LET new == [FromJson(r.list) EXCEPT !.id = NoUuid] IN
    /\ r.type = "UPDATE_LIST"
    /\ db' = [db EXCEPT ![r.to] = new]
    /\ Publish(new)

HandleUpdate(r) ==
    LET joined == Join(FromJson(db[r.to]), FromJson(r.list)) IN
    /\ r.type = "UPDATE_LIST"
    /\ db' = [db EXCEPT ![r.to] = joined]
    /\ Publish(joined)

HandleRequest(r) ==
    /\ r \in reqs
    /\ reqs' = reqs \ {r}
    /\ HandleCreate(r) \/ HandleGet(r) \/ HandleUpdate(r)
    /\ UNCHANGED <<disk, mainVars, lstVars, subscribed, histVars>>

-----------------------------------------------------------------------------
(* The update listener. *)

(* receive_updates, then db.exists of updateList.  The inner loop of       *)
(* receive_updates keeps reading while a message is there, so publications *)
(* queued behind the first one are taken off the socket with it; only the  *)
(* first is returned.                                                      *)
ReceiveUpdate(c) ==
    /\ lstPc[c] = "idle"
    /\ Serialized => mainPc[c] # "save"
    /\ \E k \in 1 .. Len(pubs[c]) :
          /\ update' = [update EXCEPT ![c] = Head(pubs[c])]
          /\ pubs' = [pubs EXCEPT ![c] = SubSeq(@, k + 1, Len(@))]
    /\ lstPc' = [lstPc EXCEPT ![c] = IF db[c] # NoCopy THEN "get" ELSE "create"]
    /\ UNCHANGED <<db, disk, mainVars, lstBase, subscribed, reqs, histVars>>

ListenerGet(c) ==
    /\ lstPc[c] = "get"
    /\ lstBase' = [lstBase EXCEPT ![c] = db[c]]
    /\ lstPc' = [lstPc EXCEPT ![c] = "merge"]
    /\ UNCHANGED <<db, disk, mainVars, update, netVars, histVars>>

(* The listener is back at the top of its loop. *)
ListenerDone(c) ==
    /\ lstPc' = [lstPc EXCEPT ![c] = "idle"]
    /\ update' = [update EXCEPT ![c] = NoCopy]
    /\ lstBase' = [lstBase EXCEPT ![c] = NoCopy]

(* Fault: the update replaces the stored list, under the stored id. *)
ListenerMergeOverwrites(c) ==
    /\ lstPc[c] = "merge"
    /\ db' = [db EXCEPT ![c] = [update[c] EXCEPT !.id = FromJson(lstBase[c]).id]]
    /\ ListenerDone(c)
    /\ UNCHANGED <<disk, mainVars, netVars, histVars>>

ListenerMerge(c) ==
    /\ lstPc[c] = "merge"
    /\ db' = [db EXCEPT ![c] = Join(FromJson(lstBase[c]), FromJson(update[c]))]
    /\ ListenerDone(c)
    /\ UNCHANGED <<disk, mainVars, netVars, histVars>>

(* updateList, the list was not held: store the update under a new id. *)
ListenerCreate(c) ==
    /\ lstPc[c] = "create"
    /\ \E u \in Uuids \ used :
          /\ used' = used \cup {u}
          /\ db' = [db EXCEPT ![c] = [update[c] EXCEPT !.id = u]]
    /\ ListenerDone(c)
    /\ UNCHANGED <<disk, mainVars, netVars, minted>>

-----------------------------------------------------------------------------
(* Processes. *)

(* The threads and sockets of a client process end with it. *)
ClientGone(c) ==
    /\ mainPc' = [mainPc EXCEPT ![c] = "menu"]
    /\ session' = [session EXCEPT ![c] = NoCopy]
    /\ saveBase' = [saveBase EXCEPT ![c] = NoCopy]
    /\ ListenerDone(c)
    /\ subscribed' = subscribed \ {c}
    /\ pubs' = [pubs EXCEPT ![c] = <<>>]

NodeGone(n) ==
    IF n \in Clients THEN ClientGone(n)
    ELSE UNCHANGED <<mainVars, lstVars, subscribed, pubs>>

(* Normal exit and next start: the threads are joined, Database::save      *)
(* writes what Database::load will read.                                   *)
Restart(n) ==
    /\ n \in Stoppable
    /\ n \in Clients => mainPc[n] = "menu" /\ lstPc[n] = "idle"
    /\ disk' = [disk EXCEPT ![n] = db[n]]
    /\ NodeGone(n)
    /\ UNCHANGED <<db, reqs, histVars>>

(* The process dies anywhere and is started again. *)
Crash(n) ==
    /\ n \in CrashProne
    /\ db' = [db EXCEPT ![n] = disk[n]]
    /\ NodeGone(n)
    /\ UNCHANGED <<disk, reqs, histVars>>

(* The process dies in Database::save at its exit: the files are removed   *)
(* first, so the list is in neither.  (A file half written keeps the       *)
(* process from starting again: then it does nothing more.)                *)
CrashInSave(n) ==
    /\ n \in Stoppable \cap CrashProne
    /\ n \in Clients => mainPc[n] = "menu" /\ lstPc[n] = "idle"
    /\ db' = [db EXCEPT ![n] = NoCopy]
    /\ disk' = [disk EXCEPT ![n] = NoCopy]
    /\ NodeGone(n)
    /\ UNCHANGED <<reqs, histVars>>

ClientStep(c) ==
    \/ CreateList(c)
    \/ GetList(c)
    \/ OpenList(c)
    \/ \E i \in Items, q \in Quantities : AddItem(c, i, q) \/ BuyItem(c, i, q)
    \/ SaveRead(c)
    \/ SaveWrite(c)
    \/ DeleteList(c)
    \/ Resubscribe(c)
    \/ ReceiveUpdate(c)
    \/ ListenerGet(c)
    \/ ListenerMerge(c)
    \/ ListenerCreate(c)

Next ==
    \/ \E c \in Clients : ClientStep(c)
    \/ \E r \in reqs : HandleRequest(r)
    \/ \E n \in Nodes : Restart(n) \/ Crash(n) \/ CrashInSave(n)

Spec == Init /\ [][Next]_vars

-----------------------------------------------------------------------------
(* Properties. *)

(* Every copy of the list there is, wherever it is held. *)
Copies ==
    ({db[n] : n \in Nodes} \cup {disk[n] : n \in Nodes}
     \cup {session[c] : c \in Clients} \cup {saveBase[c] : c \in Clients}
     \cup {update[c] : c \in Clients} \cup {lstBase[c] : c \in Clients}
     \cup {r.list : r \in reqs}
     \cup UNION {{pubs[c][k] : k \in 1 .. Len(pubs[c])} : c \in Clients})
    \ {NoCopy}

(* No two edits ever got the same dot (DotContext::nextDot is called on    *)
(* many copies by many processes; all of DotKernel::join and contains rest *)
(* on dots naming one edit each).                                          *)
DotsUnique == UniqueDots(minted)

(* Strong convergence: two copies that have seen the same edits hold the   *)
(* same entries, whatever the joins, overwrites and losses on the way      *)
(* (ShoppingList::join, updateList, saveListToLocal, handleRequest).       *)
StrongConvergence ==
    \A l, m \in Copies : l.vc = m.vc => l.map = m.map

(* In any copy a replica contributes at most one value to an item, so no   *)
(* quantity is counted twice and the maximum CausalCounter::inc and ::dec  *)
(* take over a replica's own values is over one value; and every entry is  *)
(* one the copy's clock has seen, so nextDot cannot return its dot.  This  *)
(* is to hold whatever races and crashes there were before.                *)
NoDoubleCount ==
    \A l \in Copies :
        /\ \A e, f \in l.map : e.item = f.item /\ e.rep = f.rep => e = f
        /\ \A e \in l.map : Seen(l.vc, e)

(* The entries of every copy are the ones its version vector calls for: of *)
(* each replica and item the last edit it has seen.  No edit marked as     *)
(* seen is missing and no superseded one is back, after any sequence of    *)
(* inc, dec, joins and overwrites in any process.                          *)
Determined == \A l \in Copies : Faithful(minted, l)

(* The last sequence number of the id a client edits under. *)
Lead(c) ==
    IF mainPc[c] = "menu" THEN db[c].vc[db[c].id] ELSE session[c].vc[db[c].id]

(* The clock of a replica id never runs ahead of the client that edits     *)
(* under it: what the cloud or another client knows of an id, its owner    *)
(* has in its session or its database (a save or an update that writes     *)
(* back an older copy breaks this, and dots get reused).                   *)
OwnerLeads ==
    \A c \in Clients : db[c] # NoCopy =>
        \A l \in Copies : l.vc[db[c].id] <= Lead(c)

(* While a client keeps the list, its database never forgets an edit it    *)
(* had seen and never changes the id it edits under, whichever thread      *)
(* writes (saveListToLocal and updateList).                                *)
LocalNeverForgets ==
    [][\A c \in Clients : db[c] # NoCopy /\ db'[c] # NoCopy =>
          /\ db'[c].id = db[c].id
          /\ \A r \in Reps : db[c].vc[r] <= db'[c].vc[r]]_vars

(* A running worker's stored list loses edits only to a CREATE_LIST that   *)
(* arrives late (handleRequest overwrites on it), never to an update.      *)
CloudForgetsOnlyOnCreate ==
    [][\A w \in Workers :
          \/ w \in CrashProne /\ db'[w] = disk'[w]
          \/ \E r \in reqs \ reqs' : r.type = "CREATE_LIST" /\ r.to = w
          \/ db[w] = NoCopy
          \/ db'[w] # NoCopy /\ \A r \in Reps : db[w].vc[r] <= db'[w].vc[r]]_vars

(* The application implements one shared list kept in many places: every   *)
(* step of every thread and process, seen through the databases, is an     *)
(* edit, one place hearing of more edits in their editors' order, or one   *)
(* place dropping its copy; only workers are ever left with less.          *)
HeardAt(n) == IF db[n] = NoCopy THEN {} ELSE {e \in minted : Seen(db[n].vc, e)}

HeldAt(n) == IF db[n] = NoCopy THEN {} ELSE db[n].map

Shared == INSTANCE SharedList WITH
    Edits <- Entry, Places <- Nodes, Forgetful <- Workers, made <- minted,
    heard <- [n \in Nodes |-> HeardAt(n)], held <- [n \in Nodes |-> HeldAt(n)]

IsSharedList == Shared!Spec

(* Buying q of an item makes it read q less for the buyer                  *)
(* (buyProductsFromList over CausalCounter::dec).                          *)
BuySubtracts ==
    [][\A c \in Clients, i \in Items, q \in Quantities :
          BuyItem(c, i, q) => Read(session'[c], i) = Read(session[c], i) - q]_vars

-----------------------------------------------------------------------------
(* The inductive invariant behind Determined, OwnerLeads and               *)
(* LocalNeverForgets, for Serialized schedules in which no client dies     *)
(* without saving.                                                         *)

(* Where each thread of a client is says what its database holds. *)
ThreadInv ==
    \A c \in Clients :
        /\ mainPc[c] # "menu" => db[c] # NoCopy /\ session[c].id = db[c].id
        /\ mainPc[c] = "save" => saveBase[c] = db[c] /\ lstPc[c] = "idle"
        /\ lstPc[c] \in {"get", "merge"} => db[c] # NoCopy
        /\ lstPc[c] = "merge" => lstBase[c] = db[c]
        /\ lstPc[c] = "create" => db[c] = NoCopy

(* No two clients edit under one id, no id is in use before it is          *)
(* generated, and nothing moves before the list is created.                *)
IdInv ==
    /\ \A c \in Clients : db[c] # NoCopy => db[c].id \in used
    /\ \A c, d \in Clients : c # d /\ db[c] # NoCopy /\ db[d] # NoCopy => db[c].id # db[d].id
    /\ \A e \in minted : e.rep \in used
    /\ used = {} => /\ reqs = {}
                    /\ \A c \in Clients : pubs[c] = <<>> /\ lstPc[c] = "idle"

LeadInv ==
    \A c \in Clients : db[c] # NoCopy =>
        \A e \in minted : e.rep = db[c].id => e.seq <= Lead(c)

CopyInv ==
    \A l \in Copies : Faithful(minted, l) /\ Grounded(minted, l.vc)

SerialInv == ThreadInv /\ IdInv /\ LeadInv /\ UniqueDots(minted) /\ CopyInv
=============================================================================
