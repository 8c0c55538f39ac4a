----------------------------- MODULE DeviceStore -----------------------------
(***************************************************************************)
(* The devices the user has added (AiertDeviceCoreDataManager.m,           *)
(* AiertDeviceCoreDataStorage.m) and the screens that add, edit, delete    *)
(* and search them (DeviceListViewController.m, AddCameraViewController.m, *)
(* EditDeviceViewController.m, SearchDeviceInLanViewController.m).         *)
(*                                                                         *)
(* A request passes two serial queues: the manager's moduleQueue, which    *)
(* hands it to the storage and announces it at once to the screens that    *)
(* are registered, and the storage's own queue, which looks the device up  *)
(* and changes its row.  Announcements, and the rows once they are saved,  *)
(* come back on the main queue.  When rows are saved, and that the main    *)
(* context takes them over, is CoreDataStorage's, a binary (external): it  *)
(* saves when nothing is pending and may save before.  The app may be      *)
(* killed at any time; the file remains.                                   *)
(***************************************************************************)
EXTENDS Integers, Sequences, FiniteSets, SequencesExt

CONSTANTS
    Devices,     \* device ids
    Users,       \* user name and password
    NoUser,      \* of a device found in the LAN
    File,        \* what the file holds when the app starts
    MaxTouches   \* bound on what the user does: screens opened, searches,
                 \* requests, and killing the app

\* The devices of rows, and that no two rows are for the same one.
IdsOf(rs) == {r.id : r \in Range(rs)}
EachOnce(rs) == \A i, j \in DOMAIN rs : rs[i].id = rs[j].id => i = j

Row == [id : Devices, user : Users \union {NoUser}]

ASSUME DeviceAssumption ==
    /\ Devices # {} /\ NoUser \notin Users
    /\ File \in Seq(Row) /\ EachOnce(File)
    /\ MaxTouches \in Nat

VARIABLES
    screen,   \* the screen above the device list, numbered by its visit
    draft,    \* the user of the device object each edit screen holds
    found,    \* search screen: devices found, and whether shown as added
    pinged,   \* search screen: a ping was sent
    busy,     \* search screen: the busy display
    timers,   \* search screen: 20 s timers that run
    hud,      \* the "adding" display, which takes all touches
    module,   \* moduleQueue
    listens,  \* the multicast delegate: visits registered
    storage,  \* the storage's queue
    rows,     \* the storage's context
    saved,    \* the file
    main,     \* blocks waiting on the main queue
    shown,    \* the main context: what the device list shows
    touches,  \* what the user did so far
    seen      \* history

vars == <<screen, draft, found, pinged, busy, timers, hud, module, listens,
          storage, rows, saved, main, shown, touches, seen>>

screenVars == <<draft, found, pinged, busy, timers>>
storeVars == <<storage, rows, saved>>

NoneFound == [d \in {} |-> FALSE]
List(visit) == [name |-> "list", visit |-> visit, device |-> CHOOSE d \in Devices : TRUE]

RowsAsWish(rs) == [d \in IdsOf(rs) |-> (CHOOSE r \in Range(rs) : r.id = d).user]

\* What the user has asked for, as devices and their users: request by request
\* since the queues were last empty.
Wish == Last(seen.wishes)
AllDone == module = <<>> /\ storage = <<>>
Wishes(wish) == IF AllDone THEN <<Wish, wish>> ELSE Append(seen.wishes, wish)

\* The users typed in edit screens, with the wish they were part of.
Typed(d, u, n) == [of |-> d, user |-> u, wish |-> n]
Without(w, d) == [x \in DOMAIN w \ {d} |-> w[x]]
With(w, d, u) == [x \in DOMAIN w \union {d} |-> IF x = d THEN u ELSE w[x]]

Init ==
    /\ screen = List(0)
    /\ draft = <<>> /\ found = NoneFound /\ pinged = FALSE
    /\ busy = FALSE /\ timers = 0 /\ hud = FALSE
    /\ module = <<>> /\ listens = {} /\ storage = <<>>
    /\ rows = File /\ saved = File /\ main = <<>> /\ shown = File
    /\ touches = 0
    /\ seen = [wishes |-> <<RowsAsWish(File)>>, known |-> {},
               asked |-> {}, closed |-> {}, typed |-> {}]

-----------------------------------------------------------------------------
(* The main thread: what the user does.                                     *)

Touch == touches < MaxTouches /\ touches' = touches + 1

\* A request to the manager: one block on moduleQueue.
Request(op, wish, typed) ==
    /\ Touch /\ ~hud
    /\ module' = Append(module, op)
    /\ seen' = [seen EXCEPT !.wishes = Wishes(wish),
                            !.asked = @ \union {op.visit},
                            !.typed = (IF AllDone THEN {} ELSE @) \union
                                {Typed(op.id, u, Len(Wishes(wish))) : u \in typed}]

\* AddCameraViewController: the form adds the device and closes.
AddByHand(d, u) ==
    /\ screen.name = "list"
    /\ Request([kind |-> "add", id |-> d, user |-> u, visit |-> 0], With(Wish, d, u), {})
    /\ UNCHANGED <<screen, screenVars, hud, listens, storeVars, main, shown>>

\* The device list: a row is swiped away.
DeleteRow(d) ==
    /\ screen.name = "list" /\ d \in IdsOf(shown)
    /\ Request([kind |-> "delete", id |-> d, visit |-> 0], Without(Wish, d), {})
    /\ UNCHANGED <<screen, screenVars, hud, listens, storeVars, main, shown>>

\* A screen opens; viewWillAppear registers it through moduleQueue.
Open(name, d) ==
    /\ screen.name = "list" /\ Touch /\ ~hud
    /\ screen' = [name |-> name, visit |-> screen.visit + 1, device |-> d]

\* Mutant of Register: the screen is registered without moduleQueue.
RegisterAtOnce(name, v) ==
    listens' = listens \union {[name |-> name, visit |-> v]} /\ UNCHANGED module

Register(name, v) ==
    /\ module' = Append(module, [kind |-> "register", name |-> name, visit |-> v])
    /\ UNCHANGED listens

OpenEdit(d) ==
    /\ d \in IdsOf(shown)
    /\ Open("edit", d) /\ Register("edit", screen'.visit)
    /\ draft' = Append(draft, NoUser)
    /\ UNCHANGED <<found, pinged, busy, timers, hud, storeVars, main, shown, seen>>

\* The edit screen changes the device object it holds, and asks with it.
Save(u) ==
    /\ screen.name = "edit"
    /\ draft' = [draft EXCEPT ![screen.visit] = u]
    /\ Request([kind |-> "edit", id |-> screen.device, visit |-> screen.visit],
               IF screen.device \in DOMAIN Wish THEN With(Wish, screen.device, u) ELSE Wish,
               {u})
    /\ UNCHANGED <<screen, found, pinged, busy, timers, hud, listens, storeVars, main, shown>>

DeleteShown ==
    /\ screen.name = "edit"
    /\ Request([kind |-> "delete", id |-> screen.device, visit |-> screen.visit],
               Without(Wish, screen.device), {})
    /\ UNCHANGED <<screen, screenVars, hud, listens, storeVars, main, shown>>

-----------------------------------------------------------------------------
(* The search screen.                                                       *)

\* Mutant of ShowBusy: no timer ends the display.
ShowBusyUntimed == busy' = TRUE /\ UNCHANGED timers

ShowBusy == busy' = TRUE /\ timers' = timers + 1

\* Opening searches at once; without WiFi nothing is sent.
OpenSearch ==
    /\ Open("search", screen.device) /\ Register("search", screen'.visit)
    /\ draft' = Append(draft, NoUser)
    /\ found' = NoneFound /\ pinged' \in BOOLEAN
    /\ ShowBusy
    /\ seen' = [seen EXCEPT !.known = IF AllDone THEN Range(rows) ELSE {}]
    /\ UNCHANGED <<hud, storeVars, main, shown>>

\* The refresh button is off while the display is on.
Refresh ==
    /\ screen.name = "search" /\ ~busy /\ ~hud
    /\ Touch
    /\ ShowBusy
    /\ pinged' \in {pinged, TRUE}
    /\ UNCHANGED <<screen, draft, found, hud, module, listens, storeVars, main,
                   shown, seen>>

\* Mutant of AlreadyAdded: what the file holds is not looked up.
AlreadyAddedNever(d) == FALSE

\* deviceHasBeenAddedWithID: a fetch, which sees what has been saved.
AlreadyAdded(d) == d \in IdsOf(saved)

\* An answer, at any time after a ping; only a device new to the screen ends
\* the display, by a block of its own.
Find(d) ==
    /\ screen.name = "search" /\ pinged /\ d \notin DOMAIN found
    /\ found' = [x \in DOMAIN found \union {d} |->
                    IF x = d THEN AlreadyAdded(d) ELSE found[x]]
    /\ main' = Append(main, [kind |-> "busyOff", visit |-> screen.visit])
    /\ UNCHANGED <<screen, draft, pinged, busy, timers, hud, module, listens,
                   storeVars, shown, touches, seen>>

\* A timer of an earlier search ends the display of a later one.
TimerFires ==
    /\ screen.name = "search" /\ timers > 0
    /\ timers' = timers - 1
    /\ main' = IF busy THEN Append(main, [kind |-> "busyOff", visit |-> screen.visit])
               ELSE main
    /\ UNCHANGED <<screen, draft, found, pinged, busy, hud, module, listens,
                   storeVars, shown, touches, seen>>

AddFound(d) ==
    /\ screen.name = "search" /\ d \in DOMAIN found /\ ~found[d]
    /\ Request([kind |-> "add", id |-> d, user |-> NoUser, visit |-> screen.visit],
               With(Wish, d, NoUser), {})
    /\ hud' = TRUE
    /\ found' = [found EXCEPT ![d] = TRUE]
    /\ UNCHANGED <<screen, draft, pinged, busy, timers, listens, storeVars, main, shown>>

-----------------------------------------------------------------------------
(* Leaving a screen: the search screen when it begins to go, the edit       *)
(* screen when it has gone, waits for moduleQueue to have taken it off; the *)
(* main thread does nothing else meanwhile.                                 *)

\* Mutant of Leave: the screen does not wait.
LeaveAtOnce ==
    /\ module' = Append(module, [kind |-> "remove", visit |-> screen.visit])
    /\ screen' = List(screen.visit)

Leave ==
    /\ module' = Append(module, [kind |-> "remove", visit |-> screen.visit])
    /\ screen' = [screen EXCEPT !.name = "leaving"]

BackFromSearch ==
    /\ screen.name = "search" /\ ~hud
    /\ Leave
    /\ found' = NoneFound /\ pinged' = FALSE /\ busy' = FALSE /\ timers' = 0
    /\ seen' = [seen EXCEPT !.known = {}]
    /\ UNCHANGED <<draft, hud, listens, storeVars, main, shown, touches>>

\* The user takes nothing in while the screen slides away.
SlideAway == screen' = [screen EXCEPT !.name = "closing"]

BackFromEdit ==
    /\ screen.name = "edit"
    /\ SlideAway
    /\ UNCHANGED <<screenVars, hud, module, listens, storeVars, main, shown, touches, seen>>

EditHasGone ==
    /\ screen.name = "closing"
    /\ Leave
    /\ UNCHANGED <<screenVars, hud, listens, storeVars, main, shown, touches, seen>>

-----------------------------------------------------------------------------
(* moduleQueue: the manager.                                                *)

Op == Head(module)
ModuleDone == module' = Tail(module)
IsRequest(op) == op.kind \in {"add", "delete", "edit"}

\* The manager fills its dictionary in from the device object, then hands it on.
UserOf(op) == CASE op.kind = "add"    -> op.user
                [] op.kind = "edit"   -> draft[op.visit]
                [] op.kind = "delete" -> NoUser

HandOn ==
    /\ module # <<>> /\ IsRequest(Op)
    /\ storage' = Append(storage, [kind |-> Op.kind, id |-> Op.id, user |-> UserOf(Op)])
    /\ module' = <<[kind |-> "announce", of |-> Op.kind]>> \o Tail(module)
    /\ UNCHANGED <<screen, screenVars, hud, listens, rows, saved, main, shown, touches, seen>>

\* The screens that answer an announcement.
Hears(name, of) == IF of = "add" THEN name = "search" ELSE name = "edit"

\* The announcement follows as soon as the storage has queued the change.
Announce ==
    /\ module # <<>> /\ Op.kind = "announce"
    /\ main' = main \o SetToSeq({[kind |-> Op.of, visit |-> l.visit] :
                                  l \in {x \in listens : Hears(x.name, Op.of)}})
    /\ ModuleDone
    /\ UNCHANGED <<screen, screenVars, hud, listens, storeVars, shown, touches, seen>>

RunRegister ==
    /\ module # <<>> /\ Op.kind = "register"
    /\ listens' = listens \union {[name |-> Op.name, visit |-> Op.visit]}
    /\ ModuleDone
    /\ UNCHANGED <<screen, screenVars, hud, storeVars, main, shown, touches, seen>>

RunRemove ==
    /\ module # <<>> /\ Op.kind = "remove"
    /\ listens' = {l \in listens : l.visit # Op.visit}
    /\ screen' = List(screen.visit)
    /\ ModuleDone
    /\ UNCHANGED <<screenVars, hud, storeVars, main, shown, touches, seen>>

-----------------------------------------------------------------------------
(* The storage's queue.                                                     *)

\* Rows of the device of b are given the user of b.
Overwrite(rs, b) ==
    [i \in DOMAIN rs |-> IF rs[i].id = b.id THEN [rs[i] EXCEPT !.user = b.user] ELSE rs[i]]

\* Mutant of AddDevice: the device is not looked up before it is inserted.
AddDeviceAlways(rs, b) == Append(rs, [id |-> b.id, user |-> b.user])

\* A device that is there is overwritten, user name and password included.
AddDevice(rs, b) ==
    IF b.id \in IdsOf(rs) THEN Overwrite(rs, b)
    ELSE Append(rs, [id |-> b.id, user |-> b.user])

\* The one row that is found is deleted.
DeleteDevice(rs, b) ==
    IF b.id \in IdsOf(rs) THEN RemoveAt(rs, CHOOSE i \in DOMAIN rs : rs[i].id = b.id)
    ELSE rs

EditDevice(rs, b) == Overwrite(rs, b)

RunStorage ==
    /\ storage # <<>>
    /\ LET b == Head(storage)
       IN  rows' = CASE b.kind = "add"    -> AddDevice(rows, b)
                     [] b.kind = "delete" -> DeleteDevice(rows, b)
                     [] b.kind = "edit"   -> EditDevice(rows, b)
    /\ storage' = Tail(storage)
    /\ \E save \in BOOLEAN :
          /\ Tail(storage) = <<>> => save
          /\ saved' = IF save THEN rows' ELSE saved
          /\ main' = IF save THEN Append(main, [kind |-> "merge", rows |-> rows']) ELSE main
    /\ UNCHANGED <<screen, screenVars, hud, module, listens, shown, touches, seen>>

-----------------------------------------------------------------------------
(* The main queue.                                                          *)

Block == Head(main)
MainTakes(kinds) ==
    /\ main # <<>> /\ screen.name # "leaving" /\ Block.kind \in kinds
    /\ main' = Tail(main)

\* The search screen's delegate method.
DidAdd ==
    /\ MainTakes({"add"})
    /\ hud' = FALSE
    /\ UNCHANGED <<screen, screenVars, module, listens, storeVars, shown, touches, seen>>

\* The edit screen's delegate methods pop it, if it is still there; below it
\* is the device list, which cannot be popped.
DidChange ==
    /\ MainTakes({"delete", "edit"})
    /\ IF screen.visit = Block.visit /\ screen.name = "edit"
       THEN SlideAway /\ seen' = [seen EXCEPT !.closed = @ \union {Block.visit}]
       ELSE UNCHANGED <<screen, seen>>
    /\ UNCHANGED <<screenVars, hud, module, listens, storeVars, shown, touches>>

BusyOff ==
    /\ MainTakes({"busyOff"})
    /\ busy' = (busy /\ screen.visit # Block.visit)
    /\ UNCHANGED <<screen, draft, found, pinged, timers, hud, module, listens,
                   storeVars, shown, touches, seen>>

Merge ==
    /\ MainTakes({"merge"})
    /\ shown' = Block.rows
    /\ UNCHANGED <<screen, screenVars, hud, module, listens, storeVars, touches, seen>>

-----------------------------------------------------------------------------
\* The app is killed and started again: only the file is left.
Kill ==
    /\ Touch
    /\ screen' = List(screen.visit)
    /\ found' = NoneFound /\ pinged' = FALSE /\ busy' = FALSE /\ timers' = 0
    /\ hud' = FALSE
    /\ module' = <<>> /\ listens' = {} /\ storage' = <<>> /\ main' = <<>>
    /\ rows' = saved /\ shown' = saved
    /\ seen' = [seen EXCEPT !.wishes = <<RowsAsWish(saved)>>, !.typed = {},
                            !.known = {}]
    /\ UNCHANGED <<draft, saved>>

User ==
    \/ \E d \in Devices : \/ \E u \in Users : AddByHand(d, u)
                          \/ DeleteRow(d) \/ OpenEdit(d) \/ AddFound(d)
    \/ \E u \in Users : Save(u)
    \/ DeleteShown \/ OpenSearch \/ Refresh \/ BackFromSearch \/ BackFromEdit

ModuleQueue == HandOn \/ Announce \/ RunRegister \/ RunRemove
MainQueue == DidAdd \/ DidChange \/ BusyOff \/ Merge \/ EditHasGone

Next == \/ User \/ Kill \/ (\E d \in Devices : Find(d)) \/ TimerFires
        \/ ModuleQueue \/ RunStorage \/ MainQueue

Spec == Init /\ [][Next]_vars

\* The queues go on and timers fire.
FairSpec == Spec /\ WF_vars(ModuleQueue) /\ WF_vars(RunStorage)
                 /\ WF_vars(MainQueue) /\ WF_vars(TimerFires)

-----------------------------------------------------------------------------
\* Every variable has its type; and the main thread waits in a screen it
\* leaves exactly as long as moduleQueue has that screen to take off, so that
\* no screen is left while it is registered (EditDeviceViewController.m 89-93).
DeviceTypeOK ==
    /\ screen \in [name : {"list", "edit", "closing", "search", "leaving"},
                   visit : 0 .. MaxTouches, device : Devices]
    /\ DOMAIN found \subseteq Devices /\ {pinged, busy, hud} \subseteq BOOLEAN
    /\ timers \in 0 .. MaxTouches
    /\ {rows, saved, shown} \subseteq Seq(Row)
    /\ listens \subseteq [name : {"edit", "search"}, visit : 1 .. MaxTouches]
    /\ screen.name = "leaving" <=> \E i \in DOMAIN module : module[i].kind = "remove"

\* Rows are the effect of the first n requests, but for users typed later.
Follows(rs, n) ==
    /\ EachOnce(rs) /\ IdsOf(rs) = DOMAIN seen.wishes[n]
    /\ \A r \in Range(rs) :
          \/ r.user = seen.wishes[n][r.id]
          \/ \E m \in n + 1 .. Len(seen.wishes) : Typed(r.id, r.user, m) \in seen.typed

\* The rows are what the user asked for: in the file, at any time, the effect
\* of the first n requests since the queues were last empty, each device once;
\* and when they are empty again, of all of them, in the list as well
\* (AiertDeviceCoreDataStorage.m 75-141).  An edit may come early: a request is
\* filled in when moduleQueue runs it, from the object its screen still holds,
\* so that the user name of a later save of that device may be in the file
\* already (AiertDeviceCoreDataManager.m 246-257).
StoreFollowsRequests ==
    /\ \E n \in DOMAIN seen.wishes : Follows(saved, n)
    /\ AllDone => /\ RowsAsWish(saved) = Wish
                  /\ main = <<>> => shown = saved

\* A search never takes the user name and password from a device that was in
\* the store when the screen opened with nothing under way: such a device is
\* shown as added (SearchDeviceInLanViewController.m 361-363).
SearchKeepsKnown == screen.name = "search" => seen.known \subseteq Range(rows)

\* An edit screen is closed by an announcement only if it made a request of its
\* own: the screen registers behind what was asked before it opened, and a
\* screen that is gone is not closed again (EditDeviceViewController.m 83-93).
ClosesForItsOwn == seen.closed \subseteq seen.asked

\* The search screen of a visit listens, or will before the i-th block runs.
WillListen(v, i) ==
    \/ [name |-> "search", visit |-> v] \in listens
    \/ \E j \in 1 .. i - 1 :
          module[j] = [kind |-> "register", name |-> "search", visit |-> v]

\* A block of moduleQueue that announces an addition, or will leave one that does.
Adds(b) == b.kind = "add" \/ (b.kind = "announce" /\ b.of = "add")

\* What ends a display is under way as long as it is on: a timer or an answer for
\* busy; for "adding" an announcement, or an addition that finds the screen
\* registered when it is announced.  An addition announced ahead of the
\* registration would leave a screen that takes no touches
\* (SearchDeviceInLanViewController.m 251, 302-321, 352-357).
DisplayEndUnderWay ==
    /\ busy => \/ timers > 0
               \/ \E i \in 1 .. Len(main) :
                     main[i] = [kind |-> "busyOff", visit |-> screen.visit]
    /\ hud => \/ \E i \in 1 .. Len(main) : main[i].kind = "add"
              \/ \E i \in 1 .. Len(module) : Adds(module[i]) /\ WillListen(screen.visit, i)

\* Neither display stays on: "adding", which takes all touches, is ended by the
\* announcement, and busy by an answer or its timer
\* (SearchDeviceInLanViewController.m 251, 302-321, 352-357).
DisplaysEnd == (hud ~> ~hud) /\ (busy ~> ~busy)
=============================================================================
