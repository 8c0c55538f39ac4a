------------------------- MODULE DeviceStore_proofs -------------------------
(* Proofs about DeviceStore, for any devices and users, whatever the file   *)
(* holds at the start, and any number of touches.                           *)
EXTENDS DeviceStore, FiniteSetTheorems, SequenceTheorems, TLAPS

-----------------------------------------------------------------------------
(* The inductive invariant.                                                *)

Visits == 0 .. MaxTouches
AnyUser == Users \union {NoUser}
Requests == {"add", "delete", "edit"}

Blocks == [kind : {"add"}, id : Devices, user : AnyUser, visit : Visits]
            \union [kind : {"delete", "edit"}, id : Devices, visit : Visits]
            \union [kind : {"register"}, name : {"edit", "search"}, visit : Visits]
            \union [kind : {"remove"}, visit : Visits]
            \union [kind : {"announce"}, of : Requests]
Changes == [kind : Requests, id : Devices, user : AnyUser]
News == [kind : Requests \union {"busyOff"}, visit : Visits]
          \union [kind : {"merge"}, rows : Seq(Row)]

AnyWish == UNION {[D -> AnyUser] : D \in SUBSET Devices}
Signatures == [of : Devices, user : AnyUser, wish : Nat]

ScreenType ==
    /\ screen \in [name : {"list", "edit", "closing", "search", "leaving"},
                   visit : Visits, device : Devices]
    /\ touches \in Visits /\ screen.visit <= touches
    /\ screen.name # "list" => screen.visit > 0
    /\ timers \in Nat /\ timers <= touches
    /\ draft \in Seq(AnyUser) /\ Len(draft) = screen.visit

FoundType == \E D \in SUBSET Devices : found \in [D -> BOOLEAN]

FlagType == pinged \in BOOLEAN /\ busy \in BOOLEAN /\ hud \in BOOLEAN

QueueType ==
    /\ module \in Seq(Blocks) /\ storage \in Seq(Changes) /\ main \in Seq(News)
    /\ listens \subseteq [name : {"edit", "search"}, visit : 1 .. MaxTouches]
    /\ IsFiniteSet(listens)

RowType == rows \in Seq(Row) /\ saved \in Seq(Row) /\ shown \in Seq(Row)

SeenType ==
    /\ seen \in [wishes : Seq(AnyWish), known : SUBSET Row, asked : SUBSET Visits,
                 closed : SUBSET Visits, typed : SUBSET Signatures]
    /\ Len(seen.wishes) > 0

\* What is on its way was made by this screen or by an earlier one; an edit of
\* this screen is of its device.
PastBlock(b) ==
    /\ b.kind \in Requests \union {"register"} => b.visit <= screen.visit
    /\ b.kind \in {"edit", "register"} => b.visit > 0
    /\ b.kind = "edit" /\ b.visit = screen.visit => b.id = screen.device

PastBlocks == \A i \in 1 .. Len(module) : PastBlock(module[i])
PastScreens == \A l \in listens : l.visit <= screen.visit
PastNews == \A i \in 1 .. Len(main) : main[i].kind # "merge" => main[i].visit <= screen.visit

Past == PastBlocks /\ PastScreens /\ PastNews

\* The main thread waits exactly while moduleQueue has its screen to take off,
\* which is the last thing it was given.
Leaving ==
    /\ \A i \in 1 .. Len(module) :
          module[i].kind = "remove" => i = Len(module) /\ screen.name = "leaving"
    /\ screen.name = "leaving" => Len(module) > 0 /\ module[Len(module)].kind = "remove"

\* What leads to an announcement that closes edit screens.
Closes(b) ==
    \/ b.kind \in {"delete", "edit"}
    \/ b.kind = "announce" /\ b.of \in {"delete", "edit"}

\* No such announcement reaches an edit screen that has asked for nothing: none
\* waits on the main queue, none is on moduleQueue once the screen listens, and
\* what was asked before lies ahead of its registration.
NoNews(v) ==
    \A i \in 1 .. Len(main) : main[i].kind \in {"delete", "edit"} => main[i].visit # v
Deaf(v) ==
    \A l \in listens : l.visit = v => \A i \in 1 .. Len(module) : ~Closes(module[i])
Behind(v) ==
    \A i \in 1 .. Len(module) :
        module[i].kind = "register" /\ module[i].visit = v =>
            \A j \in i + 1 .. Len(module) : ~Closes(module[j])

Fresh == screen.name = "edit" /\ screen.visit \notin seen.asked
Closing == Fresh => NoNews(screen.visit) /\ Deaf(screen.visit) /\ Behind(screen.visit)

\* What was in the store when a search opened is shown as added; nothing on its
\* way changes it.
KnownRow(r) ==
    /\ r \in Range(rows) /\ r.id \in IdsOf(saved)
    /\ r.id \in DOMAIN found => found[r.id]
    /\ \A i \in 1 .. Len(module) : IsRequest(module[i]) => module[i].id # r.id
    /\ \A i \in 1 .. Len(storage) : storage[i].id # r.id

Known ==
    /\ seen.known # {} => screen.name = "search"
    /\ \A r \in seen.known : KnownRow(r)

\* The list shows the file once the last rows that were saved have come.
LastMerge(i) ==
    /\ main[i].kind = "merge"
    /\ \A j \in i + 1 .. Len(main) : main[j].kind # "merge"

Shown ==
    /\ \A i \in 1 .. Len(main) : LastMerge(i) => main[i].rows = saved
    /\ (\A i \in 1 .. Len(main) : main[i].kind # "merge") => shown = saved

\* What a request of this kind makes of the devices asked for so far.
Effect(w, w2, kind, d, u) ==
    /\ kind = "add" => DOMAIN w2 = DOMAIN w \union {d} /\ w2[d] = u
    /\ kind = "delete" => DOMAIN w2 = DOMAIN w \ {d}
    /\ kind = "edit" => DOMAIN w2 = DOMAIN w
    /\ \A x \in DOMAIN w : x # d => w2[x] = w[x]

Num == Len(seen.wishes)

\* The k-th wish came of such a request; the user of an edit was typed with it
\* or with a later one.
Asked(k, kind, d, u) ==
    /\ k \in 2 .. Num
    /\ Effect(seen.wishes[k - 1], seen.wishes[k], kind, d, u)
    /\ kind = "edit" => \E m \in k .. Num : Typed(d, u, m) \in seen.typed

\* A user that was typed became part of the wish it was typed with.
TypedAgrees ==
    \A t \in seen.typed :
        /\ t.wish \in 2 .. Num
        /\ t.of \in DOMAIN seen.wishes[t.wish - 1] =>
              /\ t.of \in DOMAIN seen.wishes[t.wish]
              /\ seen.wishes[t.wish][t.of] = t.user

\* The storage has done what was asked up to the n-th wish, and its queue holds
\* the next requests.
Handed(n) ==
    \A i \in 1 .. Len(storage) :
        Asked(n + i, storage[i].kind, storage[i].id, storage[i].user)

\* moduleQueue holds the others, up to at[i] by its i-th block.
Counted(at) ==
    \A i \in 1 .. Len(module) :
        IF IsRequest(module[i])
        THEN /\ at[i] = at[i - 1] + 1
             /\ Asked(at[i], module[i].kind, module[i].id, UserOf(module[i]))
        ELSE at[i] = at[i - 1]

Numbered(n, at) ==
    /\ n \in 1 .. Num /\ Follows(rows, n) /\ Handed(n)
    /\ at \in [0 .. Len(module) -> 1 .. Num]
    /\ at[0] = n + Len(storage) /\ at[Len(module)] = Num
    /\ Counted(at)

Followed ==
    /\ TypedAgrees
    /\ storage = <<>> => saved = rows
    /\ \E n \in 1 .. Num :
          /\ \E at \in [0 .. Len(module) -> 1 .. Num] : Numbered(n, at)
          /\ \E k \in 1 .. n : Follows(saved, k)

Types == ScreenType /\ FoundType /\ FlagType /\ QueueType /\ RowType /\ SeenType

IInv == /\ Types /\ Past /\ Leaving /\ Closing /\ Known /\ Shown /\ Followed
        /\ ClosesForItsOwn

-----------------------------------------------------------------------------
(* What the operations on queues do to what is in them.                    *)

\* A block goes to the end of a queue.
LEMMA AppendSeq ==
    ASSUME NEW S, NEW q \in Seq(S), NEW e \in S
    PROVE  /\ Append(q, e) \in Seq(S) /\ Len(q) \in Nat
           /\ Len(Append(q, e)) = Len(q) + 1
           /\ \A i \in 1 .. Len(q) : Append(q, e)[i] = q[i]
           /\ Append(q, e)[Len(q) + 1] = e
BY AppendProperties, LenProperties

\* The block at the head of a queue is done.
LEMMA TailSeq ==
    ASSUME NEW S, NEW q \in Seq(S), q # <<>>
    PROVE  /\ Len(q) \in Nat \ {0} /\ Head(q) = q[1] /\ Head(q) \in S
           /\ Tail(q) \in Seq(S) /\ Len(Tail(q)) = Len(q) - 1
           /\ \A i \in 1 .. Len(q) - 1 : Tail(q)[i] = q[i + 1]
BY HeadTailProperties, EmptySeq, LenProperties

\* One queue behind another.
LEMMA ConcatSeq ==
    ASSUME NEW S, NEW q \in Seq(S), NEW r \in Seq(S)
    PROVE  /\ q \o r \in Seq(S) /\ Len(q) \in Nat /\ Len(r) \in Nat
           /\ Len(q \o r) = Len(q) + Len(r)
           /\ \A i \in 1 .. Len(q) : (q \o r)[i] = q[i]
           /\ \A i \in 1 .. Len(r) : (q \o r)[Len(q) + i] = r[i]
<1>1. /\ q \o r \in Seq(S) /\ Len(q) \in Nat /\ Len(r) \in Nat
      /\ Len(q \o r) = Len(q) + Len(r)
      /\ \A i \in 1 .. Len(q) + Len(r) :
            (q \o r)[i] = IF i <= Len(q) THEN q[i] ELSE r[i - Len(q)]
  BY ConcatProperties, LenProperties
<1>2. ASSUME NEW i \in 1 .. Len(q) PROVE (q \o r)[i] = q[i]
  BY <1>1
<1>3. ASSUME NEW i \in 1 .. Len(r) PROVE (q \o r)[Len(q) + i] = r[i]
  <2>1. Len(q) + i \in 1 .. Len(q) + Len(r) /\ ~(Len(q) + i <= Len(q))
        /\ Len(q) + i - Len(q) = i
    BY <1>1
  <2>. QED
    BY <1>1, <2>1
<1>. QED
  BY <1>1, <1>2, <1>3

\* The block at the head of a queue is replaced.
LEMMA ReplaceSeq ==
    ASSUME NEW S, NEW q \in Seq(S), q # <<>>, NEW e \in S, NEW o, o = <<e>> \o Tail(q)
    PROVE  /\ o \in Seq(S) /\ Len(q) \in Nat \ {0} /\ Len(o) = Len(q)
           /\ o[1] = e /\ \A i \in 2 .. Len(q) : o[i] = q[i]
<1>1. /\ Len(q) \in Nat \ {0} /\ Tail(q) \in Seq(S) /\ Len(Tail(q)) = Len(q) - 1
      /\ \A i \in 1 .. Len(q) - 1 : Tail(q)[i] = q[i + 1]
  BY TailSeq
<1>0. PICK r : r = Tail(q)
  OBVIOUS
<1>2. PICK p : p = <<e>>
  OBVIOUS
<1>3. p \in Seq(S) /\ Len(p) = 1 /\ p[1] = e
  BY <1>2
<1>4. /\ p \o r \in Seq(S) /\ Len(p \o r) = Len(q)
      /\ (p \o r)[1] = e
      /\ \A i \in 1 .. Len(q) - 1 : (p \o r)[1 + i] = r[i]
  <2>1. /\ p \o r \in Seq(S)
        /\ Len(p \o r) = Len(p) + Len(r)
        /\ \A i \in 1 .. Len(p) : (p \o r)[i] = p[i]
        /\ \A i \in 1 .. Len(r) : (p \o r)[Len(p) + i] = r[i]
    <3>1. p \in Seq(S) /\ r \in Seq(S)
      BY <1>1, <1>0, <1>3
    <3>2. p \o r \in Seq(S) /\ Len(p \o r) = Len(p) + Len(r)
      BY <3>1, ConcatSeq
    <3>3. \A i \in 1 .. Len(p) : (p \o r)[i] = p[i]
      BY <3>1, ConcatSeq
    <3>4. \A i \in 1 .. Len(r) : (p \o r)[Len(p) + i] = r[i]
      BY <3>1, ConcatSeq
    <3>. QED
      BY <3>2, <3>3, <3>4
  <2>. QED
    BY <1>1, <1>0, <1>3, <2>1
<1>5. ASSUME NEW i \in 2 .. Len(q) PROVE (p \o r)[i] = q[i]
  <2>1. i - 1 \in 1 .. Len(q) - 1 /\ 1 + (i - 1) = i /\ (i - 1) + 1 = i
    BY <1>1
  <2>. QED
    BY <1>1, <1>0, <1>4, <2>1
<1>6. o = p \o r
  BY <1>0, <1>2
<1>. QED
  BY <1>1, <1>4, <1>5, <1>6

\* A request that is handed on leaves its announcement in its place.
LEMMA HandOnQueue ==
    ASSUME module \in Seq(Blocks), HandOn,
           NEW ann, ann = [kind |-> "announce", of |-> Op.kind]
    PROVE  /\ ann \in Blocks /\ module' \in Seq(Blocks)
           /\ Len(module') = Len(module) /\ module'[1] = ann
           /\ \A i \in 2 .. Len(module) : module'[i] = module[i]
<1>1. ann \in Blocks
  BY DEF HandOn, IsRequest, Blocks, Requests
<1>2. module # <<>> /\ module' = <<ann>> \o Tail(module)
  BY DEF HandOn
<1>3. PICK o : o = module'
  OBVIOUS
<1>4. /\ o \in Seq(Blocks) /\ Len(o) = Len(module) /\ o[1] = ann
      /\ \A i \in 2 .. Len(module) : o[i] = module[i]
  BY <1>1, <1>2, <1>3, ReplaceSeq
<1>. QED
  BY <1>1, <1>3, <1>4

\* One row is taken out.
LEMMA RemoveSeq ==
    ASSUME NEW S, NEW q \in Seq(S), NEW k \in 1 .. Len(q),
           NEW o, o = RemoveAt(q, k)
    PROVE  /\ o \in Seq(S) /\ Len(o) = Len(q) - 1
           /\ \A i \in 1 .. k - 1 : o[i] = q[i]
           /\ \A i \in k .. Len(q) - 1 : o[i] = q[i + 1]
<1>1. /\ Len(q) \in Nat /\ k \in Nat \ {0} /\ k <= Len(q)
      /\ \A j \in 1 .. Len(q) : q[j] \in S
  BY LenProperties, ElementOfSeq
<1>2. PICK f : f = SubSeq(q, 1, k - 1)
  OBVIOUS
<1>3. PICK g : g = SubSeq(q, k + 1, Len(q))
  OBVIOUS
<1>4. /\ f \in Seq(S) /\ Len(f) = k - 1
      /\ \A j \in 1 .. k - 1 : f[j] = q[j]
  <2>1. \A j \in 1 .. k - 1 : q[j] \in S
    BY <1>1
  <2>2. /\ f \in Seq(S) /\ Len(f) = IF 1 <= k - 1 THEN (k - 1) - 1 + 1 ELSE 0
        /\ \A j \in 1 .. (k - 1) - 1 + 1 : f[j] = q[1 + j - 1]
    BY <1>1, <1>2, <2>1, SubSeqProperties
  <2>3. ASSUME NEW j \in 1 .. k - 1 PROVE f[j] = q[j]
    <3>1. j \in 1 .. (k - 1) - 1 + 1 /\ 1 + j - 1 = j
      BY <1>1
    <3>. QED
      BY <2>2, <3>1
  <2>. QED
    BY <1>1, <2>2, <2>3
<1>5. /\ g \in Seq(S) /\ Len(g) = Len(q) - k
      /\ \A j \in 1 .. Len(q) - k : g[j] = q[k + j]
  <2>1. \A j \in k + 1 .. Len(q) : q[j] \in S
    BY <1>1
  <2>2. /\ g \in Seq(S)
        /\ Len(g) = IF k + 1 <= Len(q) THEN Len(q) - (k + 1) + 1 ELSE 0
        /\ \A j \in 1 .. Len(q) - (k + 1) + 1 : g[j] = q[(k + 1) + j - 1]
    BY <1>1, <1>3, <2>1, SubSeqProperties
  <2>3. ASSUME NEW j \in 1 .. Len(q) - k PROVE g[j] = q[k + j]
    <3>1. j \in 1 .. Len(q) - (k + 1) + 1 /\ (k + 1) + j - 1 = k + j
      BY <1>1
    <3>. QED
      BY <2>2, <3>1
  <2>. QED
    BY <1>1, <2>2, <2>3
<1>6. o = f \o g
  BY <1>2, <1>3 DEF RemoveAt
<1>7. /\ o \in Seq(S) /\ Len(o) = Len(f) + Len(g)
      /\ \A i \in 1 .. Len(f) : o[i] = f[i]
      /\ \A i \in 1 .. Len(g) : o[Len(f) + i] = g[i]
  <2>1. f \in Seq(S) /\ g \in Seq(S)
    BY <1>4, <1>5
  <2>2. o \in Seq(S) /\ Len(o) = Len(f) + Len(g)
    BY <1>6, <2>1, ConcatSeq
  <2>3. \A i \in 1 .. Len(f) : o[i] = f[i]
    BY <1>6, <2>1, ConcatSeq
  <2>4. \A i \in 1 .. Len(g) : o[Len(f) + i] = g[i]
    BY <1>6, <2>1, ConcatSeq
  <2>. QED
    BY <2>2, <2>3, <2>4
<1>8. ASSUME NEW i \in k .. Len(q) - 1 PROVE o[i] = q[i + 1]
  <2>1. PICK j \in 1 .. Len(q) - k : j = i - k + 1
    BY <1>1
  <2>2. (k - 1) + j = i /\ k + j = i + 1
    BY <1>1, <2>1
  <2>3. o[(k - 1) + j] = q[k + j]
    BY <1>4, <1>5, <1>7, <2>1
  <2>. QED
    BY <2>2, <2>3
<1>9. \A i \in 1 .. k - 1 : o[i] = q[i]
  BY <1>4, <1>7
<1>10. o \in Seq(S) /\ Len(o) = Len(q) - 1
  BY <1>1, <1>4, <1>5, <1>7
<1>. QED
  BY <1>8, <1>9, <1>10

\* A finite set as a sequence.
LEMMA SetToSeqElements ==
    ASSUME NEW S, NEW W \in SUBSET S, IsFiniteSet(W)
    PROVE  /\ SetToSeq(W) \in Seq(S)
           /\ \A i \in 1 .. Len(SetToSeq(W)) : SetToSeq(W)[i] \in W
           /\ W # {} => Len(SetToSeq(W)) > 0
<1>1. PICK n \in Nat : n = Cardinality(W) /\ ExistsBijection(1 .. n, W)
  BY FS_CardinalityType
<1>2. \E h \in [1 .. n -> W] : IsInjective(h)
  BY <1>1 DEF ExistsBijection, Bijection, Injection
<1>3. PICK f : f = SetToSeq(W) /\ f \in [1 .. n -> W]
  BY <1>1, <1>2 DEF SetToSeq
<1>4. f \in Seq(W)
  <2>1. f \in UNION {[1 .. k -> W] : k \in Nat}
    BY <1>3
  <2>. QED
    BY <2>1, SeqDef
<1>5. f \in Seq(S)
  BY <1>4, SeqMonotonic
<1>6. W # {} => n > 0
  BY <1>1, FS_EmptySet
<1>7. Len(f) = n
  <2>1. DOMAIN f = 1 .. n
    BY <1>3
  <2>. QED
    BY <1>4, <2>1, LenProperties
<1>. QED
  BY <1>3, <1>4, <1>5, <1>6, <1>7, ElementOfSeq

-----------------------------------------------------------------------------
(* What the storage does to rows, and requests to wishes.                  *)

\* Rows are looked up by their place.
LEMMA RowFacts ==
    ASSUME NEW rs \in Seq(Row)
    PROVE  /\ Len(rs) \in Nat /\ DOMAIN rs = 1 .. Len(rs)
           /\ \A i \in 1 .. Len(rs) :
                rs[i] \in Row /\ rs[i].id \in Devices /\ rs[i].user \in AnyUser
           /\ \A r \in Range(rs) : r \in Row /\ \E i \in 1 .. Len(rs) : r = rs[i]
           /\ \A i \in 1 .. Len(rs) : rs[i] \in Range(rs)
           /\ \A d : d \in IdsOf(rs) <=> \E i \in 1 .. Len(rs) : rs[i].id = d
           /\ IdsOf(rs) \subseteq Devices
<1>1. /\ Len(rs) \in Nat /\ DOMAIN rs = 1 .. Len(rs)
      /\ \A i \in 1 .. Len(rs) : rs[i] \in Row
  BY LenProperties, ElementOfSeq
<1>2. \A r \in Row : r.id \in Devices /\ r.user \in AnyUser
  BY DEF Row, AnyUser
<1>3. \A r : r \in Range(rs) <=> \E i \in 1 .. Len(rs) : r = rs[i]
  BY <1>1 DEF Range
<1>4. \A d : d \in IdsOf(rs) <=> \E i \in 1 .. Len(rs) : rs[i].id = d
  BY <1>3 DEF IdsOf
<1>. QED
  BY <1>1, <1>2, <1>3, <1>4

\* An overwritten row keeps its place and its device.
LEMMA OverwriteRows ==
    ASSUME NEW rs \in Seq(Row), NEW b \in Changes
    PROVE  /\ Overwrite(rs, b) \in Seq(Row) /\ Len(Overwrite(rs, b)) = Len(rs)
           /\ \A i \in 1 .. Len(rs) :
                Overwrite(rs, b)[i] = IF rs[i].id = b.id THEN [id |-> b.id, user |-> b.user]
                                      ELSE rs[i]
<1>1. /\ Len(rs) \in Nat /\ DOMAIN rs = 1 .. Len(rs)
      /\ \A i \in 1 .. Len(rs) : rs[i] \in Row
  BY RowFacts
<1>2. PICK q : q = Overwrite(rs, b)
  OBVIOUS
<1>3. /\ q = [i \in 1 .. Len(rs) |-> q[i]]
      /\ \A i \in 1 .. Len(rs) :
            q[i] = IF rs[i].id = b.id THEN [rs[i] EXCEPT !.user = b.user] ELSE rs[i]
  BY <1>1, <1>2 DEF Overwrite
<1>4. ASSUME NEW i \in 1 .. Len(rs), rs[i].id = b.id
      PROVE  [rs[i] EXCEPT !.user = b.user] = [id |-> b.id, user |-> b.user]
  BY <1>1, <1>4 DEF Row
<1>5. [id |-> b.id, user |-> b.user] \in Row
  BY DEF Changes, Row, AnyUser
<1>6. ASSUME NEW i \in 1 .. Len(rs)
      PROVE  /\ q[i] = IF rs[i].id = b.id THEN [id |-> b.id, user |-> b.user] ELSE rs[i]
             /\ q[i] \in Row
  BY <1>1, <1>3, <1>4, <1>5
<1>7. q \in Seq(Row) /\ Len(q) = Len(rs)
  <2>1. q \in [1 .. Len(rs) -> Row]
    BY <1>3, <1>6
  <2>2. q \in UNION {[1 .. k -> Row] : k \in Nat}
    BY <1>1, <2>1
  <2>3. q \in Seq(Row)
    BY <2>2, SeqDef
  <2>. QED
    BY <1>1, <2>1, <2>3, LenProperties
<1>. QED
  BY <1>2, <1>6, <1>7

\* What rows are when those of b's device became one of b's user, or none.
Given(rs, rs2, b) ==
    /\ rs2 \in Seq(Row) /\ EachOnce(rs2)
    /\ \A r \in Range(rs2) : (r.id = b.id /\ r.user = b.user) \/ (r \in Range(rs) /\ r.id # b.id)
    /\ \A r \in Range(rs) : r.id # b.id => r \in Range(rs2)

LEMMA Edited ==
    ASSUME NEW rs \in Seq(Row), EachOnce(rs), NEW b \in Changes
    PROVE  Given(rs, EditDevice(rs, b), b) /\ IdsOf(EditDevice(rs, b)) = IdsOf(rs)
<1>1. PICK q : q = EditDevice(rs, b)
  OBVIOUS
<1>2. /\ q \in Seq(Row) /\ Len(q) = Len(rs)
      /\ \A i \in 1 .. Len(rs) :
            q[i] = IF rs[i].id = b.id THEN [id |-> b.id, user |-> b.user] ELSE rs[i]
  BY <1>1, OverwriteRows DEF EditDevice
<1>3. /\ DOMAIN rs = 1 .. Len(rs) /\ DOMAIN q = 1 .. Len(rs)
      /\ \A r : r \in Range(rs) <=> \E i \in 1 .. Len(rs) : r = rs[i]
      /\ \A r : r \in Range(q) <=> \E i \in 1 .. Len(rs) : r = q[i]
  BY <1>2, RowFacts
<1>4. \A i \in 1 .. Len(rs) : q[i].id = rs[i].id
  BY <1>2
<1>5. EachOnce(q)
  BY <1>3, <1>4 DEF EachOnce
<1>6. ASSUME NEW r \in Range(q)
      PROVE  (r.id = b.id /\ r.user = b.user) \/ (r \in Range(rs) /\ r.id # b.id)
  <2>1. PICK i \in 1 .. Len(rs) : r = q[i]
    BY <1>3
  <2>. QED
    BY <1>2, <1>3, <2>1
<1>7. ASSUME NEW r \in Range(rs), r.id # b.id PROVE r \in Range(q)
  <2>1. PICK i \in 1 .. Len(rs) : r = rs[i]
    BY <1>3
  <2>. QED
    BY <1>2, <1>3, <1>7, <2>1
<1>8. IdsOf(q) = IdsOf(rs)
  <2>1. \A d : d \in IdsOf(rs) <=> \E i \in 1 .. Len(rs) : rs[i].id = d
    BY RowFacts
  <2>2. \A d : d \in IdsOf(q) <=> \E i \in 1 .. Len(q) : q[i].id = d
    BY <1>2, RowFacts
  <2>3. ASSUME NEW d PROVE d \in IdsOf(q) <=> d \in IdsOf(rs)
    <3>1. d \in IdsOf(rs) <=> \E i \in 1 .. Len(rs) : rs[i].id = d
      BY <2>1
    <3>2. d \in IdsOf(q) <=> \E i \in 1 .. Len(rs) : q[i].id = d
      BY <1>2, <2>2
    <3>. QED
      BY <1>4, <3>1, <3>2
  <2>. QED
    BY <2>3
<1>. QED
  BY <1>1, <1>2, <1>5, <1>6, <1>7, <1>8 DEF Given

LEMMA Added ==
    ASSUME NEW rs \in Seq(Row), EachOnce(rs), NEW b \in Changes
    PROVE  /\ Given(rs, AddDevice(rs, b), b)
           /\ IdsOf(AddDevice(rs, b)) = IdsOf(rs) \union {b.id}
<1>1. CASE b.id \in IdsOf(rs)
  BY <1>1, Edited DEF AddDevice, EditDevice
<1>2. CASE b.id \notin IdsOf(rs)
  <2>1. PICK e : e = [id |-> b.id, user |-> b.user]
    OBVIOUS
  <2>2. e \in Row /\ e.id = b.id /\ e.user = b.user
    BY <2>1 DEF Changes, Row, AnyUser
  <2>3. PICK q : q = Append(rs, e)
    OBVIOUS
  <2>4. AddDevice(rs, b) = q
    BY <1>2, <2>1, <2>3 DEF AddDevice
  <2>5. /\ q \in Seq(Row) /\ Len(rs) \in Nat /\ Len(q) = Len(rs) + 1
        /\ \A i \in 1 .. Len(rs) : q[i] = rs[i]
        /\ q[Len(rs) + 1] = e
    BY <2>2, <2>3, AppendSeq
  <2>6. /\ DOMAIN q = 1 .. Len(rs) + 1
        /\ \A r : r \in Range(rs) <=> \E i \in 1 .. Len(rs) : r = rs[i]
        /\ \A r : r \in Range(q) <=> \E i \in 1 .. Len(rs) + 1 : r = q[i]
        /\ \A i \in 1 .. Len(rs) : rs[i].id # b.id
    BY <1>2, <2>5, RowFacts
  <2>7. EachOnce(q)
    <3>1. ASSUME NEW i \in 1 .. Len(rs) + 1, NEW j \in 1 .. Len(rs) + 1, q[i].id = q[j].id
          PROVE  i = j
      <4>1. CASE i \in 1 .. Len(rs) /\ j \in 1 .. Len(rs)
        <5>1. rs[i].id = rs[j].id
          BY <2>5, <3>1, <4>1
        <5>. QED
          BY <4>1, <5>1, RowFacts DEF EachOnce
      <4>2. \A l \in 1 .. Len(rs) + 1 : l \notin 1 .. Len(rs) => l = Len(rs) + 1
        BY <2>5
      <4>. QED
        BY <2>2, <2>5, <2>6, <3>1, <4>1, <4>2
    <3>. QED
      BY <2>6, <3>1 DEF EachOnce
  <2>8. \A r : r \in Range(q) <=> r = e \/ r \in Range(rs)
    <3>1. ASSUME NEW r \in Range(q) PROVE r = e \/ r \in Range(rs)
      BY <2>5, <2>6
    <3>2. ASSUME NEW r \in Range(rs) PROVE r \in Range(q)
      <4>1. PICK i \in 1 .. Len(rs) : r = rs[i]
        BY <2>6
      <4>2. i \in 1 .. Len(rs) + 1
        BY <2>5
      <4>. QED
        BY <2>5, <2>6, <4>1, <4>2
    <3>3. e \in Range(q)
      <4>1. Len(rs) + 1 \in 1 .. Len(rs) + 1
        BY <2>5
      <4>. QED
        BY <2>5, <2>6, <4>1
    <3>. QED
      BY <3>1, <3>2, <3>3
  <2>9. IdsOf(q) = IdsOf(rs) \union {b.id}
    BY <2>2, <2>8 DEF IdsOf
  <2>10. \A r \in Range(rs) : r.id # b.id
    BY <2>6
  <2>. QED
    BY <2>2, <2>4, <2>5, <2>7, <2>8, <2>9, <2>10 DEF Given
<1>. QED
  BY <1>1, <1>2

LEMMA Deleted ==
    ASSUME NEW rs \in Seq(Row), EachOnce(rs), NEW b \in Changes
    PROVE  /\ Given(rs, DeleteDevice(rs, b), b)
           /\ IdsOf(DeleteDevice(rs, b)) = IdsOf(rs) \ {b.id}
<1>1. CASE b.id \in IdsOf(rs)
  <2>1. PICK k : k = CHOOSE i \in DOMAIN rs : rs[i].id = b.id
    OBVIOUS
  <2>2. k \in 1 .. Len(rs) /\ rs[k].id = b.id
    BY <1>1, <2>1, RowFacts
  <2>3. PICK q : q = RemoveAt(rs, k)
    OBVIOUS
  <2>4. DeleteDevice(rs, b) = q
    BY <1>1, <2>1, <2>3 DEF DeleteDevice
  <2>5. /\ q \in Seq(Row) /\ Len(rs) \in Nat /\ Len(q) = Len(rs) - 1
        /\ \A i \in 1 .. k - 1 : q[i] = rs[i]
        /\ \A i \in k .. Len(rs) - 1 : q[i] = rs[i + 1]
    <3>1. Len(rs) \in Nat
      BY RowFacts
    <3>2. \A o : o = RemoveAt(rs, k) =>
              /\ o \in Seq(Row) /\ Len(o) = Len(rs) - 1
              /\ \A i \in 1 .. k - 1 : o[i] = rs[i]
              /\ \A i \in k .. Len(rs) - 1 : o[i] = rs[i + 1]
      BY <2>2, RemoveSeq, Zenon
    <3>. QED
      BY <2>3, <3>1, <3>2
  <2>6. /\ DOMAIN rs = 1 .. Len(rs) /\ DOMAIN q = 1 .. Len(rs) - 1
        /\ \A r : r \in Range(rs) <=> \E i \in 1 .. Len(rs) : r = rs[i]
        /\ \A r : r \in Range(q) <=> \E i \in 1 .. Len(rs) - 1 : r = q[i]
    BY <2>5, RowFacts
  <2>. DEFINE from(i) == IF i < k THEN i ELSE i + 1
  <2>7. \A i \in 1 .. Len(rs) - 1 :
            /\ from(i) \in 1 .. Len(rs) /\ from(i) # k /\ q[i] = rs[from(i)]
            /\ \A j \in 1 .. Len(rs) - 1 : from(i) = from(j) => i = j
    BY <2>2, <2>5
  <2>8. \A j \in 1 .. Len(rs) : j # k => \E i \in 1 .. Len(rs) - 1 : from(i) = j
    <3>1. ASSUME NEW j \in 1 .. Len(rs), j < k PROVE j \in 1 .. Len(rs) - 1 /\ from(j) = j
      BY <2>2, <2>5, <3>1
    <3>2. ASSUME NEW j \in 1 .. Len(rs), j > k
          PROVE  j - 1 \in 1 .. Len(rs) - 1 /\ from(j - 1) = j
      BY <2>2, <2>5, <3>2
    <3>3. \A j \in 1 .. Len(rs) : j # k => j < k \/ j > k
      BY <2>2, <2>5
    <3>. QED
      BY <3>1, <3>2, <3>3
  <2>. HIDE DEF from
  <2>9. \A j \in 1 .. Len(rs) : rs[j].id = b.id => j = k
    BY <2>2, <2>6 DEF EachOnce
  <2>10. EachOnce(q)
    BY <2>6, <2>7 DEF EachOnce
  <2>11. ASSUME NEW r \in Range(q) PROVE r \in Range(rs) /\ r.id # b.id
    <3>1. PICK i \in 1 .. Len(rs) - 1 : r = q[i]
      BY <2>6
    <3>. QED
      BY <2>6, <2>7, <2>9, <3>1
  <2>12. ASSUME NEW r \in Range(rs), r.id # b.id PROVE r \in Range(q)
    <3>1. PICK j \in 1 .. Len(rs) : r = rs[j]
      BY <2>6
    <3>2. PICK i \in 1 .. Len(rs) - 1 : from(i) = j
      BY <2>2, <2>8, <2>12, <3>1
    <3>. QED
      BY <2>6, <2>7, <3>1, <3>2
  <2>13. IdsOf(q) = IdsOf(rs) \ {b.id}
    BY <2>11, <2>12 DEF IdsOf
  <2>. QED
    BY <2>4, <2>5, <2>10, <2>11, <2>12, <2>13 DEF Given
<1>2. CASE b.id \notin IdsOf(rs)
  <2>1. DeleteDevice(rs, b) = rs
    BY <1>2 DEF DeleteDevice
  <2>2. \A r \in Range(rs) : r.id # b.id
    BY <1>2 DEF IdsOf
  <2>. QED
    BY <1>2, <2>1, <2>2 DEF Given
<1>. QED
  BY <1>1, <1>2

\* A device is asked for with its user.
LEMMA AsksAdd ==
    ASSUME NEW w \in AnyWish, NEW d \in Devices, NEW u \in AnyUser
    PROVE  With(w, d, u) \in AnyWish /\ Effect(w, With(w, d, u), "add", d, u)
<1>1. PICK D \in SUBSET Devices : w \in [D -> AnyUser]
  BY DEF AnyWish
<1>2. /\ With(w, d, u) \in [D \union {d} -> AnyUser] /\ D \union {d} \in SUBSET Devices
      /\ With(w, d, u)[d] = u
      /\ \A x \in D : x # d => With(w, d, u)[x] = w[x]
  BY <1>1 DEF With
<1>3. With(w, d, u) \in AnyWish
  BY <1>2 DEF AnyWish
<1>. QED
  BY <1>1, <1>2, <1>3 DEF Effect

\* A device is no longer asked for.
LEMMA AsksDelete ==
    ASSUME NEW w \in AnyWish, NEW d \in Devices, NEW u
    PROVE  Without(w, d) \in AnyWish /\ Effect(w, Without(w, d), "delete", d, u)
<1>1. PICK D \in SUBSET Devices : w \in [D -> AnyUser]
  BY DEF AnyWish
<1>2. /\ Without(w, d) \in [D \ {d} -> AnyUser] /\ D \ {d} \in SUBSET Devices
      /\ \A x \in D : x # d => Without(w, d)[x] = w[x]
  BY <1>1 DEF Without
<1>3. Without(w, d) \in AnyWish
  BY <1>2 DEF AnyWish
<1>. QED
  BY <1>1, <1>2, <1>3 DEF Effect

\* A device that is asked for gets another user.
LEMMA AsksEdit ==
    ASSUME NEW w \in AnyWish, NEW d \in Devices, NEW u \in AnyUser, NEW v,
           NEW w2, w2 = IF d \in DOMAIN w THEN With(w, d, u) ELSE w
    PROVE  /\ w2 \in AnyWish /\ Effect(w, w2, "edit", d, v)
           /\ d \in DOMAIN w => d \in DOMAIN w2 /\ w2[d] = u
<1>1. CASE d \in DOMAIN w
  <2>1. w2 = With(w, d, u)
    BY <1>1
  <2>2. w2 \in AnyWish /\ Effect(w, w2, "add", d, u)
    BY <2>1, AsksAdd
  <2>3. /\ DOMAIN w2 = DOMAIN w \union {d} /\ w2[d] = u
        /\ \A x \in DOMAIN w : x # d => w2[x] = w[x]
    BY <2>2 DEF Effect
  <2>4. DOMAIN w2 = DOMAIN w
    BY <1>1, <2>3
  <2>. QED
    BY <1>1, <2>2, <2>3, <2>4 DEF Effect
<1>2. CASE d \notin DOMAIN w
  BY <1>2 DEF Effect
<1>. QED
  BY <1>1, <1>2

\* What rows say as a wish.
LEMMA RowsAsWishFacts ==
    ASSUME NEW rs \in Seq(Row), EachOnce(rs)
    PROVE  /\ RowsAsWish(rs) \in AnyWish /\ DOMAIN RowsAsWish(rs) = IdsOf(rs)
           /\ \A r \in Range(rs) : RowsAsWish(rs)[r.id] = r.user
<1>1. ASSUME NEW d \in IdsOf(rs)
      PROVE  /\ (CHOOSE r \in Range(rs) : r.id = d) \in Range(rs)
             /\ (CHOOSE r \in Range(rs) : r.id = d).id = d
  BY DEF IdsOf
<1>2. \A r \in Range(rs) : r.user \in AnyUser
  BY RowFacts DEF Row, AnyUser
<1>3. RowsAsWish(rs) \in [IdsOf(rs) -> AnyUser] /\ IdsOf(rs) \in SUBSET Devices
  BY <1>1, <1>2, RowFacts DEF RowsAsWish
<1>4. RowsAsWish(rs) \in AnyWish
  BY <1>3 DEF AnyWish
<1>5. ASSUME NEW r \in Range(rs), NEW s \in Range(rs), r.id = s.id PROVE r = s
  <2>1. PICK i \in 1 .. Len(rs), j \in 1 .. Len(rs) : r = rs[i] /\ s = rs[j]
    BY RowFacts
  <2>. QED
    BY <1>5, <2>1, RowFacts DEF EachOnce
<1>6. ASSUME NEW r \in Range(rs) PROVE RowsAsWish(rs)[r.id] = r.user
  <2>1. r.id \in IdsOf(rs)
    BY DEF IdsOf
  <2>2. RowsAsWish(rs)[r.id] = (CHOOSE s \in Range(rs) : s.id = r.id).user
    BY <2>1 DEF RowsAsWish
  <2>3. (CHOOSE s \in Range(rs) : s.id = r.id) = r
    BY <1>1, <1>5, <2>1
  <2>. QED
    BY <2>2, <2>3
<1>. QED
  BY <1>3, <1>4, <1>6

-----------------------------------------------------------------------------
(* What has been followed, when the next request is done.                  *)

LEMMA WishesType ==
    ASSUME SeenType
    PROVE  /\ Num \in Nat \ {0} /\ Wish = seen.wishes[Num] /\ Wish \in AnyWish
           /\ \A k \in 1 .. Num : seen.wishes[k] \in AnyWish
           /\ seen.wishes \in Seq(AnyWish) /\ DOMAIN seen.wishes = 1 .. Num
<1>1. seen.wishes \in Seq(AnyWish) /\ Len(seen.wishes) > 0
  BY DEF SeenType
<1>2. Num \in Nat \ {0} /\ DOMAIN seen.wishes = 1 .. Num
  BY <1>1, LenProperties DEF Num
<1>3. \A k \in 1 .. Num : seen.wishes[k] \in AnyWish
  BY <1>1, ElementOfSeq DEF Num
<1>4. Wish = seen.wishes[Num]
  BY DEF Wish, Last, Num
<1>. QED
  BY <1>1, <1>2, <1>3, <1>4

\* Rows that follow n requests follow one more when the next is done.
LEMMA FollowsNext ==
    ASSUME SeenType, TypedAgrees, NEW rs \in Seq(Row), NEW n \in 1 .. Num, Follows(rs, n),
           NEW b \in Changes, Asked(n + 1, b.kind, b.id, b.user),
           NEW rs2, rs2 = CASE b.kind = "add"    -> AddDevice(rs, b)
                            [] b.kind = "delete" -> DeleteDevice(rs, b)
                            [] b.kind = "edit"   -> EditDevice(rs, b)
    PROVE  rs2 \in Seq(Row) /\ Given(rs, rs2, b) /\ Follows(rs2, n + 1)
<1>. PICK w, w2 : w = seen.wishes[n] /\ w2 = seen.wishes[n + 1]
  OBVIOUS
<1>1. /\ n \in Nat /\ n + 1 \in 2 .. Num /\ Num \in Nat /\ n + 1 - 1 = n
      /\ w \in AnyWish /\ w2 \in AnyWish
      /\ b.kind \in Requests
  BY WishesType DEF Asked, Changes, Requests
<1>2. Effect(w, w2, b.kind, b.id, b.user)
  BY <1>1 DEF Asked
<1>3. EachOnce(rs) /\ IdsOf(rs) = DOMAIN w
  BY DEF Follows
<1>4. /\ rs2 \in Seq(Row) /\ Given(rs, rs2, b) /\ IdsOf(rs2) = DOMAIN w2
      /\ \A x \in DOMAIN w : x # b.id => w2[x] = w[x]
  <2>1. CASE b.kind = "add"
    <3>1. rs2 = AddDevice(rs, b)
      BY <2>1
    <3>2. Given(rs, rs2, b) /\ IdsOf(rs2) = IdsOf(rs) \union {b.id}
      BY <1>3, <3>1, Added
    <3>. QED
      BY <1>2, <1>3, <2>1, <3>2 DEF Effect, Given
  <2>2. CASE b.kind = "delete"
    <3>1. rs2 = DeleteDevice(rs, b)
      BY <2>2
    <3>2. Given(rs, rs2, b) /\ IdsOf(rs2) = IdsOf(rs) \ {b.id}
      BY <1>3, <3>1, Deleted
    <3>. QED
      BY <1>2, <1>3, <2>2, <3>2 DEF Effect, Given
  <2>3. CASE b.kind = "edit"
    <3>1. rs2 = EditDevice(rs, b)
      BY <2>3
    <3>2. Given(rs, rs2, b) /\ IdsOf(rs2) = IdsOf(rs)
      BY <1>3, <3>1, Edited
    <3>. QED
      BY <1>2, <1>3, <2>3, <3>2 DEF Effect, Given
  <2>. QED
    BY <1>1, <2>1, <2>2, <2>3 DEF Requests
<1>5. ASSUME NEW x \in DOMAIN w, NEW v, NEW m \in n + 1 .. Num, Typed(x, v, m) \in seen.typed
      PROVE  w2[x] = v \/ \E l \in n + 1 + 1 .. Num : Typed(x, v, l) \in seen.typed
  <2>1. CASE m = n + 1
    BY <1>1, <1>5, <2>1 DEF TypedAgrees, Typed
  <2>2. CASE m # n + 1
    <3>1. m \in n + 1 + 1 .. Num
      BY <1>1, <2>2
    <3>. QED
      BY <1>5, <3>1
  <2>. QED
    BY <2>1, <2>2
<1>6. ASSUME NEW r \in Range(rs2)
      PROVE  \/ r.user = w2[r.id]
             \/ \E l \in n + 1 + 1 .. Num : Typed(r.id, r.user, l) \in seen.typed
  <2>0. r.id \in DOMAIN w2
    BY <1>4 DEF IdsOf
  <2>1. CASE r.id = b.id /\ r.user = b.user
    <3>1. CASE b.kind = "add"
      BY <1>2, <2>1, <3>1 DEF Effect
    <3>2. CASE b.kind = "delete"
      BY <1>2, <2>0, <2>1, <3>2 DEF Effect
    <3>3. CASE b.kind = "edit"
      <4>1. DOMAIN w2 = DOMAIN w
        BY <1>2, <3>3 DEF Effect
      <4>2. PICK m \in n + 1 .. Num : Typed(b.id, b.user, m) \in seen.typed
        BY <3>3 DEF Asked
      <4>. QED
        BY <1>5, <2>0, <2>1, <4>1, <4>2
    <3>. QED
      BY <1>1, <3>1, <3>2, <3>3 DEF Requests
  <2>2. CASE r \in Range(rs) /\ r.id # b.id
    <3>1. r.id \in DOMAIN w
      BY <1>3, <2>2 DEF IdsOf
    <3>2. CASE r.user = w[r.id]
      BY <1>4, <2>2, <3>1, <3>2
    <3>3. CASE \E m \in n + 1 .. Num : Typed(r.id, r.user, m) \in seen.typed
      BY <1>5, <3>1, <3>3
    <3>. QED
      BY <2>2, <3>2, <3>3 DEF Follows, Num
  <2>. QED
    BY <1>4, <2>1, <2>2 DEF Given
<1>. QED
  BY <1>4, <1>6 DEF Follows, Given, Num

\* More was asked since.
Later ==
    /\ Num' \in Nat /\ Num <= Num'
    /\ \A k \in 1 .. Num : seen'.wishes[k] = seen.wishes[k]
    /\ seen.typed \subseteq seen'.typed

LEMMA FollowsLater ==
    ASSUME SeenType, Later, NEW rs, NEW n \in 1 .. Num, Follows(rs, n)
    PROVE  Follows(rs, n)'
<1>1. Num \in Nat /\ Num' \in Nat /\ Num <= Num' /\ seen'.wishes[n] = seen.wishes[n]
  BY WishesType DEF Later
<1>2. ASSUME NEW r \in Range(rs), NEW m \in n + 1 .. Num, Typed(r.id, r.user, m) \in seen.typed
      PROVE  m \in n + 1 .. Num' /\ Typed(r.id, r.user, m) \in seen'.typed
  BY <1>1, <1>2 DEF Later
<1>. QED
  BY <1>1, <1>2 DEF Follows, Num, Typed

LEMMA AskedLater ==
    ASSUME SeenType, Later, NEW k, NEW kind, NEW d, NEW u, Asked(k, kind, d, u)
    PROVE  Asked(k, kind, d, u)'
<1>1. /\ Num \in Nat /\ Num' \in Nat /\ Num <= Num' /\ k \in 2 .. Num
      /\ k \in 1 .. Num /\ k - 1 \in 1 .. Num /\ k \in 2 .. Num'
  BY WishesType DEF Later, Asked
<1>2. seen'.wishes[k] = seen.wishes[k] /\ seen'.wishes[k - 1] = seen.wishes[k - 1]
  BY <1>1 DEF Later
<1>3. Effect(seen'.wishes[k - 1], seen'.wishes[k], kind, d, u)
  BY <1>2 DEF Asked
<1>4. kind = "edit" => \E m \in k .. Num' : Typed(d, u, m) \in seen'.typed
  BY <1>1 DEF Asked, Later
<1>. QED
  BY <1>1, <1>3, <1>4 DEF Asked, Num, Typed, Effect, With, Without

-----------------------------------------------------------------------------
(* The requests are followed through the two queues, step by step.         *)

\* The types the steps below start from.
LEMMA QueueFacts ==
    ASSUME Types
    PROVE  /\ SeenType /\ Num \in Nat \ {0}
           /\ module \in Seq(Blocks) /\ Len(module) \in Nat
           /\ storage \in Seq(Changes) /\ Len(storage) \in Nat
           /\ rows \in Seq(Row) /\ saved \in Seq(Row)
BY WishesType, LenProperties DEF Types, QueueType, RowType

\* The requests on moduleQueue ask on for what they asked for.
AsksOn ==
    \A i \in 1 .. Len(module), b \in Blocks, k \in Nat :
        b = module[i] /\ IsRequest(b) /\ Asked(k, b.kind, b.id, UserOf(b)) =>
            Asked(k, b.kind, b.id, UserOf(b))'

\* An edit asks on when its screen's draft stays.
LEMMA DraftsStay ==
    ASSUME Types, Past, Later, \A v \in 1 .. screen.visit : draft'[v] = draft[v]
    PROVE  AsksOn
<1>. SUFFICES ASSUME NEW i \in 1 .. Len(module), NEW b \in Blocks, NEW k \in Nat,
                     b = module[i], IsRequest(b), Asked(k, b.kind, b.id, UserOf(b))
              PROVE  Asked(k, b.kind, b.id, UserOf(b))'
  BY DEF AsksOn
<1>1. SeenType
  BY QueueFacts
<1>. PICK u : u = UserOf(b)
  OBVIOUS
<1>2. UserOf(b)' = u
  <2>1. CASE b.kind = "edit"
    <3>1. b.visit \in Nat /\ b.visit > 0 /\ b.visit <= screen.visit
      BY <2>1 DEF Past, PastBlocks, PastBlock, Requests, Blocks, Visits, DeviceAssumption
    <3>. QED
      BY <2>1, <3>1 DEF UserOf, Types, ScreenType, Visits
  <2>2. CASE b.kind # "edit"
    BY <2>2 DEF UserOf, IsRequest
  <2>. QED
    BY <2>1, <2>2
<1>3. Asked(k, b.kind, b.id, u)'
  BY <1>1, AskedLater
<1>. QED
  BY <1>2, <1>3

\* A step of the queues that leaves the storage alone.
LEMMA FollowedStep ==
    ASSUME Types, Followed, Later, TypedAgrees', UNCHANGED <<storage, rows, saved>>,
           ASSUME NEW at \in [0 .. Len(module) -> 1 .. Num],
                  Counted(at), at[Len(module)] = Num
           PROVE  \E at2 \in [0 .. Len(module') -> 1 .. Num'] :
                     at2[0] = at[0] /\ at2[Len(module')] = Num' /\ Counted(at2)'
    PROVE  Followed'
<1>1. SeenType /\ Num \in Nat /\ Num' \in Nat /\ Num <= Num'
  BY QueueFacts DEF Later
<1>2. storage' = <<>> => saved' = rows'
  BY DEF Followed
<1>3. PICK n \in 1 .. Num, at \in [0 .. Len(module) -> 1 .. Num] :
         Numbered(n, at) /\ \E k \in 1 .. n : Follows(saved, k)
  BY DEF Followed
<1>4. Handed(n)'
  <2>. SUFFICES ASSUME NEW i \in 1 .. Len(storage)
                PROVE  Asked(n + i, storage[i].kind, storage[i].id, storage[i].user)'
    BY DEF Handed
  <2>1. Asked(n + i, storage[i].kind, storage[i].id, storage[i].user)
    BY <1>3 DEF Numbered, Handed
  <2>. QED
    BY <1>1, <2>1, AskedLater
<1>5. n \in 1 .. Num' /\ \A k \in 1 .. n : k \in 1 .. Num
  BY <1>1
<1>6. Follows(rows, n)' /\ \E k \in 1 .. n : Follows(saved, k)'
  <2>1. Follows(rows, n)'
    BY <1>1, <1>3, FollowsLater DEF Numbered
  <2>2. PICK k \in 1 .. n : Follows(saved, k)
    BY <1>3
  <2>3. Follows(saved, k)'
    BY <1>1, <1>5, <2>2, FollowsLater
  <2>. QED
    BY <2>1, <2>3
<1>7. PICK at2 \in [0 .. Len(module') -> 1 .. Num'] :
         at2[0] = at[0] /\ at2[Len(module')] = Num' /\ Counted(at2)'
  BY <1>3 DEF Numbered
<1>8. Numbered(n, at2)'
  BY <1>3, <1>4, <1>5, <1>6, <1>7 DEF Numbered
<1>. QED
  BY <1>2, <1>5, <1>6, <1>8 DEF Followed

\* Nothing the requests depend on has changed.
LEMMA FollowedSame ==
    ASSUME Types, Past, Followed, UNCHANGED <<draft, module, storage, rows, saved>>,
           seen'.wishes = seen.wishes, seen'.typed = seen.typed
    PROVE  Followed'
<1>1. SeenType /\ Num' = Num /\ Later /\ AsksOn /\ TypedAgrees'
  BY QueueFacts, DraftsStay DEF Num, Later, Followed, TypedAgrees
<1>2. ASSUME NEW at \in [0 .. Len(module) -> 1 .. Num], Counted(at), at[Len(module)] = Num
      PROVE  \E at2 \in [0 .. Len(module') -> 1 .. Num'] :
                at2[0] = at[0] /\ at2[Len(module')] = Num' /\ Counted(at2)'
  <2>1. Counted(at)'
    <3>. SUFFICES ASSUME NEW i \in 1 .. Len(module)
                  PROVE  (IF IsRequest(module[i])
                          THEN /\ at[i] = at[i - 1] + 1
                               /\ Asked(at[i], module[i].kind, module[i].id, UserOf(module[i]))
                          ELSE at[i] = at[i - 1])'
      BY DEF Counted
    <3>0. module[i] \in Blocks
      BY QueueFacts, ElementOfSeq
    <3>1. module[i] \in Blocks /\ at[i] \in Nat
      <4>1. Num \in Nat /\ Len(module) \in Nat
        BY QueueFacts
      <4>2. i \in 0 .. Len(module)
        BY <4>1
      <4>. QED
        BY <3>0, <4>1, <4>2
    <3>2. PICK b \in Blocks : b = module[i] /\ b = module'[i]
      BY <3>1
    <3>3. CASE IsRequest(b)
      <4>1. at[i] = at[i - 1] + 1 /\ Asked(at[i], b.kind, b.id, UserOf(b))
        BY <1>2, <3>2, <3>3 DEF Counted
      <4>2. Asked(at[i], b.kind, b.id, UserOf(b))'
        BY <1>1, <3>1, <3>2, <3>3, <4>1 DEF AsksOn
      <4>. QED
        BY <3>2, <3>3, <4>1, <4>2
    <3>4. CASE ~IsRequest(b)
      BY <1>2, <3>2, <3>4 DEF Counted
    <3>. QED
      BY <3>3, <3>4
  <2>. QED
    BY <1>1, <1>2, <2>1
<1>. QED
  BY <1>1, <1>2, FollowedStep

\* A block goes to the end of moduleQueue.
LEMMA FollowedAppend ==
    ASSUME Types, Followed, Later, AsksOn, TypedAgrees', UNCHANGED <<storage, rows, saved>>,
           NEW b \in Blocks, module' = Append(module, b), NEW k \in Nat, Num' = k,
           IF IsRequest(b) THEN k = Num + 1 /\ Asked(k, b.kind, b.id, UserOf(b))'
           ELSE k = Num
    PROVE  Followed'
<1>1. /\ SeenType /\ Num \in Nat \ {0} /\ Len(module) \in Nat /\ Len(module') = Len(module) + 1
      /\ Num <= k
      /\ \A i \in 1 .. Len(module) : module'[i] = module[i] /\ module[i] \in Blocks
      /\ module'[Len(module) + 1] = b
  BY QueueFacts, AppendSeq, ElementOfSeq
<1>2. ASSUME NEW at \in [0 .. Len(module) -> 1 .. Num], Counted(at), at[Len(module)] = Num
      PROVE  \E at2 \in [0 .. Len(module') -> 1 .. Num'] :
                at2[0] = at[0] /\ at2[Len(module')] = Num' /\ Counted(at2)'
  <2>1. PICK at2 : at2 = [i \in 0 .. Len(module) + 1 |->
                             IF i = Len(module) + 1 THEN k ELSE at[i]]
    OBVIOUS
  <2>2. /\ at2 \in [0 .. Len(module') -> 1 .. Num'] /\ at2[0] = at[0]
        /\ at2[Len(module')] = Num'
        /\ \A i \in 0 .. Len(module) : at2[i] = at[i]
    BY <1>1, <2>1
  <2>3. ASSUME NEW i \in 1 .. Len(module) + 1
        PROVE  (IF IsRequest(module[i])
                THEN /\ at2[i] = at2[i - 1] + 1
                     /\ Asked(at2[i], module[i].kind, module[i].id, UserOf(module[i]))
                ELSE at2[i] = at2[i - 1])'
    <3>1. CASE i \in 1 .. Len(module)
      <4>1. /\ module[i] \in Blocks /\ module'[i] = module[i] /\ at[i] \in Nat
            /\ at2[i] = at[i] /\ at2[i - 1] = at[i - 1]
        <5>1. i \in 0 .. Len(module) /\ i - 1 \in 0 .. Len(module)
          BY <1>1, <3>1
        <5>2. at2[i] = at[i] /\ at2[i - 1] = at[i - 1]
          BY <2>2, <5>1
        <5>3. at[i] \in Nat
          BY <1>1, <5>1
        <5>. QED
          BY <1>1, <3>1, <5>2, <5>3
      <4>2. PICK c \in Blocks, l \in Nat : c = module[i] /\ c = module'[i] /\ l = at[i] /\ l = at2[i]
        BY <4>1
      <4>3. CASE IsRequest(c)
        <5>1. l = at[i - 1] + 1 /\ Asked(l, c.kind, c.id, UserOf(c))
          BY <1>2, <3>1, <4>2, <4>3 DEF Counted
        <5>2. Asked(l, c.kind, c.id, UserOf(c))'
          BY <3>1, <4>2, <4>3, <5>1 DEF AsksOn
        <5>. QED
          BY <4>1, <4>2, <4>3, <5>1, <5>2
      <4>4. CASE ~IsRequest(c)
        BY <1>2, <3>1, <4>1, <4>2, <4>4 DEF Counted
      <4>. QED
        BY <4>3, <4>4
    <3>2. CASE i = Len(module) + 1
      <4>1. /\ module'[i] = b /\ at2[i] = k /\ at2[i - 1] = Num
        <5>1. i = Len(module') /\ i - 1 = Len(module) /\ Len(module) \in 0 .. Len(module)
          BY <1>1, <3>2
        <5>2. module'[i] = b
          BY <1>1, <3>2
        <5>3. at2[i] = k
          BY <2>2, <5>1
        <5>4. at2[i - 1] = at[Len(module)]
          BY <2>2, <5>1
        <5>. QED
          BY <1>2, <5>2, <5>3, <5>4
      <4>2. CASE IsRequest(b)
        BY <4>1, <4>2
      <4>3. CASE ~IsRequest(b)
        BY <4>1, <4>3
      <4>. QED
        BY <4>2, <4>3
    <3>. QED
      BY <1>1, <3>1, <3>2
  <2>4. Counted(at2)'
    BY <1>1, <2>3 DEF Counted
  <2>. QED
    BY <2>2, <2>4
<1>. QED
  BY <1>2, FollowedStep

\* The block at the head of moduleQueue is done; it is no request.
LEMMA FollowedHead ==
    ASSUME Types, Followed, Later, AsksOn, TypedAgrees', UNCHANGED <<storage, rows, saved>>,
           module # <<>>, ~IsRequest(Op), module' = Tail(module), Num' = Num
    PROVE  Followed'
<1>1. /\ SeenType /\ Num \in Nat \ {0} /\ Len(module) \in Nat \ {0}
      /\ Len(module') = Len(module) - 1 /\ ~IsRequest(module[1])
      /\ \A i \in 1 .. Len(module) - 1 : module'[i] = module[i + 1]
      /\ \A i \in 1 .. Len(module) : module[i] \in Blocks
  BY QueueFacts, TailSeq, ElementOfSeq DEF Op
<1>2. ASSUME NEW at \in [0 .. Len(module) -> 1 .. Num], Counted(at), at[Len(module)] = Num
      PROVE  \E at2 \in [0 .. Len(module') -> 1 .. Num'] :
                at2[0] = at[0] /\ at2[Len(module')] = Num' /\ Counted(at2)'
  <2>1. PICK at2 : at2 = [i \in 0 .. Len(module) - 1 |-> at[i + 1]]
    OBVIOUS
  <2>2. at[1] = at[0]
    BY <1>1, <1>2 DEF Counted
  <2>3. /\ at2 \in [0 .. Len(module') -> 1 .. Num'] /\ at2[0] = at[0]
        /\ at2[Len(module')] = Num'
        /\ \A i \in 0 .. Len(module) - 1 : at2[i] = at[i + 1]
    BY <1>1, <1>2, <2>1, <2>2
  <2>4. ASSUME NEW i \in 1 .. Len(module) - 1
        PROVE  (IF IsRequest(module[i])
                THEN /\ at2[i] = at2[i - 1] + 1
                     /\ Asked(at2[i], module[i].kind, module[i].id, UserOf(module[i]))
                ELSE at2[i] = at2[i - 1])'
    <3>1. /\ i + 1 \in 1 .. Len(module) /\ module'[i] = module[i + 1] /\ module[i + 1] \in Blocks
          /\ at2[i] = at[i + 1] /\ at2[i - 1] = at[i] /\ i + 1 - 1 = i /\ at[i + 1] \in Nat
      BY <1>1, <2>3
    <3>2. PICK j \in 1 .. Len(module), c \in Blocks, k \in Nat :
             /\ j = i + 1 /\ c = module[j] /\ c = module'[i] /\ k = at[j] /\ k = at2[i]
             /\ j - 1 = i
      BY <3>1
    <3>3. CASE IsRequest(c)
      <4>1. k = at[i] + 1 /\ Asked(k, c.kind, c.id, UserOf(c))
        BY <1>2, <3>2, <3>3 DEF Counted
      <4>2. Asked(k, c.kind, c.id, UserOf(c))'
        BY <3>2, <3>3, <4>1 DEF AsksOn
      <4>. QED
        BY <3>1, <3>2, <3>3, <4>1, <4>2
    <3>4. CASE ~IsRequest(c)
      BY <1>2, <3>1, <3>2, <3>4 DEF Counted
    <3>. QED
      BY <3>3, <3>4
  <2>5. Counted(at2)'
    BY <1>1, <2>4 DEF Counted
  <2>. QED
    BY <2>3, <2>5
<1>. QED
  BY <1>2, FollowedStep

\* When the queues are empty the file holds what the user asked for.
LEMMA DoneFollows ==
    ASSUME Types, Followed, AllDone
    PROVE  saved = rows /\ Follows(rows, Num) /\ Follows(saved, Num)
<1>1. PICK n \in 1 .. Num, at \in [0 .. Len(module) -> 1 .. Num] : Numbered(n, at)
  BY DEF Followed
<1>2. Len(module) = 0 /\ Len(storage) = 0 /\ Num \in Nat
  BY QueueFacts DEF AllDone
<1>3. n = Num
  BY <1>1, <1>2 DEF Numbered
<1>. QED
  BY <1>1, <1>3 DEF Numbered, AllDone, Followed

\* A request of op, which makes w2 of what was asked for; typed are the users
\* it typed, and v the one op gives.
Requested(op, w2, typed, v) ==
    /\ IsRequest(op) /\ module' = Append(module, op)
    /\ seen'.wishes = Wishes(w2)
    /\ seen'.typed = (IF AllDone THEN {} ELSE seen.typed) \union
                        {Typed(op.id, u, Len(Wishes(w2))) : u \in typed}
    /\ UserOf(op)' = v /\ Effect(Wish, w2, op.kind, op.id, v)
    /\ op.kind = "edit" => v \in typed
    /\ \A u \in typed : op.id \in DOMAIN Wish => op.id \in DOMAIN w2 /\ w2[op.id] = u

\* The first request of all, and the first since the queues were empty.
LEMMA FirstRequest ==
    ASSUME Types, Followed, AllDone, UNCHANGED <<storage, rows, saved>>,
           NEW op \in Blocks, NEW w2 \in AnyWish, NEW typed \in SUBSET AnyUser, NEW v,
           Requested(op, w2, typed, v)
    PROVE  Followed'
<1>1. /\ seen'.wishes = <<Wish, w2>> /\ Num' = 2 /\ Len(<<Wish, w2>>) = 2
      /\ seen'.wishes[1] = Wish /\ seen'.wishes[2] = w2
      /\ seen'.typed = {Typed(op.id, u, 2) : u \in typed}
  BY DEF Requested, Wishes, Num
<1>2. /\ module' = <<op>> /\ Len(module') = 1 /\ module'[1] = op /\ storage' = <<>>
      /\ Len(storage') = 0
  BY DEF Requested, AllDone
<1>3. rows' = saved' /\ Follows(rows, 1)'
  <2>1. rows = saved /\ Follows(rows, Num) /\ Num \in Nat /\ Wish = seen.wishes[Num]
    BY DoneFollows, QueueFacts, WishesType
  <2>2. \A m \in Num + 1 .. Num : FALSE
    BY <2>1
  <2>3. /\ EachOnce(rows) /\ IdsOf(rows) = DOMAIN Wish
        /\ \A r \in Range(rows) : r.user = Wish[r.id]
    BY <2>1, <2>2 DEF Follows, Num
  <2>. QED
    BY <1>1, <2>1, <2>3 DEF Follows
<1>4. TypedAgrees'
  <2>. SUFFICES ASSUME NEW t \in seen'.typed
                PROVE  /\ t.wish \in 2 .. Num'
                       /\ t.of \in DOMAIN seen'.wishes[t.wish - 1] =>
                             /\ t.of \in DOMAIN seen'.wishes[t.wish]
                             /\ seen'.wishes[t.wish][t.of] = t.user
    BY DEF TypedAgrees
  <2>1. PICK u \in typed : t = Typed(op.id, u, 2)
    BY <1>1
  <2>2. t.of = op.id /\ t.user = u /\ t.wish = 2 /\ t.wish - 1 = 1
    BY <2>1 DEF Typed
  <2>. QED
    BY <1>1, <2>2 DEF Requested
<1>5. Asked(2, op.kind, op.id, v)'
  <2>1. op.kind = "edit" => \E m \in 2 .. 2 : Typed(op.id, v, m) \in seen'.typed
    BY <1>1 DEF Requested
  <2>2. Effect(seen'.wishes[1], seen'.wishes[2], op.kind, op.id, v)
    BY <1>1 DEF Requested
  <2>. QED
    BY <1>1, <2>1, <2>2 DEF Asked, Effect, Typed
<1>6. PICK at : at = [i \in 0 .. 1 |-> i + 1]
  OBVIOUS
<1>7. at[0] = 1 /\ at[1] = 2 /\ at \in [0 .. Len(module') -> 1 .. Num']
  BY <1>1, <1>2, <1>6
<1>8. Counted(at)'
  <2>. SUFFICES ASSUME NEW i \in 1 .. Len(module')
                PROVE  /\ at[i] = at[i - 1] + 1
                       /\ Asked(at[i], module[i].kind, module[i].id, UserOf(module[i]))'
    <3>1. \A i \in 1 .. Len(module') : IsRequest(module'[i])
      BY <1>2 DEF Requested
    <3>. QED
      BY <3>1 DEF Counted
  <2>1. i = 1 /\ i - 1 = 0
    BY <1>2
  <2>. QED
    BY <1>2, <1>5, <1>7, <2>1 DEF Requested
<1>9. Numbered(1, at)'
  <2>1. Handed(1)'
    BY <1>2 DEF Handed
  <2>. QED
    BY <1>1, <1>2, <1>3, <1>7, <1>8, <2>1 DEF Numbered
<1>. QED
  BY <1>1, <1>3, <1>4, <1>7, <1>9 DEF Followed

\* Another request.
LEMMA NextRequest ==
    ASSUME Types, Followed, ~AllDone, UNCHANGED <<storage, rows, saved>>, Later => AsksOn,
           NEW op \in Blocks, NEW w2 \in AnyWish, NEW typed \in SUBSET AnyUser, NEW v,
           Requested(op, w2, typed, v)
    PROVE  Followed'
<1>0. /\ SeenType /\ Num \in Nat \ {0} /\ seen.wishes \in Seq(AnyWish)
      /\ Wish = seen.wishes[Num]
  BY QueueFacts, WishesType
<1>1. PICK k \in Nat : k = Num + 1
  BY <1>0
<1>2. /\ seen'.wishes = Append(seen.wishes, w2) /\ Num' = k
      /\ \A i \in 1 .. Num : seen'.wishes[i] = seen.wishes[i]
      /\ seen'.wishes[k] = w2
      /\ Len(Wishes(w2)) = k
  BY <1>0, <1>1, AppendSeq DEF Requested, Wishes, Num
<1>3. seen'.typed = seen.typed \union {Typed(op.id, u, k) : u \in typed}
  BY <1>2 DEF Requested
<1>4. Later
  <2>1. seen.typed \subseteq seen'.typed
    BY <1>3
  <2>2. Num' \in Nat /\ Num <= Num'
    BY <1>0, <1>1, <1>2
  <2>. QED
    BY <1>2, <2>1, <2>2 DEF Later
<1>5. TypedAgrees'
  <2>. SUFFICES ASSUME NEW t \in seen'.typed
                PROVE  /\ t.wish \in 2 .. Num'
                       /\ t.of \in DOMAIN seen'.wishes[t.wish - 1] =>
                             /\ t.of \in DOMAIN seen'.wishes[t.wish]
                             /\ seen'.wishes[t.wish][t.of] = t.user
    BY DEF TypedAgrees
  <2>1. CASE t \in seen.typed
    <3>1. /\ t.wish \in 2 .. Num
          /\ t.of \in DOMAIN seen.wishes[t.wish - 1] =>
                /\ t.of \in DOMAIN seen.wishes[t.wish]
                /\ seen.wishes[t.wish][t.of] = t.user
      BY <2>1 DEF Followed, TypedAgrees
    <3>2. t.wish \in 1 .. Num /\ t.wish - 1 \in 1 .. Num /\ t.wish \in 2 .. Num'
      BY <1>0, <1>1, <1>2, <3>1
    <3>. QED
      BY <1>2, <3>1, <3>2
  <2>2. CASE t \notin seen.typed
    <3>1. PICK u \in typed : t = Typed(op.id, u, k)
      BY <1>3, <2>2
    <3>2. /\ t.of = op.id /\ t.user = u /\ t.wish = k /\ t.wish - 1 = Num
          /\ k \in 2 .. Num' /\ Num \in 1 .. Num
      BY <1>0, <1>1, <1>2, <3>1 DEF Typed
    <3>3. seen'.wishes[t.wish - 1] = Wish /\ seen'.wishes[t.wish] = w2
      BY <1>0, <1>2, <3>2
    <3>. QED
      BY <3>2, <3>3 DEF Requested
  <2>. QED
    BY <2>1, <2>2
<1>6. Asked(k, op.kind, op.id, v)'
  <2>1. op.kind = "edit" => \E m \in k .. Num' : Typed(op.id, v, m) \in seen'.typed
    BY <1>1, <1>2, <1>3 DEF Requested
  <2>2. k - 1 = Num /\ k \in 2 .. Num' /\ Num \in 1 .. Num
    BY <1>0, <1>1, <1>2
  <2>3. Effect(seen'.wishes[k - 1], seen'.wishes[k], op.kind, op.id, v)
    BY <1>0, <1>2, <2>2 DEF Requested
  <2>. QED
    BY <2>1, <2>2, <2>3 DEF Asked, Effect, Typed, Num
<1>7. Asked(k, op.kind, op.id, UserOf(op))'
  BY <1>6 DEF Requested
<1>8. IsRequest(op) /\ module' = Append(module, op)
  BY DEF Requested
<1>. QED
  BY <1>1, <1>2, <1>4, <1>5, <1>7, <1>8, FollowedAppend

\* What is handed to the storage.
LEMMA HandedChange ==
    ASSUME Types, Past, HandOn
    PROVE  /\ [kind |-> Op.kind, id |-> Op.id, user |-> UserOf(Op)] \in Changes
           /\ storage' \in Seq(Changes)
<1>. PICK c : c = [kind |-> Op.kind, id |-> Op.id, user |-> UserOf(Op)]
  OBVIOUS
<1>1. /\ Len(module) \in Nat \ {0} /\ Op = module[1] /\ IsRequest(module[1]) /\ Op \in Blocks
  BY QueueFacts, TailSeq DEF HandOn, Op
<1>4. c \in Changes
  <2>1. Op.kind \in Requests /\ Op.id \in Devices
    BY <1>1 DEF IsRequest, Blocks, Requests
  <2>2. UserOf(Op) \in AnyUser
    <3>1. CASE Op.kind = "add"
      BY <1>1, <3>1 DEF UserOf, Blocks, Requests
    <3>2. CASE Op.kind = "delete"
      BY <3>2 DEF UserOf, AnyUser
    <3>3. CASE Op.kind = "edit"
      <4>1. Op.visit \in 1 .. Len(draft) /\ draft \in Seq(AnyUser)
        <5>1. PastBlock(Op)
          <6>0. \A k \in Nat \ {0} : 1 \in 1 .. k
            OBVIOUS
          <6>1. 1 \in 1 .. Len(module)
            BY <1>1, <6>0, Zenon
          <6>. QED
            BY <1>1, <6>1 DEF Past, PastBlocks
        <5>2. Op.visit > 0 /\ Op.visit <= screen.visit
          BY <3>3, <5>1 DEF PastBlock, Requests
        <5>3. Op.visit \in Visits
          BY <1>1, <3>3 DEF Blocks, Requests
        <5>4. Len(draft) = screen.visit /\ draft \in Seq(AnyUser) /\ screen.visit \in Visits
          BY DEF Types, ScreenType
        <5>5. PICK v \in Nat, m \in Nat : v = Op.visit /\ m = screen.visit
          BY <5>3, <5>4, DeviceAssumption DEF Visits
        <5>. QED
          BY <5>2, <5>4, <5>5
      <4>. QED
        BY <3>3, <4>1, ElementOfSeq DEF UserOf
    <3>. QED
      BY <1>1, <3>1, <3>2, <3>3 DEF IsRequest
  <2>. QED
    BY <2>1, <2>2 DEF Changes
<1>. QED
  BY <1>4, QueueFacts, AppendSeq DEF HandOn

\* moduleQueue hands a request on to the storage.
LEMMA FollowedHandOn ==
    ASSUME Types, Past, Followed, HandOn
    PROVE  Followed'
<1>. PICK ann : ann = [kind |-> "announce", of |-> Op.kind]
  OBVIOUS
<1>. PICK c : c = [kind |-> Op.kind, id |-> Op.id, user |-> UserOf(Op)]
  OBVIOUS
<1>1. /\ Len(module) \in Nat \ {0} /\ Op = module[1] /\ IsRequest(module[1]) /\ Op \in Blocks
      /\ \A i \in 1 .. Len(module) : module[i] \in Blocks
  BY QueueFacts, TailSeq, ElementOfSeq DEF HandOn, Op
<1>2. ann \in Blocks /\ ~IsRequest(ann)
  BY <1>1 DEF IsRequest, Blocks, Requests
<1>3. /\ Len(module') = Len(module) /\ module'[1] = ann
      /\ \A i \in 2 .. Len(module) : module'[i] = module[i]
  BY QueueFacts, HandOnQueue
<1>4. c \in Changes
  BY HandedChange
<1>5. /\ storage' = Append(storage, c) /\ UNCHANGED <<rows, saved, seen, draft>>
      /\ Len(storage) \in Nat /\ Len(storage') = Len(storage) + 1
      /\ \A i \in 1 .. Len(storage) : storage'[i] = storage[i]
      /\ storage'[Len(storage) + 1] = c
  BY <1>4, QueueFacts, AppendSeq DEF HandOn, screenVars
<1>6. SeenType /\ Num \in Nat /\ Num' = Num /\ Later /\ AsksOn
  <2>1. SeenType /\ Num \in Nat /\ Num' = Num /\ Later
    BY <1>5, QueueFacts DEF Num, Later
  <2>. QED
    BY <1>5, <2>1, DraftsStay
<1>7. PICK n \in 1 .. Num, at \in [0 .. Len(module) -> 1 .. Num] :
         Numbered(n, at) /\ \E k \in 1 .. n : Follows(saved, k)
  BY DEF Followed
<1>8. at[0] = n + Len(storage) /\ at[1] = at[0] + 1 /\ at[Len(module)] = Num
      /\ Asked(at[1], Op.kind, Op.id, UserOf(Op))
  <2>0. (\A k \in Nat \ {0} : 1 \in 1 .. k) /\ 1 - 1 = 0
    OBVIOUS
  <2>1. 1 \in 1 .. Len(module) /\ 1 - 1 = 0
    BY <1>1, <2>0, Zenon
  <2>2. at[0] = n + Len(storage) /\ at[Len(module)] = Num /\ Counted(at)
    BY <1>7 DEF Numbered
  <2>3. /\ at[1] = at[1 - 1] + 1
        /\ Asked(at[1], module[1].kind, module[1].id, UserOf(module[1]))
    BY <1>1, <2>1, <2>2 DEF Counted
  <2>. QED
    BY <1>1, <2>1, <2>2, <2>3
<1>9. PICK at2 : at2 = [i \in 0 .. Len(module) |-> IF i = 0 THEN at[1] ELSE at[i]]
  OBVIOUS
<1>10. /\ at2 \in [0 .. Len(module') -> 1 .. Num] /\ at2[0] = at[1]
       /\ \A i \in 1 .. Len(module) : at2[i] = at[i]
  BY <1>1, <1>3, <1>9
<1>11. Counted(at2)'
  <2>. SUFFICES ASSUME NEW i \in 1 .. Len(module)
                PROVE  (IF IsRequest(module[i])
                        THEN /\ at2[i] = at2[i - 1] + 1
                             /\ Asked(at2[i], module[i].kind, module[i].id, UserOf(module[i]))
                        ELSE at2[i] = at2[i - 1])'
    BY <1>3 DEF Counted
  <2>1. CASE i = 1
    <3>1. module'[i] = ann /\ at2[i] = at[1] /\ at2[i - 1] = at[1]
      BY <1>1, <1>3, <1>10, <2>1
    <3>. QED
      BY <1>2, <3>1
  <2>2. CASE i # 1
    <3>1. /\ i \in 2 .. Len(module) /\ i - 1 \in 1 .. Len(module) /\ at[i] \in Nat
      BY <1>1, <1>6, <2>2
    <3>2. /\ module'[i] = module[i] /\ module[i] \in Blocks
          /\ at2[i] = at[i] /\ at2[i - 1] = at[i - 1]
      BY <1>1, <1>3, <1>10, <3>1
    <3>3. PICK b \in Blocks, l \in Nat : b = module[i] /\ b = module'[i] /\ l = at[i] /\ l = at2[i]
      BY <3>1, <3>2
    <3>4. CASE IsRequest(b)
      <4>1. l = at[i - 1] + 1 /\ Asked(l, b.kind, b.id, UserOf(b))
        BY <1>7, <3>3, <3>4 DEF Numbered, Counted
      <4>2. Asked(l, b.kind, b.id, UserOf(b))'
        BY <1>6, <3>3, <3>4, <4>1 DEF AsksOn
      <4>. QED
        BY <3>2, <3>3, <3>4, <4>1, <4>2
    <3>5. CASE ~IsRequest(b)
      BY <1>7, <3>2, <3>3, <3>5 DEF Numbered, Counted
    <3>. QED
      BY <3>4, <3>5
  <2>. QED
    BY <2>1, <2>2
<1>12. Handed(n)'
  <2>. SUFFICES ASSUME NEW i \in 1 .. Len(storage')
                PROVE  Asked(n + i, storage[i].kind, storage[i].id, storage[i].user)'
    BY DEF Handed
  <2>1. CASE i \in 1 .. Len(storage)
    <3>1. PICK s : s = storage[i] /\ s = storage'[i]
      BY <1>5, <2>1
    <3>2. Asked(n + i, s.kind, s.id, s.user)
      BY <1>7, <2>1, <3>1 DEF Numbered, Handed
    <3>3. Asked(n + i, s.kind, s.id, s.user)'
      BY <1>6, <3>2, AskedLater
    <3>. QED
      BY <3>1, <3>3
  <2>2. CASE i = Len(storage) + 1
    <3>1. n + i = at[1] /\ storage'[i] = c
      BY <1>5, <1>6, <1>8, <2>2
    <3>2. Asked(n + i, c.kind, c.id, c.user)
      BY <1>8, <3>1
    <3>3. Asked(n + i, c.kind, c.id, c.user)'
      BY <1>6, <3>2, AskedLater
    <3>. QED
      BY <3>1, <3>3
  <2>. QED
    BY <1>5, <2>1, <2>2
<1>13. Follows(rows, n)' /\ \E k \in 1 .. n : Follows(saved, k)'
  <2>1. Follows(rows, n)'
    BY <1>5, <1>6, <1>7, FollowsLater DEF Numbered
  <2>2. PICK k \in 1 .. n : Follows(saved, k)
    BY <1>7
  <2>3. k \in 1 .. Num
    BY <1>6
  <2>4. Follows(saved, k)'
    BY <1>5, <1>6, <2>2, <2>3, FollowsLater
  <2>. QED
    BY <2>1, <2>4
<1>14. Numbered(n, at2)'
  <2>1. at2[0] = n + Len(storage') /\ at2[Len(module')] = Num
    BY <1>1, <1>3, <1>5, <1>6, <1>8, <1>10
  <2>. QED
    BY <1>6, <1>10, <1>11, <1>12, <1>13, <2>1 DEF Numbered
<1>15. TypedAgrees'
  BY <1>5, <1>6 DEF Followed, TypedAgrees
<1>16. storage' # <<>>
  BY <1>5
<1>. QED
  BY <1>6, <1>10, <1>13, <1>14, <1>15, <1>16 DEF Followed

\* The storage carries a request out.
LEMMA FollowedStorage ==
    ASSUME Types, Past, Followed, RunStorage
    PROVE  Followed' /\ rows' \in Seq(Row) /\ Given(rows, rows', Head(storage))
<1>1. /\ UNCHANGED <<module, draft, seen>> /\ storage # <<>> /\ storage' = Tail(storage)
      /\ saved' = rows' \/ saved' = saved
      /\ storage' = <<>> => saved' = rows'
  BY DEF RunStorage, screenVars
<1>. PICK b : b = Head(storage)
  OBVIOUS
<1>2. /\ Len(storage) \in Nat \ {0} /\ b \in Changes /\ b = storage[1]
      /\ Len(storage') = Len(storage) - 1
      /\ \A i \in 1 .. Len(storage) - 1 : storage'[i] = storage[i + 1]
  BY <1>1, QueueFacts, TailSeq
<1>3. rows' = CASE b.kind = "add"    -> AddDevice(rows, b)
                [] b.kind = "delete" -> DeleteDevice(rows, b)
                [] b.kind = "edit"   -> EditDevice(rows, b)
  BY DEF RunStorage
<1>4. /\ SeenType /\ Num \in Nat /\ Num' = Num /\ Later /\ AsksOn
      /\ rows \in Seq(Row) /\ saved \in Seq(Row)
  <2>1. SeenType /\ Num \in Nat /\ Num' = Num /\ Later
    BY <1>1, QueueFacts DEF Num, Later
  <2>. QED
    BY <1>1, <2>1, QueueFacts, DraftsStay
<1>5. PICK n \in 1 .. Num, at \in [0 .. Len(module) -> 1 .. Num] :
         Numbered(n, at) /\ \E k \in 1 .. n : Follows(saved, k)
  BY DEF Followed
<1>6. Asked(n + 1, b.kind, b.id, b.user) /\ Follows(rows, n)
  <2>1. 1 \in 1 .. Len(storage)
    BY <1>2
  <2>. QED
    BY <1>2, <1>5, <2>1 DEF Numbered, Handed
<1>7. n + 1 \in 2 .. Num /\ n + 1 \in 1 .. Num
  BY <1>4, <1>5, <1>6 DEF Asked
<1>. PICK rows2 : rows2 = rows'
  OBVIOUS
<1>8. rows2 \in Seq(Row) /\ Given(rows, rows2, b) /\ Follows(rows2, n + 1)
  BY <1>2, <1>3, <1>4, <1>6, FollowsNext DEF Followed
<1>9. Follows(rows2, n + 1)'
  BY <1>4, <1>7, <1>8, FollowsLater
<1>10. \E k \in 1 .. n + 1 : Follows(saved, k)'
  <2>1. CASE saved' = rows'
    BY <1>7, <1>9, <2>1
  <2>2. CASE saved' = saved
    <3>1. PICK k \in 1 .. n : Follows(saved, k)
      BY <1>5
    <3>2. k \in 1 .. Num /\ k \in 1 .. n + 1
      BY <1>4
    <3>. PICK old : old = saved
      OBVIOUS
    <3>3. Follows(old, k)'
      BY <1>4, <3>1, <3>2, FollowsLater
    <3>. QED
      BY <2>2, <3>2, <3>3
  <2>. QED
    BY <1>1, <2>1, <2>2
<1>11. Handed(n + 1)'
  <2>. SUFFICES ASSUME NEW i \in 1 .. Len(storage) - 1
                PROVE  Asked(n + 1 + i, storage[i].kind, storage[i].id, storage[i].user)'
    BY <1>2 DEF Handed
  <2>1. i + 1 \in 1 .. Len(storage) /\ n + (i + 1) = n + 1 + i
    BY <1>2, <1>4
  <2>2. PICK s : s = storage[i + 1] /\ s = storage'[i]
    BY <1>2
  <2>3. Asked(n + 1 + i, s.kind, s.id, s.user)
    BY <1>5, <2>1, <2>2 DEF Numbered, Handed
  <2>4. Asked(n + 1 + i, s.kind, s.id, s.user)'
    BY <1>4, <2>3, AskedLater
  <2>. QED
    BY <2>2, <2>4
<1>12. Counted(at)'
  <2>. SUFFICES ASSUME NEW i \in 1 .. Len(module)
                PROVE  (IF IsRequest(module[i])
                        THEN /\ at[i] = at[i - 1] + 1
                             /\ Asked(at[i], module[i].kind, module[i].id, UserOf(module[i]))
                        ELSE at[i] = at[i - 1])'
    BY <1>1 DEF Counted
  <2>1. module[i] \in Blocks /\ Len(module) \in Nat
    BY QueueFacts, ElementOfSeq
  <2>2. i \in 0 .. Len(module)
    BY <2>1
  <2>3. at[i] \in Nat
    BY <1>4, <2>2
  <2>4. PICK c \in Blocks, l \in Nat : c = module[i] /\ c = module'[i] /\ l = at[i]
    BY <1>1, <2>1, <2>3
  <2>5. CASE IsRequest(c)
    <3>1. l = at[i - 1] + 1 /\ Asked(l, c.kind, c.id, UserOf(c))
      BY <1>5, <2>4, <2>5 DEF Numbered, Counted
    <3>2. Asked(l, c.kind, c.id, UserOf(c))'
      BY <1>4, <2>4, <2>5, <3>1 DEF AsksOn
    <3>. QED
      BY <2>4, <2>5, <3>1, <3>2
  <2>6. CASE ~IsRequest(c)
    BY <1>5, <2>4, <2>6 DEF Numbered, Counted
  <2>. QED
    BY <2>5, <2>6
<1>13. Numbered(n + 1, at)'
  <2>1. /\ at \in [0 .. Len(module') -> 1 .. Num'] /\ at[Len(module')] = Num'
        /\ at[0] = n + 1 + Len(storage')
    BY <1>1, <1>2, <1>4, <1>5 DEF Numbered
  <2>2. Follows(rows, n + 1)'
    BY <1>9
  <2>. QED
    BY <1>4, <1>7, <1>11, <1>12, <2>1, <2>2 DEF Numbered
<1>14. TypedAgrees'
  BY <1>1, <1>4 DEF Followed, TypedAgrees
<1>15. Followed'
  <2>1. at \in [0 .. Len(module') -> 1 .. Num']
    BY <1>1, <1>4
  <2>. QED
    BY <1>1, <1>4, <1>7, <1>10, <1>13, <1>14, <2>1 DEF Followed
<1>. QED
  BY <1>8, <1>15

\* Nothing is on its way, and what is asked for is what the file holds.
LEMMA FollowedRestart ==
    ASSUME NEW rs \in Seq(Row), EachOnce(rs), rows = rs, saved = rs,
           module = <<>>, storage = <<>>,
           seen.wishes = <<RowsAsWish(rs)>>, seen.typed = {}
    PROVE  Followed
<1>1. /\ Num = 1 /\ seen.wishes[1] = RowsAsWish(rs) /\ Len(module) = 0 /\ Len(storage) = 0
  BY DEF Num
<1>2. Follows(rs, 1)
  BY <1>1, RowsAsWishFacts DEF Follows
<1>3. PICK at : at = [i \in 0 .. 0 |-> 1]
  OBVIOUS
<1>4. at \in [0 .. Len(module) -> 1 .. Num] /\ at[0] = 1
  BY <1>1, <1>3
<1>5. Numbered(1, at)
  BY <1>1, <1>2, <1>4 DEF Numbered, Handed, Counted
<1>6. TypedAgrees
  BY DEF TypedAgrees
<1>. QED
  BY <1>1, <1>2, <1>4, <1>5, <1>6 DEF Followed

\* The app is started again, and asked for is what the file holds.
LEMMA RestartFollowed ==
    ASSUME NEW rs \in Seq(Row), EachOnce(rs), rows' = rs, saved' = rs,
           module' = <<>>, storage' = <<>>,
           seen'.wishes = <<RowsAsWish(rs)>>, seen'.typed = {}
    PROVE  Followed'
<1>1. /\ Num' = 1 /\ seen'.wishes[1] = RowsAsWish(rs) /\ Len(module') = 0 /\ Len(storage') = 0
  BY DEF Num
<1>2. Follows(rs, 1)'
  BY <1>1, RowsAsWishFacts DEF Follows
<1>3. PICK at : at = [i \in 0 .. 0 |-> 1]
  OBVIOUS
<1>4. at \in [0 .. Len(module') -> 1 .. Num'] /\ at[0] = 1
  BY <1>1, <1>3
<1>5. Numbered(1, at)'
  BY <1>1, <1>2, <1>4 DEF Numbered, Handed, Counted
<1>6. TypedAgrees'
  BY DEF TypedAgrees
<1>. QED
  BY <1>1, <1>2, <1>4, <1>5, <1>6 DEF Followed

-----------------------------------------------------------------------------
(* The steps of the user that ask for something have this in common.       *)

Asks(op) ==
    /\ screen.name \in {"list", "edit", "search"}
    /\ UNCHANGED <<screen, pinged, busy, timers, listens, storage, rows, saved, main, shown>>
    /\ touches < MaxTouches /\ touches' = touches + 1
    /\ IsRequest(op) /\ op.visit <= screen.visit
    /\ screen.name = "edit" => op.visit = screen.visit
    /\ op.kind = "edit" => /\ op.visit = screen.visit /\ op.visit > 0
                           /\ op.id = screen.device
    /\ IF screen.name = "search"
       THEN /\ op.id \in DOMAIN found /\ ~found[op.id]
            /\ found' = [found EXCEPT ![op.id] = TRUE]
       ELSE found' = found
    /\ hud' \in BOOLEAN
    /\ draft' \in Seq(AnyUser) /\ Len(draft') = Len(draft) /\ (~AllDone /\ Later => AsksOn)
    /\ \E w2 \in AnyWish, typed \in SUBSET AnyUser, v \in AnyUser :
          /\ Requested(op, w2, typed, v)
          /\ seen' = [seen EXCEPT !.wishes = Wishes(w2),
                                  !.asked = @ \union {op.visit},
                                  !.typed = (IF AllDone THEN {} ELSE @) \union
                                      {Typed(op.id, u, Len(Wishes(w2))) : u \in typed}]

\* A request that types no user, by a screen that keeps its draft.
LEMMA AsksPlainly ==
    ASSUME IInv, NEW op \in Blocks, NEW w2 \in AnyWish, NEW v \in AnyUser,
           Request(op, w2, {}), IsRequest(op), op.kind # "edit",
           UserOf(op)' = v, Effect(Wish, w2, op.kind, op.id, v),
           UNCHANGED <<screen, draft, pinged, busy, timers, listens, storage, rows, saved,
                       main, shown>>,
           screen.name \in {"list", "edit", "search"}, op.visit <= screen.visit,
           screen.name = "edit" => op.visit = screen.visit,
           IF screen.name = "search"
           THEN /\ op.id \in DOMAIN found /\ ~found[op.id]
                /\ found' = [found EXCEPT ![op.id] = TRUE]
           ELSE found' = found,
           hud' \in BOOLEAN
    PROVE  Asks(op)
<1>1. /\ seen.wishes \in Seq(AnyWish) /\ SeenType
      /\ seen \in [wishes : Seq(AnyWish), known : SUBSET Row, asked : SUBSET Visits,
                   closed : SUBSET Visits, typed : SUBSET Signatures]
  BY DEF IInv, Types, SeenType
<1>2. /\ seen' = [seen EXCEPT !.wishes = Wishes(w2),
                              !.asked = @ \union {op.visit},
                              !.typed = (IF AllDone THEN {} ELSE @) \union
                                  {Typed(op.id, u, Len(Wishes(w2))) : u \in {}}]
      /\ module' = Append(module, op) /\ touches < MaxTouches /\ touches' = touches + 1
  BY DEF Request, Touch
<1>3. /\ seen'.wishes = Wishes(w2)
      /\ seen'.typed = (IF AllDone THEN {} ELSE seen.typed) \union
                          {Typed(op.id, u, Len(Wishes(w2))) : u \in {}}
  BY <1>1, <1>2
<1>4. Requested(op, w2, {}, v)
  BY <1>2, <1>3 DEF Requested
<1>5. Later => AsksOn
  BY DraftsStay DEF IInv
<1>6. draft' \in Seq(AnyUser) /\ Len(draft') = Len(draft)
  BY DEF IInv, Types, ScreenType
<1>7. {} \in SUBSET AnyUser
  OBVIOUS
<1>. QED
  BY <1>2, <1>4, <1>5, <1>6, <1>7 DEF Asks

LEMMA AskedWish == ASSUME IInv PROVE Wish \in AnyWish
BY WishesType DEF IInv, Types

LEMMA AddByHandAsks ==
    ASSUME IInv, NEW d \in Devices, NEW u \in Users, AddByHand(d, u)
    PROVE  \E op \in Blocks : Asks(op)
<1>1. PICK op \in Blocks : op = [kind |-> "add", id |-> d, user |-> u, visit |-> 0]
  <2>1. 0 \in Visits /\ u \in AnyUser
    BY DeviceAssumption DEF Visits, AnyUser
  <2>. QED
    BY <2>1 DEF Blocks
<1>2. u \in AnyUser /\ op.kind = "add" /\ op.id = d /\ op.user = u /\ op.visit = 0
  BY <1>1 DEF AnyUser
<1>3. PICK w2 : w2 = With(Wish, d, u)
  OBVIOUS
<1>4. w2 \in AnyWish /\ Effect(Wish, w2, "add", d, u)
  BY <1>2, <1>3, AskedWish, AsksAdd
<1>5. Request(op, w2, {})
  BY <1>1, <1>3 DEF AddByHand
<1>6. UserOf(op)' = u
  BY <1>2 DEF UserOf
<1>7. IsRequest(op) /\ op.visit <= screen.visit /\ hud' \in BOOLEAN
  BY <1>2 DEF IsRequest, AddByHand, IInv, Types, ScreenType, FlagType, Visits
<1>. QED
  BY <1>2, <1>4, <1>5, <1>6, <1>7, AsksPlainly DEF AddByHand, screenVars, storeVars

LEMMA DeleteRowAsks ==
    ASSUME IInv, NEW d \in Devices, DeleteRow(d)
    PROVE  \E op \in Blocks : Asks(op)
<1>1. PICK op \in Blocks : op = [kind |-> "delete", id |-> d, visit |-> 0]
  <2>1. 0 \in Visits
    BY DeviceAssumption DEF Visits
  <2>. QED
    BY <2>1 DEF Blocks
<1>2. op.kind = "delete" /\ op.id = d /\ op.visit = 0 /\ NoUser \in AnyUser
  BY <1>1 DEF AnyUser
<1>3. PICK w2 : w2 = Without(Wish, d)
  OBVIOUS
<1>4. w2 \in AnyWish /\ Effect(Wish, w2, "delete", d, NoUser)
  BY <1>3, AskedWish, AsksDelete
<1>5. Request(op, w2, {})
  BY <1>1, <1>3 DEF DeleteRow
<1>6. UserOf(op)' = NoUser
  BY <1>2 DEF UserOf
<1>7. IsRequest(op) /\ op.visit <= screen.visit /\ hud' \in BOOLEAN
  BY <1>2 DEF IsRequest, DeleteRow, IInv, Types, ScreenType, FlagType, Visits
<1>. QED
  BY <1>2, <1>4, <1>5, <1>6, <1>7, AsksPlainly DEF DeleteRow, screenVars, storeVars

LEMMA DeleteShownAsks ==
    ASSUME IInv, DeleteShown
    PROVE  \E op \in Blocks : Asks(op)
<1>0. screen.device \in Devices /\ screen.visit \in Visits /\ screen.visit \in Nat
  BY DeviceAssumption DEF IInv, Types, ScreenType, Visits
<1>. PICK d \in Devices : d = screen.device
  BY <1>0
<1>1. PICK op \in Blocks : op = [kind |-> "delete", id |-> d, visit |-> screen.visit]
  BY <1>0 DEF Blocks
<1>2. op.kind = "delete" /\ op.id = d /\ op.visit = screen.visit /\ NoUser \in AnyUser
  BY <1>1 DEF AnyUser
<1>3. PICK w2 : w2 = Without(Wish, d)
  OBVIOUS
<1>4. w2 \in AnyWish /\ Effect(Wish, w2, "delete", d, NoUser)
  BY <1>3, AskedWish, AsksDelete
<1>5. Request(op, w2, {})
  BY <1>1, <1>3 DEF DeleteShown
<1>6. UserOf(op)' = NoUser
  BY <1>2 DEF UserOf
<1>7. IsRequest(op) /\ op.visit <= screen.visit /\ hud' \in BOOLEAN
  BY <1>0, <1>2 DEF IsRequest, DeleteShown, IInv, Types, FlagType
<1>. QED
  BY <1>2, <1>4, <1>5, <1>6, <1>7, AsksPlainly DEF DeleteShown, screenVars, storeVars

LEMMA AddFoundAsks ==
    ASSUME IInv, NEW d \in Devices, AddFound(d)
    PROVE  \E op \in Blocks : Asks(op)
<1>0. screen.visit \in Visits /\ screen.visit \in Nat /\ NoUser \in AnyUser
  BY DeviceAssumption DEF IInv, Types, ScreenType, Visits, AnyUser
<1>1. PICK op \in Blocks : op = [kind |-> "add", id |-> d, user |-> NoUser, visit |-> screen.visit]
  BY <1>0 DEF Blocks
<1>2. op.kind = "add" /\ op.id = d /\ op.user = NoUser /\ op.visit = screen.visit
  BY <1>1
<1>3. PICK w2 : w2 = With(Wish, d, NoUser)
  OBVIOUS
<1>4. w2 \in AnyWish /\ Effect(Wish, w2, "add", d, NoUser)
  BY <1>0, <1>3, AskedWish, AsksAdd
<1>5. Request(op, w2, {})
  BY <1>1, <1>3 DEF AddFound
<1>6. UserOf(op)' = NoUser
  BY <1>2 DEF UserOf
<1>7. IsRequest(op) /\ op.visit <= screen.visit /\ hud' \in BOOLEAN
  BY <1>0, <1>2 DEF IsRequest, AddFound
<1>. QED
  BY <1>0, <1>2, <1>4, <1>5, <1>6, <1>7, AsksPlainly DEF AddFound, storeVars

\* Saving in an edit screen changes what its earlier saves will give, unless
\* the manager has taken them already.
LEMMA SaveAsksOn ==
    ASSUME IInv, NEW u \in Users, Save(u), ~AllDone, Later
    PROVE  AsksOn
<1>. SUFFICES ASSUME NEW i \in 1 .. Len(module), NEW b \in Blocks, NEW k \in Nat,
                     b = module[i], IsRequest(b), Asked(k, b.kind, b.id, UserOf(b))
              PROVE  Asked(k, b.kind, b.id, UserOf(b))'
  BY DEF AsksOn
<1>1. /\ SeenType /\ Num \in Nat \ {0} /\ Types /\ Past
      /\ seen \in [wishes : Seq(AnyWish), known : SUBSET Row, asked : SUBSET Visits,
                   closed : SUBSET Visits, typed : SUBSET Signatures]
  BY QueueFacts DEF IInv, SeenType
<1>2. /\ screen.visit \in Nat /\ screen.visit > 0 /\ draft \in Seq(AnyUser)
      /\ Len(draft) = screen.visit /\ DOMAIN draft = 1 .. Len(draft)
  BY <1>1, LenProperties, DeviceAssumption DEF Types, ScreenType, Visits, Save
<1>3. draft' = [draft EXCEPT ![screen.visit] = u]
  BY DEF Save
<1>. PICK old : old = UserOf(b)
  OBVIOUS
<1>4. CASE b.kind = "edit" /\ b.visit = screen.visit
  <2>1. b.id = screen.device
    BY <1>1, <1>4 DEF Past, PastBlocks, PastBlock
  <2>2. UserOf(b)' = u
    BY <1>2, <1>3, <1>4 DEF UserOf
  <2>. PICK w2 : Request([kind |-> "edit", id |-> screen.device, visit |-> screen.visit], w2, {u})
    BY DEF Save
  <2>3. seen'.wishes = Append(seen.wishes, w2) /\ Num' = Num + 1
    BY <1>1 DEF Request, Wishes, Num
  <2>4. Len(Wishes(w2)) = Num + 1
    BY <1>1 DEF Wishes, Num
  <2>5. Typed(b.id, u, Num + 1) \in seen'.typed
    BY <1>1, <2>1, <2>4 DEF Request
  <2>6. Asked(k, b.kind, b.id, old)'
    BY <1>1, AskedLater
  <2>7. Asked(k, b.kind, b.id, u)'
    <3>1. Num + 1 \in k .. Num'
      BY <1>1, <2>3 DEF Asked
    <3>2. \E m \in k .. Num' : Typed(b.id, u, m) \in seen'.typed
      BY <2>5, <3>1
    <3>. QED
      BY <1>4, <2>6, <3>2 DEF Asked, Effect, Typed, Num
  <2>. QED
    BY <2>2, <2>7
<1>5. CASE ~(b.kind = "edit" /\ b.visit = screen.visit)
  <2>1. UserOf(b)' = old
    <3>1. CASE b.kind = "edit"
      <4>1. b.visit \in Nat /\ b.visit > 0 /\ b.visit <= screen.visit
        BY <1>1, <3>1 DEF Past, PastBlocks, PastBlock, Requests, Blocks, Visits, DeviceAssumption
      <4>2. draft'[b.visit] = draft[b.visit]
        BY <1>2, <1>3, <1>5, <3>1, <4>1
      <4>. QED
        BY <3>1, <4>2 DEF UserOf
    <3>2. CASE b.kind # "edit"
      BY <3>2 DEF UserOf, IsRequest
    <3>. QED
      BY <3>1, <3>2
  <2>2. Asked(k, b.kind, b.id, old)'
    BY <1>1, AskedLater
  <2>. QED
    BY <2>1, <2>2
<1>. QED
  BY <1>4, <1>5

LEMMA SaveAsks ==
    ASSUME IInv, NEW u \in Users, Save(u)
    PROVE  \E op \in Blocks : Asks(op)
<1>0. /\ screen.device \in Devices /\ screen.visit \in Visits /\ screen.visit \in Nat
      /\ screen.visit > 0 /\ screen.name = "edit" /\ u \in AnyUser
      /\ draft \in Seq(AnyUser) /\ Len(draft) = screen.visit
      /\ draft' = [draft EXCEPT ![screen.visit] = u]
      /\ seen \in [wishes : Seq(AnyWish), known : SUBSET Row, asked : SUBSET Visits,
                   closed : SUBSET Visits, typed : SUBSET Signatures]
  BY DeviceAssumption DEF IInv, Types, ScreenType, SeenType, Visits, AnyUser, Save
<1>. PICK d \in Devices : d = screen.device
  BY <1>0
<1>1. PICK op \in Blocks : op = [kind |-> "edit", id |-> d, visit |-> screen.visit]
  BY <1>0 DEF Blocks
<1>2. op.kind = "edit" /\ op.id = d /\ op.visit = screen.visit
  BY <1>1
<1>3. PICK w2 : w2 = IF d \in DOMAIN Wish THEN With(Wish, d, u) ELSE Wish
  OBVIOUS
<1>4. /\ w2 \in AnyWish /\ Effect(Wish, w2, "edit", d, u)
      /\ d \in DOMAIN Wish => d \in DOMAIN w2 /\ w2[d] = u
  <2>. PICK w : w = Wish
    OBVIOUS
  <2>1. w \in AnyWish /\ d \in Devices /\ u \in AnyUser
    BY <1>0, AskedWish
  <2>2. w2 = IF d \in DOMAIN w THEN With(w, d, u) ELSE w
    BY <1>3
  <2>3. w2 \in AnyWish /\ Effect(w, w2, "edit", d, u)
    BY <2>1, <2>2, AsksEdit
  <2>4. d \in DOMAIN w => d \in DOMAIN w2 /\ w2[d] = u
    BY <2>1, <2>2, AsksEdit
  <2>. QED
    BY <2>3, <2>4
<1>5. Request(op, w2, {u})
  BY <1>1, <1>3 DEF Save
<1>6. /\ draft' \in Seq(AnyUser) /\ Len(draft') = Len(draft) /\ draft'[op.visit] = u
  <2>1. DOMAIN draft = 1 .. Len(draft) /\ \A v \in 1 .. Len(draft) : draft[v] \in AnyUser
    BY <1>0, LenProperties, ElementOfSeq
  <2>2. draft' \in [1 .. Len(draft) -> AnyUser]
    BY <1>0, <2>1
  <2>3. draft' \in UNION {[1 .. n -> AnyUser] : n \in Nat}
    BY <1>0, <2>2
  <2>4. draft' \in Seq(AnyUser)
    BY <2>3, SeqDef
  <2>5. Len(draft') = Len(draft)
    BY <1>0, <2>2, <2>4, LenProperties
  <2>. QED
    BY <1>0, <1>2, <2>1, <2>4, <2>5
<1>7. UserOf(op)' = u
  BY <1>2, <1>6 DEF UserOf
<1>8. /\ seen' = [seen EXCEPT !.wishes = Wishes(w2),
                              !.asked = @ \union {op.visit},
                              !.typed = (IF AllDone THEN {} ELSE @) \union
                                  {Typed(op.id, x, Len(Wishes(w2))) : x \in {u}}]
      /\ module' = Append(module, op) /\ touches < MaxTouches /\ touches' = touches + 1
  BY <1>5 DEF Request, Touch
<1>9. /\ seen'.wishes = Wishes(w2)
      /\ seen'.typed = (IF AllDone THEN {} ELSE seen.typed) \union
                          {Typed(op.id, x, Len(Wishes(w2))) : x \in {u}}
  BY <1>0, <1>8
<1>10. IsRequest(op)
  BY <1>2 DEF IsRequest
<1>11. Requested(op, w2, {u}, u)
  BY <1>2, <1>4, <1>7, <1>8, <1>9, <1>10 DEF Requested
<1>12. ~AllDone /\ Later => AsksOn
  BY SaveAsksOn
<1>13. /\ UNCHANGED <<screen, found, pinged, busy, timers, listens, storage, rows, saved,
                      main, shown>>
       /\ hud' \in BOOLEAN
  BY DEF Save, storeVars, IInv, Types, FlagType
<1>14. {u} \in SUBSET AnyUser
  BY <1>0
<1>15. op.visit <= screen.visit
  BY <1>0, <1>2
<1>16. \E y \in AnyWish, typed \in SUBSET AnyUser, v \in AnyUser :
          /\ Requested(op, y, typed, v)
          /\ seen' = [seen EXCEPT !.wishes = Wishes(y),
                                  !.asked = @ \union {op.visit},
                                  !.typed = (IF AllDone THEN {} ELSE @) \union
                                      {Typed(op.id, x, Len(Wishes(y))) : x \in typed}]
  BY <1>0, <1>4, <1>8, <1>11, <1>14
<1>. QED
  BY <1>0, <1>2, <1>6, <1>8, <1>10, <1>12, <1>13, <1>15, <1>16 DEF Asks

\* Every step is one of these.
LEMMA Steps ==
    ASSUME IInv, [Next]_vars
    PROVE  \/ \E op \in Blocks : Asks(op)
           \/ \E d \in Devices : OpenEdit(d)
           \/ OpenSearch \/ Refresh \/ BackFromSearch \/ BackFromEdit \/ EditHasGone
           \/ \E d \in Devices : Find(d)
           \/ TimerFires
           \/ HandOn \/ Announce \/ RunRegister \/ RunRemove \/ RunStorage
           \/ DidAdd \/ DidChange \/ BusyOff \/ Merge
           \/ Kill \/ UNCHANGED vars
BY AddByHandAsks, DeleteRowAsks, SaveAsks, DeleteShownAsks, AddFoundAsks
   DEF Next, User, ModuleQueue, MainQueue

-----------------------------------------------------------------------------
(* The types.                                                              *)

\* What a request does to the history.
LEMMA AskFacts ==
    ASSUME IInv, NEW op \in Blocks, Asks(op)
    PROVE  /\ module' = Append(module, op) /\ op.visit \in Visits /\ op.id \in Devices
           /\ SeenType' /\ Followed'
           /\ seen'.known = seen.known /\ seen'.closed = seen.closed
           /\ seen'.asked = seen.asked \union {op.visit}
<1>0. /\ Types /\ Followed /\ SeenType
      /\ seen \in [wishes : Seq(AnyWish), known : SUBSET Row, asked : SUBSET Visits,
                   closed : SUBSET Visits, typed : SUBSET Signatures]
  BY DEF IInv, Types, SeenType
<1>1. PICK w2 \in AnyWish, typed \in SUBSET AnyUser, v \in AnyUser :
          /\ Requested(op, w2, typed, v)
          /\ seen' = [seen EXCEPT !.wishes = Wishes(w2),
                                  !.asked = @ \union {op.visit},
                                  !.typed = (IF AllDone THEN {} ELSE @) \union
                                      {Typed(op.id, u, Len(Wishes(w2))) : u \in typed}]
  BY DEF Asks
<1>2. op.visit \in Visits /\ op.id \in Devices
  BY DEF Asks, IsRequest, Blocks, Requests
<1>3. Wishes(w2) \in Seq(AnyWish) /\ Len(Wishes(w2)) > 0 /\ Len(Wishes(w2)) \in Nat
  <2>1. Wish \in AnyWish /\ Num \in Nat \ {0} /\ seen.wishes \in Seq(AnyWish)
    BY <1>0, WishesType
  <2>2. CASE AllDone
    BY <2>1, <2>2 DEF Wishes
  <2>3. CASE ~AllDone
    BY <2>1, <2>3, AppendSeq DEF Wishes
  <2>. QED
    BY <2>2, <2>3
<1>4. \A u \in typed : Typed(op.id, u, Len(Wishes(w2))) \in Signatures
  BY <1>2, <1>3 DEF Typed, Signatures
<1>5. /\ seen'.wishes = Wishes(w2) /\ seen'.known = seen.known /\ seen'.closed = seen.closed
      /\ seen'.asked = seen.asked \union {op.visit}
      /\ seen'.typed = (IF AllDone THEN {} ELSE seen.typed) \union
                          {Typed(op.id, u, Len(Wishes(w2))) : u \in typed}
  BY <1>0, <1>1
<1>6. seen'.typed \in SUBSET Signatures
  BY <1>0, <1>4, <1>5
<1>7. seen'.asked \in SUBSET Visits
  BY <1>0, <1>2, <1>5
<1>8. SeenType'
  <2>1. seen' = [wishes |-> seen'.wishes, known |-> seen'.known, asked |-> seen'.asked,
                 closed |-> seen'.closed, typed |-> seen'.typed]
    BY <1>0, <1>1
  <2>2. seen' \in [wishes : Seq(AnyWish), known : SUBSET Row, asked : SUBSET Visits,
                   closed : SUBSET Visits, typed : SUBSET Signatures]
    BY <1>0, <1>3, <1>5, <1>6, <1>7, <2>1
  <2>. QED
    BY <1>3, <1>5, <2>2 DEF SeenType
<1>9. Followed'
  <2>1. UNCHANGED <<storage, rows, saved>> /\ (~AllDone /\ Later => AsksOn)
    BY DEF Asks
  <2>2. CASE AllDone
    BY <1>0, <1>1, <2>1, <2>2, FirstRequest
  <2>3. CASE ~AllDone
    BY <1>0, <1>1, <2>1, <2>3, NextRequest
  <2>. QED
    BY <2>2, <2>3
<1>. QED
  BY <1>1, <1>2, <1>5, <1>8, <1>9 DEF Requested

LEMMA ListType ==
    ASSUME IInv
    PROVE  /\ List(screen.visit).name = "list" /\ List(screen.visit).visit = screen.visit
           /\ List(screen.visit).device \in Devices
           /\ List(screen.visit) \in [name : {"list", "edit", "closing", "search", "leaving"},
                                      visit : Visits, device : Devices]
<1>1. (CHOOSE d \in Devices : TRUE) \in Devices
  BY DeviceAssumption
<1>. QED
  BY <1>1 DEF List, IInv, Types, ScreenType

LEMMA ScreenTypeStep ==
    ASSUME IInv, [Next]_vars
    PROVE  ScreenType'
<1>0. /\ screen \in [name : {"list", "edit", "closing", "search", "leaving"},
                     visit : Visits, device : Devices]
      /\ screen.visit \in Nat /\ touches \in Nat /\ touches <= MaxTouches /\ MaxTouches \in Nat
      /\ screen.visit <= touches /\ timers \in Nat /\ timers <= touches
      /\ draft \in Seq(AnyUser) /\ Len(draft) = screen.visit
      /\ screen.name # "list" => screen.visit > 0
  BY DeviceAssumption DEF IInv, Types, ScreenType, Visits
<1>1. CASE UNCHANGED <<screen, touches, timers, draft>>
  BY <1>0, <1>1 DEF ScreenType, Visits
<1>2. ASSUME NEW op \in Blocks, Asks(op) PROVE ScreenType'
  BY <1>0, <1>2 DEF Asks, ScreenType, Visits
<1>3. ASSUME NEW d \in Devices, NEW name \in {"edit", "search"}, Open(name, d),
             draft' = Append(draft, NoUser), timers' \in {timers, timers + 1}
      PROVE  ScreenType'
  <2>1. /\ screen' = [name |-> name, visit |-> screen.visit + 1, device |-> d]
        /\ touches' = touches + 1 /\ touches < MaxTouches
    BY <1>3 DEF Open, Touch
  <2>2. NoUser \in AnyUser
    BY DEF AnyUser
  <2>3. draft' \in Seq(AnyUser) /\ Len(draft') = screen.visit + 1
    BY <1>0, <1>3, <2>2, AppendSeq
  <2>4. /\ screen.visit + 1 \in Visits /\ touches + 1 \in Visits
        /\ timers' \in Nat /\ timers' <= touches + 1
    BY <1>0, <1>3, <2>1 DEF Visits
  <2>. QED
    BY <1>0, <2>1, <2>3, <2>4 DEF ScreenType
<1>4. ASSUME NEW d \in Devices, OpenEdit(d) PROVE ScreenType'
  BY <1>3, <1>4 DEF OpenEdit
<1>5. CASE OpenSearch
  <2>1. screen.device \in Devices
    BY <1>0
  <2>. QED
    BY <1>3, <1>5, <2>1 DEF OpenSearch, ShowBusy
<1>6. CASE Refresh
  <2>1. /\ screen' = screen /\ draft' = draft
        /\ touches' = touches + 1 /\ timers' = timers + 1 /\ touches < MaxTouches
    BY <1>6 DEF Refresh, Touch, ShowBusy
  <2>2. /\ touches' \in Visits /\ screen.visit <= touches'
        /\ timers' \in Nat /\ timers' <= touches'
    BY <1>0, <2>1 DEF Visits
  <2>. QED
    BY <1>0, <2>1, <2>2 DEF ScreenType
<1>7. CASE BackFromSearch
  <2>1. /\ screen.name = "search" /\ screen' = [screen EXCEPT !.name = "leaving"]
        /\ timers' = 0 /\ draft' = draft /\ touches' = touches
    BY <1>7 DEF BackFromSearch, Leave
  <2>2. /\ screen' \in [name : {"list", "edit", "closing", "search", "leaving"},
                        visit : Visits, device : Devices]
        /\ screen'.visit = screen.visit /\ screen.visit > 0
    BY <1>0, <2>1
  <2>3. touches \in Visits /\ timers' \in Nat /\ timers' <= touches'
    BY <1>0, <2>1 DEF Visits
  <2>. QED
    BY <1>0, <2>1, <2>2, <2>3 DEF ScreenType
<1>8. CASE BackFromEdit
  BY <1>0, <1>8 DEF BackFromEdit, SlideAway, screenVars, ScreenType, Visits
<1>9. CASE EditHasGone
  <2>1. /\ screen.name = "closing" /\ screen' = [screen EXCEPT !.name = "leaving"]
        /\ UNCHANGED <<draft, timers, touches>>
    BY <1>9 DEF EditHasGone, Leave, screenVars
  <2>. QED
    BY <1>0, <2>1 DEF ScreenType, Visits
<1>10. CASE TimerFires
  BY <1>0, <1>10 DEF TimerFires, ScreenType, Visits
<1>11. CASE RunRemove
  BY <1>0, <1>11, ListType DEF RunRemove, screenVars, ScreenType, Visits
<1>12. CASE DidChange
  BY <1>0, <1>12 DEF DidChange, SlideAway, screenVars, ScreenType, Visits
<1>13. CASE Kill
  <2>1. touches' \in Visits /\ screen.visit <= touches' /\ 0 <= touches'
    BY <1>0, <1>13 DEF Kill, Touch, Visits
  <2>. QED
    BY <1>0, <1>13, <2>1, ListType DEF Kill, ScreenType
<1>14. CASE \/ \E d \in Devices : Find(d)
            \/ HandOn \/ Announce \/ RunRegister \/ RunStorage \/ DidAdd \/ BusyOff \/ Merge
            \/ UNCHANGED vars
  BY <1>1, <1>14 DEF Find, HandOn, Announce, RunRegister, RunStorage, DidAdd, BusyOff, Merge,
                     screenVars, vars
<1>. QED
  BY <1>2, <1>4, <1>5, <1>6, <1>7, <1>8, <1>9, <1>10, <1>11, <1>12, <1>13, <1>14, Steps

LEMMA FoundTypeStep ==
    ASSUME IInv, [Next]_vars
    PROVE  FoundType'
<1>0. PICK D \in SUBSET Devices : found \in [D -> BOOLEAN]
  BY DEF IInv, Types, FoundType
<1>1. CASE found' = found
  BY <1>0, <1>1 DEF FoundType
<1>2. CASE found' = NoneFound
  <2>1. {} \in SUBSET Devices /\ found' \in [{} -> BOOLEAN]
    BY <1>2 DEF NoneFound
  <2>. QED
    BY <2>1 DEF FoundType
<1>3. ASSUME NEW op \in Blocks, Asks(op) PROVE FoundType'
  <2>1. found' = found \/ found' = [found EXCEPT ![op.id] = TRUE]
    BY <1>3 DEF Asks
  <2>2. found' \in [D -> BOOLEAN]
    BY <1>0, <2>1
  <2>. QED
    BY <2>2 DEF FoundType
<1>4. ASSUME NEW d \in Devices, Find(d) PROVE FoundType'
  <2>1. found' = [x \in D \union {d} |-> IF x = d THEN AlreadyAdded(d) ELSE found[x]]
    BY <1>0, <1>4 DEF Find
  <2>2. AlreadyAdded(d) \in BOOLEAN
    BY DEF AlreadyAdded
  <2>3. found' \in [D \union {d} -> BOOLEAN] /\ D \union {d} \in SUBSET Devices
    BY <1>0, <2>1, <2>2
  <2>. QED
    BY <2>3 DEF FoundType
<1>5. CASE OpenSearch \/ BackFromSearch \/ Kill
  BY <1>2, <1>5 DEF OpenSearch, BackFromSearch, Kill
<1>6. CASE \/ \E d \in Devices : OpenEdit(d)
           \/ Refresh \/ BackFromEdit \/ EditHasGone \/ TimerFires
           \/ HandOn \/ Announce \/ RunRegister \/ RunRemove \/ RunStorage
           \/ DidAdd \/ DidChange \/ BusyOff \/ Merge \/ UNCHANGED vars
  BY <1>1, <1>6 DEF OpenEdit, Refresh, BackFromEdit, EditHasGone, TimerFires, HandOn, Announce,
                    RunRegister, RunRemove, RunStorage, DidAdd, DidChange, BusyOff, Merge,
                    screenVars, vars
<1>. QED
  BY <1>3, <1>4, <1>5, <1>6, Steps

LEMMA FlagTypeStep ==
    ASSUME IInv, [Next]_vars
    PROVE  FlagType'
<1>0. pinged \in BOOLEAN /\ busy \in BOOLEAN /\ hud \in BOOLEAN
  BY DEF IInv, Types, FlagType
<1>1. ASSUME NEW op \in Blocks, Asks(op) PROVE FlagType'
  BY <1>0, <1>1 DEF Asks, FlagType
<1>2. CASE OpenSearch \/ Refresh \/ BackFromSearch \/ Kill
  BY <1>0, <1>2 DEF OpenSearch, Refresh, BackFromSearch, Kill, ShowBusy, FlagType
<1>3. CASE \/ \E d \in Devices : OpenEdit(d)
           \/ BackFromEdit \/ EditHasGone \/ TimerFires
           \/ \E d \in Devices : Find(d)
           \/ HandOn \/ Announce \/ RunRegister \/ RunRemove \/ RunStorage
           \/ DidAdd \/ DidChange \/ BusyOff \/ Merge \/ UNCHANGED vars
  BY <1>0, <1>3 DEF OpenEdit, BackFromEdit, EditHasGone, TimerFires, Find, HandOn, Announce,
                    RunRegister, RunRemove, RunStorage, DidAdd, DidChange, BusyOff, Merge,
                    screenVars, vars, FlagType
<1>. QED
  BY <1>1, <1>2, <1>3, Steps

\* The block at the head of moduleQueue, and of the main queue.
LEMMA HeadFacts ==
    ASSUME IInv
    PROVE  /\ Len(module) \in Nat /\ Len(main) \in Nat /\ main \in Seq(News)
           /\ \A i \in 1 .. Len(module) : module[i] \in Blocks
           /\ \A i \in 1 .. Len(main) : main[i] \in News
           /\ module # <<>> => /\ Op \in Blocks /\ Op = module[1] /\ Tail(module) \in Seq(Blocks)
                               /\ Len(module) > 0 /\ Len(Tail(module)) = Len(module) - 1
                               /\ \A i \in 1 .. Len(module) - 1 : Tail(module)[i] = module[i + 1]
           /\ main # <<>> => /\ Block \in News /\ Block = main[1] /\ Tail(main) \in Seq(News)
                             /\ Len(main) > 0 /\ Len(Tail(main)) = Len(main) - 1
                             /\ \A i \in 1 .. Len(main) - 1 : Tail(main)[i] = main[i + 1]
<1>1. module \in Seq(Blocks) /\ main \in Seq(News)
  BY DEF IInv, Types, QueueType
<1>2. Len(module) \in Nat /\ Len(main) \in Nat
  BY <1>1, LenProperties
<1>3. /\ \A i \in 1 .. Len(module) : module[i] \in Blocks
      /\ \A i \in 1 .. Len(main) : main[i] \in News
  BY <1>1, ElementOfSeq
<1>4. module # <<>> => /\ Op \in Blocks /\ Op = module[1] /\ Tail(module) \in Seq(Blocks)
                       /\ Len(module) > 0 /\ Len(Tail(module)) = Len(module) - 1
                       /\ \A i \in 1 .. Len(module) - 1 : Tail(module)[i] = module[i + 1]
  BY <1>1, TailSeq DEF Op
<1>5. main # <<>> => /\ Block \in News /\ Block = main[1] /\ Tail(main) \in Seq(News)
                     /\ Len(main) > 0 /\ Len(Tail(main)) = Len(main) - 1
                     /\ \A i \in 1 .. Len(main) - 1 : Tail(main)[i] = main[i + 1]
  BY <1>1, TailSeq DEF Block
<1>. QED
  BY <1>1, <1>2, <1>3, <1>4, <1>5

\* What an announcement puts on the main queue: one block for each screen that
\* listens and answers it.
LEMMA Announced ==
    ASSUME IInv, Announce
    PROVE  \E q \in Seq(News) :
              /\ main' = main \o q
              /\ \A i \in 1 .. Len(q) :
                    /\ q[i].kind = Op.of /\ q[i].kind # "merge"
                    /\ \E l \in listens : q[i].visit = l.visit
              /\ (\E l \in listens : Hears(l.name, Op.of)) => Len(q) > 0
<1>. DEFINE L == {x \in listens : Hears(x.name, Op.of)}
            M == {[kind |-> Op.of, visit |-> l.visit] : l \in L}
<1>1. main' = main \o SetToSeq(M)
  BY DEF Announce
<1>2. module # <<>> /\ Op \in Blocks /\ Op.kind = "announce"
  BY HeadFacts DEF Announce
<1>3. Op.of \in Requests
  BY <1>2 DEF Blocks, Requests
<1>4. \A l \in listens : l.visit \in Visits
  BY DEF IInv, Types, QueueType, Visits
<1>5. M \in SUBSET News
  BY <1>3, <1>4 DEF News
<1>6. IsFiniteSet(M)
  <2>1. IsFiniteSet(L)
    BY FS_Subset DEF IInv, Types, QueueType
  <2>. PICK f : f = [l \in L |-> [kind |-> Op.of, visit |-> l.visit]]
    OBVIOUS
  <2>2. f \in Surjection(L, M)
    <3>. HIDE DEF L
    <3>. QED
      BY DEF Surjection
  <2>. HIDE DEF L, M
  <2>. QED
    BY <2>1, <2>2, FS_Surjection
<1>. PICK q : q = SetToSeq(M)
  OBVIOUS
<1>7. /\ q \in Seq(News) /\ \A i \in 1 .. Len(q) : q[i] \in M
      /\ M # {} => Len(q) > 0
  BY <1>5, <1>6, SetToSeqElements
<1>9. (\E l \in listens : Hears(l.name, Op.of)) => M # {}
  OBVIOUS
<1>8. ASSUME NEW i \in 1 .. Len(q)
      PROVE  /\ q[i].kind = Op.of /\ q[i].kind # "merge"
             /\ \E l \in listens : q[i].visit = l.visit
  <2>1. PICK l \in L : q[i] = [kind |-> Op.of, visit |-> l.visit]
    BY <1>7
  <2>2. q[i].kind = Op.of /\ q[i].visit = l.visit /\ l \in listens
    BY <2>1
  <2>3. Op.of # "merge"
    BY <1>3 DEF Requests
  <2>. QED
    BY <2>2, <2>3
<1>. QED
  BY <1>1, <1>7, <1>8, <1>9

\* What the storage puts on the main queue.
LEMMA Stored ==
    ASSUME IInv, RunStorage
    PROVE  /\ rows' \in Seq(Row) /\ Given(rows, rows', Head(storage)) /\ Followed'
           /\ \/ saved' = saved /\ main' = main
              \/ /\ saved' = rows'
                 /\ \E m \in News : m.kind = "merge" /\ m.rows = rows' /\ main' = Append(main, m)
<1>1. rows' \in Seq(Row) /\ Given(rows, rows', Head(storage)) /\ Followed'
  BY FollowedStorage DEF IInv
<1>2. PICK m : m = [kind |-> "merge", rows |-> rows']
  OBVIOUS
<1>3. m \in News /\ m.kind = "merge" /\ m.rows = rows'
  BY <1>1, <1>2 DEF News
<1>4. \/ saved' = saved /\ main' = main
      \/ saved' = rows' /\ main' = Append(main, m)
  BY <1>2 DEF RunStorage
<1>. QED
  BY <1>1, <1>3, <1>4

LEMMA QueueTypeStep ==
    ASSUME IInv, [Next]_vars
    PROVE  QueueType'
<1>0. /\ module \in Seq(Blocks) /\ storage \in Seq(Changes) /\ main \in Seq(News)
      /\ listens \subseteq [name : {"edit", "search"}, visit : 1 .. MaxTouches]
      /\ IsFiniteSet(listens)
      /\ screen.visit \in Visits /\ screen.visit + 1 \in Nat /\ MaxTouches \in Nat
  BY DeviceAssumption DEF IInv, Types, QueueType, ScreenType, Visits
<1>1. CASE UNCHANGED <<module, storage, main, listens>>
  BY <1>0, <1>1 DEF QueueType
<1>2. ASSUME NEW b \in Blocks, module' = Append(module, b), UNCHANGED <<storage, main, listens>>
      PROVE  QueueType'
  BY <1>0, <1>2, AppendSeq DEF QueueType
<1>3. ASSUME NEW m \in News, main' = Append(main, m), UNCHANGED <<storage, module, listens>>
      PROVE  QueueType'
  BY <1>0, <1>3, AppendSeq DEF QueueType
<1>4. ASSUME NEW op \in Blocks, Asks(op) PROVE QueueType'
  BY <1>2, <1>4, AskFacts DEF Asks
<1>5. ASSUME NEW d \in Devices, NEW name \in {"edit", "search"}, Open(name, d),
             Register(name, screen'.visit), UNCHANGED <<storage, main>>
      PROVE  QueueType'
  <2>1. screen'.visit = screen.visit + 1 /\ screen'.visit \in Visits
    <3>1. screen.visit <= touches /\ touches < MaxTouches /\ touches \in Nat
      BY <1>5, DeviceAssumption DEF IInv, Types, ScreenType, Visits, Open, Touch
    <3>. QED
      BY <1>0, <1>5, <3>1 DEF Open, Visits
  <2>2. [kind |-> "register", name |-> name, visit |-> screen'.visit] \in Blocks
    BY <2>1 DEF Blocks
  <2>. QED
    BY <1>2, <1>5, <2>2 DEF Register
<1>6. ASSUME NEW d \in Devices, OpenEdit(d) PROVE QueueType'
  BY <1>5, <1>6 DEF OpenEdit, storeVars
<1>7. CASE OpenSearch
  <2>1. screen.device \in Devices
    BY DEF IInv, Types, ScreenType
  <2>. QED
    BY <1>5, <1>7, <2>1 DEF OpenSearch, storeVars
<1>8. CASE BackFromSearch \/ EditHasGone
  <2>1. [kind |-> "remove", visit |-> screen.visit] \in Blocks
    BY <1>0 DEF Blocks
  <2>. QED
    BY <1>2, <1>8, <2>1 DEF BackFromSearch, EditHasGone, Leave, storeVars
<1>9. CASE TimerFires \/ \E d \in Devices : Find(d)
  <2>1. [kind |-> "busyOff", visit |-> screen.visit] \in News
    BY <1>0 DEF News
  <2>. QED
    BY <1>1, <1>3, <1>9, <2>1 DEF TimerFires, Find, storeVars
<1>10. CASE HandOn
  <2>. PICK ann : ann = [kind |-> "announce", of |-> Op.kind]
    OBVIOUS
  <2>1. module # <<>> /\ Op \in Blocks /\ IsRequest(Op)
    BY <1>10, HeadFacts DEF HandOn
  <2>2. ann \in Blocks
    BY <2>1 DEF IsRequest, Blocks, Requests
  <2>3. module' \in Seq(Blocks)
    BY <1>0, <1>10, HandOnQueue
  <2>4. storage' \in Seq(Changes)
    BY <1>10, HandedChange DEF IInv
  <2>. QED
    BY <1>0, <1>10, <2>3, <2>4 DEF HandOn, QueueType
<1>11. CASE Announce
  <2>1. PICK q \in Seq(News) : main' = main \o q
    BY <1>11, Announced
  <2>2. main' \in Seq(News)
    BY <1>0, <2>1, ConcatSeq
  <2>3. module' \in Seq(Blocks)
    BY <1>11, HeadFacts DEF Announce, ModuleDone
  <2>. QED
    BY <1>0, <1>11, <2>2, <2>3 DEF Announce, storeVars, QueueType
<1>12. CASE RunRegister
  <2>1. module # <<>> /\ Op \in Blocks /\ Op.kind = "register" /\ module' \in Seq(Blocks)
    BY <1>12, HeadFacts DEF RunRegister, ModuleDone
  <2>2. Op = module[1] /\ 1 \in 1 .. Len(module)
    BY <2>1, HeadFacts
  <2>3. Op.name \in {"edit", "search"} /\ Op.visit \in Visits /\ Op.visit > 0
    BY <2>1, <2>2 DEF IInv, Past, PastBlocks, PastBlock, Blocks, Requests
  <2>4. [name |-> Op.name, visit |-> Op.visit] \in
             [name : {"edit", "search"}, visit : 1 .. MaxTouches]
    BY <1>0, <2>3 DEF Visits
  <2>5. listens' = listens \union {[name |-> Op.name, visit |-> Op.visit]}
    BY <1>12 DEF RunRegister
  <2>6. IsFiniteSet(listens')
    BY <1>0, <2>5, FS_AddElement
  <2>. QED
    BY <1>0, <1>12, <2>1, <2>4, <2>5, <2>6 DEF RunRegister, storeVars, QueueType
<1>13. CASE RunRemove
  <2>1. module' \in Seq(Blocks) /\ listens' \subseteq listens
    BY <1>13, HeadFacts DEF RunRemove, ModuleDone
  <2>2. IsFiniteSet(listens')
    BY <1>0, <2>1, FS_Subset
  <2>. QED
    BY <1>0, <1>13, <2>1, <2>2 DEF RunRemove, storeVars, QueueType
<1>14. CASE RunStorage
  <2>1. storage' \in Seq(Changes) /\ UNCHANGED <<module, listens>>
    BY <1>0, <1>14, TailSeq DEF RunStorage
  <2>2. main' \in Seq(News)
    <3>1. CASE main' = main
      BY <1>0, <3>1
    <3>2. ASSUME NEW m \in News, main' = Append(main, m) PROVE main' \in Seq(News)
      BY <1>0, <3>2, AppendSeq
    <3>. QED
      BY <1>14, <3>1, <3>2, Stored
  <2>. QED
    BY <1>0, <2>1, <2>2 DEF QueueType
<1>15. CASE DidAdd \/ DidChange \/ BusyOff \/ Merge
  <2>1. main' \in Seq(News)
    BY <1>15, HeadFacts DEF DidAdd, DidChange, BusyOff, Merge, MainTakes
  <2>2. UNCHANGED <<module, storage, listens>>
    BY <1>15 DEF DidAdd, DidChange, BusyOff, Merge, storeVars
  <2>. QED
    BY <1>0, <2>1, <2>2 DEF QueueType
<1>16. CASE Kill
  BY <1>16, FS_EmptySet DEF Kill, QueueType
<1>17. CASE Refresh \/ BackFromEdit \/ UNCHANGED vars
  BY <1>1, <1>17 DEF Refresh, BackFromEdit, storeVars, vars
<1>. QED
  BY <1>4, <1>6, <1>7, <1>8, <1>9, <1>10, <1>11, <1>12, <1>13, <1>14, <1>15, <1>16, <1>17, Steps

LEMMA RowTypeStep ==
    ASSUME IInv, [Next]_vars
    PROVE  RowType'
<1>0. rows \in Seq(Row) /\ saved \in Seq(Row) /\ shown \in Seq(Row)
  BY DEF IInv, Types, RowType
<1>1. ASSUME NEW op \in Blocks, Asks(op) PROVE RowType'
  BY <1>0, <1>1 DEF Asks, RowType
<1>2. CASE RunStorage
  BY <1>0, <1>2, Stored DEF RunStorage, RowType
<1>3. CASE Merge
  <2>1. Block \in News /\ Block.kind = "merge"
    BY <1>3, HeadFacts DEF Merge, MainTakes
  <2>2. Block.rows \in Seq(Row)
    BY <2>1 DEF News, Requests
  <2>. QED
    BY <1>0, <1>3, <2>2 DEF Merge, storeVars, RowType
<1>4. CASE Kill
  BY <1>0, <1>4 DEF Kill, RowType
<1>5. CASE \/ \E d \in Devices : OpenEdit(d) \/ Find(d)
           \/ OpenSearch \/ Refresh \/ BackFromSearch \/ BackFromEdit \/ EditHasGone
           \/ TimerFires \/ HandOn \/ Announce \/ RunRegister \/ RunRemove
           \/ DidAdd \/ DidChange \/ BusyOff \/ UNCHANGED vars
  BY <1>0, <1>5 DEF OpenEdit, Find, OpenSearch, Refresh, BackFromSearch, BackFromEdit,
                    EditHasGone, TimerFires, HandOn, Announce, RunRegister, RunRemove, DidAdd,
                    DidChange, BusyOff, storeVars, vars, RowType
<1>. QED
  BY <1>1, <1>2, <1>3, <1>4, <1>5, Steps

LEMMA SeenTypeStep ==
    ASSUME IInv, [Next]_vars
    PROVE  SeenType'
<1>0. /\ seen \in [wishes : Seq(AnyWish), known : SUBSET Row, asked : SUBSET Visits,
                   closed : SUBSET Visits, typed : SUBSET Signatures]
      /\ Len(seen.wishes) > 0
      /\ rows \in Seq(Row) /\ saved \in Seq(Row)
  BY DEF IInv, Types, SeenType, RowType
<1>1. CASE seen' = seen
  BY <1>0, <1>1 DEF SeenType
<1>2. ASSUME NEW op \in Blocks, Asks(op) PROVE SeenType'
  BY <1>2, AskFacts
<1>3. CASE OpenSearch
  <2>1. Range(rows) \in SUBSET Row
    BY <1>0, RowFacts
  <2>2. seen' = [seen EXCEPT !.known = IF AllDone THEN Range(rows) ELSE {}]
    BY <1>3 DEF OpenSearch
  <2>. QED
    BY <1>0, <2>1, <2>2 DEF SeenType
<1>4. CASE BackFromSearch
  BY <1>0, <1>4 DEF BackFromSearch, SeenType
<1>5. CASE DidChange
  <2>1. main # <<>> /\ Block.kind \in {"delete", "edit"}
    BY <1>5 DEF DidChange, MainTakes
  <2>2. Block.visit \in Visits
    BY <2>1, HeadFacts DEF News, Requests
  <2>3. seen' = seen \/ seen' = [seen EXCEPT !.closed = @ \union {Block.visit}]
    BY <1>5 DEF DidChange
  <2>. QED
    BY <1>0, <2>2, <2>3 DEF SeenType
<1>6. CASE Kill
  <2>1. RowsAsWish(saved) \in AnyWish
    <3>1. EachOnce(saved)
      BY DEF IInv, Followed, Follows
    <3>. QED
      BY <1>0, <3>1, RowsAsWishFacts
  <2>2. <<RowsAsWish(saved)>> \in Seq(AnyWish) /\ Len(<<RowsAsWish(saved)>>) = 1
    BY <2>1
  <2>3. seen' = [seen EXCEPT !.wishes = <<RowsAsWish(saved)>>, !.typed = {}, !.known = {}]
    BY <1>6 DEF Kill
  <2>. PICK w : w = <<RowsAsWish(saved)>>
    OBVIOUS
  <2>4. seen' = [seen EXCEPT !.wishes = w, !.typed = {}, !.known = {}]
    BY <2>3
  <2>5. /\ seen' = [wishes |-> w, known |-> {}, asked |-> seen.asked,
                    closed |-> seen.closed, typed |-> {}]
        /\ w \in Seq(AnyWish) /\ Len(w) = 1
    BY <1>0, <2>2, <2>4
  <2>6. seen'.wishes = w
    BY <2>5
  <2>7. seen' \in [wishes : Seq(AnyWish), known : SUBSET Row, asked : SUBSET Visits,
                   closed : SUBSET Visits, typed : SUBSET Signatures]
    BY <1>0, <2>5
  <2>. QED
    BY <2>5, <2>6, <2>7 DEF SeenType
<1>7. CASE \/ \E d \in Devices : OpenEdit(d) \/ Find(d)
           \/ Refresh \/ BackFromEdit \/ EditHasGone \/ TimerFires
           \/ HandOn \/ Announce \/ RunRegister \/ RunRemove \/ RunStorage
           \/ DidAdd \/ BusyOff \/ Merge \/ UNCHANGED vars
  BY <1>1, <1>7 DEF OpenEdit, Find, Refresh, BackFromEdit, EditHasGone, TimerFires, HandOn,
                    Announce, RunRegister, RunRemove, RunStorage, DidAdd, BusyOff, Merge, vars
<1>. QED
  BY <1>2, <1>3, <1>4, <1>5, <1>6, <1>7, Steps

LEMMA TypesStep ==
    ASSUME IInv, [Next]_vars
    PROVE  Types'
BY ScreenTypeStep, FoundTypeStep, FlagTypeStep, QueueTypeStep, RowTypeStep, SeenTypeStep
   DEF Types

-----------------------------------------------------------------------------
(* What is on its way belongs to the screens.                              *)

\* A block stays in the past while no screen opens, and when one does.
LEMMA PastStays ==
    ASSUME IInv, NEW b \in Blocks, PastBlock(b),
           \/ screen'.visit = screen.visit /\ screen'.device = screen.device
           \/ screen'.visit = screen.visit + 1
    PROVE  PastBlock(b)'
<1>1. screen.visit \in Nat
  BY DeviceAssumption DEF IInv, Types, ScreenType, Visits
<1>2. b.kind \in Requests \union {"register"} => b.visit \in Nat
  BY DeviceAssumption DEF Blocks, Visits, Requests
<1>. QED
  BY <1>1, <1>2 DEF PastBlock, Requests

LEMMA PastBlocksStep ==
    ASSUME IInv, [Next]_vars
    PROVE  PastBlocks'
<1>. DEFINE SameScreen == screen'.visit = screen.visit /\ screen'.device = screen.device
            NewScreen == screen'.visit = screen.visit + 1
<1>0. /\ Len(module) \in Nat /\ module \in Seq(Blocks)
      /\ \A i \in 1 .. Len(module) : module[i] \in Blocks /\ PastBlock(module[i])
  BY HeadFacts DEF IInv, Types, QueueType, Past, PastBlocks
<1>1. ASSUME NEW i \in 1 .. Len(module), SameScreen \/ NewScreen,
             NEW j, module'[j] = module[i]
      PROVE  PastBlock(module[j])'
  <2>. PICK b \in Blocks : b = module[i] /\ b = module'[j] /\ PastBlock(b)
    BY <1>0, <1>1
  <2>1. PastBlock(b)'
    BY <1>1, PastStays
  <2>. QED
    BY <2>1
<1>2. CASE module' = module /\ SameScreen
  BY <1>1, <1>2 DEF PastBlocks
<1>3. CASE module # <<>> /\ module' = Tail(module) /\ SameScreen
  <2>. SUFFICES ASSUME NEW j \in 1 .. Len(module) - 1
                PROVE  PastBlock(module[j])'
    BY <1>3, HeadFacts DEF PastBlocks
  <2>1. j + 1 \in 1 .. Len(module) /\ module'[j] = module[j + 1]
    BY <1>0, <1>3, HeadFacts
  <2>. QED
    BY <1>1, <1>3, <2>1
<1>4. ASSUME NEW b \in Blocks, module' = Append(module, b), PastBlock(b)', SameScreen \/ NewScreen
      PROVE  PastBlocks'
  <2>1. /\ Len(module') = Len(module) + 1 /\ module'[Len(module) + 1] = b
        /\ \A i \in 1 .. Len(module) : module'[i] = module[i]
    BY <1>0, <1>4, AppendSeq
  <2>. SUFFICES ASSUME NEW j \in 1 .. Len(module) + 1
                PROVE  PastBlock(module[j])'
    BY <2>1 DEF PastBlocks
  <2>2. CASE j \in 1 .. Len(module)
    BY <1>1, <1>4, <2>1, <2>2
  <2>3. CASE j = Len(module) + 1
    BY <1>4, <2>1, <2>3
  <2>. QED
    BY <1>0, <2>2, <2>3
<1>5. ASSUME NEW op \in Blocks, Asks(op) PROVE PastBlocks'
  <2>1. module' = Append(module, op) /\ SameScreen
    BY <1>5, AskFacts DEF Asks
  <2>2. PastBlock(op)'
    BY <1>5 DEF Asks, PastBlock, IsRequest
  <2>. QED
    BY <1>4, <2>1, <2>2
<1>6. ASSUME NEW d, NEW name, Open(name, d), Register(name, screen'.visit), name \in {"edit", "search"}
      PROVE  PastBlocks'
  <2>1. NewScreen /\ screen.visit \in Nat /\ screen'.visit \in Visits
    <3>1. /\ screen.visit <= touches /\ touches < MaxTouches /\ touches \in Nat
          /\ screen.visit \in Nat /\ MaxTouches \in Nat
      BY <1>6, DeviceAssumption DEF IInv, Types, ScreenType, Visits, Open, Touch
    <3>. QED
      BY <1>6, <3>1 DEF Open, Visits
  <2>. PICK b : b = [kind |-> "register", name |-> name, visit |-> screen'.visit]
    OBVIOUS
  <2>2. b \in Blocks
    BY <1>6, <2>1 DEF Blocks
  <2>3. PastBlock(b)'
    BY <2>1 DEF PastBlock
  <2>. QED
    BY <1>4, <1>6, <2>1, <2>2, <2>3 DEF Register
<1>7. ASSUME NEW d \in Devices, OpenEdit(d) PROVE PastBlocks'
  BY <1>6, <1>7 DEF OpenEdit
<1>8. CASE OpenSearch
  BY <1>6, <1>8 DEF OpenSearch
<1>9. CASE BackFromSearch \/ EditHasGone
  <2>1. SameScreen
    BY <1>9 DEF BackFromSearch, EditHasGone, Leave, IInv, Types, ScreenType
  <2>. PICK b : b = [kind |-> "remove", visit |-> screen.visit]
    OBVIOUS
  <2>2. b \in Blocks
    BY DEF Blocks, IInv, Types, ScreenType
  <2>3. PastBlock(b)'
    BY DEF PastBlock, Requests
  <2>. QED
    BY <1>4, <1>9, <2>1, <2>2, <2>3 DEF BackFromSearch, EditHasGone, Leave
<1>10. CASE HandOn
  <2>. PICK ann : ann = [kind |-> "announce", of |-> Op.kind]
    OBVIOUS
  <2>1. module # <<>> /\ Op \in Blocks /\ IsRequest(Op) /\ SameScreen
    BY <1>10, HeadFacts DEF HandOn
  <2>2. ann \in Blocks /\ PastBlock(ann)'
    BY <2>1 DEF IsRequest, Blocks, Requests, PastBlock
  <2>3. /\ Len(module') = Len(module) /\ module'[1] = ann
        /\ \A i \in 2 .. Len(module) : module'[i] = module[i]
    BY <1>0, <1>10, HandOnQueue
  <2>. SUFFICES ASSUME NEW j \in 1 .. Len(module)
                PROVE  PastBlock(module[j])'
    BY <2>3 DEF PastBlocks
  <2>4. CASE j = 1
    BY <2>2, <2>3, <2>4
  <2>5. CASE j # 1
    <3>1. module'[j] = module[j]
      BY <1>0, <2>3, <2>5
    <3>. QED
      BY <1>1, <2>1, <3>1
  <2>. QED
    BY <2>4, <2>5
<1>11. CASE Announce \/ RunRegister
  BY <1>3, <1>11 DEF Announce, RunRegister, ModuleDone
<1>12. CASE RunRemove
  <2>1. module # <<>> /\ module[1].kind = "remove" /\ Len(module) > 0 /\ Len(module') = Len(module) - 1
    BY <1>12, HeadFacts DEF RunRemove, ModuleDone
  <2>2. Len(module) = 1
    BY <1>0, <2>1 DEF IInv, Leaving
  <2>. QED
    BY <2>1, <2>2 DEF PastBlocks
<1>13. CASE Kill
  BY <1>13 DEF Kill, PastBlocks
<1>14. CASE BackFromEdit \/ DidChange
  <2>1. module' = module /\ SameScreen
    BY <1>14 DEF BackFromEdit, DidChange, SlideAway, IInv, Types, ScreenType
  <2>. QED
    BY <1>2, <2>1
<1>15. CASE \/ \E d \in Devices : Find(d)
            \/ Refresh \/ TimerFires \/ RunStorage \/ DidAdd \/ BusyOff \/ Merge \/ UNCHANGED vars
  BY <1>2, <1>15 DEF Find, Refresh, TimerFires, RunStorage, DidAdd, BusyOff, Merge, vars
<1>. QED
  BY <1>5, <1>7, <1>8, <1>9, <1>10, <1>11, <1>12, <1>13, <1>14, <1>15, Steps

LEMMA PastScreensStep ==
    ASSUME IInv, [Next]_vars
    PROVE  PastScreens'
<1>0. /\ screen.visit \in Nat /\ \A l \in listens : l.visit \in Nat /\ l.visit <= screen.visit
      /\ screen \in [name : {"list", "edit", "closing", "search", "leaving"},
                     visit : Visits, device : Devices]
  BY DeviceAssumption DEF IInv, Types, QueueType, ScreenType, Visits, Past, PastScreens
<1>1. CASE listens' \subseteq listens /\ screen'.visit \in {screen.visit, screen.visit + 1}
  BY <1>0, <1>1 DEF PastScreens
<1>2. ASSUME NEW op \in Blocks, Asks(op) PROVE PastScreens'
  BY <1>1, <1>2 DEF Asks
<1>3. CASE OpenSearch \/ \E d \in Devices : OpenEdit(d)
  BY <1>1, <1>3 DEF OpenSearch, OpenEdit, Open, Register
<1>4. CASE RunRegister
  <2>1. module # <<>> /\ Op = module[1] /\ Op.kind = "register" /\ 1 \in 1 .. Len(module)
    BY <1>4, HeadFacts DEF RunRegister
  <2>2. Op.visit <= screen.visit
    BY <2>1 DEF IInv, Past, PastBlocks, PastBlock
  <2>. QED
    BY <1>0, <1>4, <2>2 DEF RunRegister, PastScreens
<1>5. CASE RunRemove \/ Kill
  BY <1>1, <1>5, ListType DEF RunRemove, Kill
<1>6. CASE BackFromSearch \/ BackFromEdit \/ EditHasGone \/ DidChange
  <2>1. listens' = listens /\ screen'.visit = screen.visit
    BY <1>0, <1>6 DEF BackFromSearch, BackFromEdit, EditHasGone, DidChange, Leave, SlideAway
  <2>. QED
    BY <1>1, <2>1
<1>7. CASE \/ \E d \in Devices : Find(d)
           \/ Refresh \/ TimerFires \/ HandOn \/ Announce \/ RunStorage
           \/ DidAdd \/ BusyOff \/ Merge \/ UNCHANGED vars
  BY <1>1, <1>7 DEF Find, Refresh, TimerFires, HandOn, Announce, RunStorage, DidAdd, BusyOff,
                    Merge, vars
<1>. QED
  BY <1>2, <1>3, <1>4, <1>5, <1>6, <1>7, Steps

\* What the main queue does to a property of the blocks waiting on it.
LEMMA PastNewsStep ==
    ASSUME IInv, [Next]_vars
    PROVE  PastNews'
<1>. DEFINE Old(m) == m.kind # "merge" => m.visit <= screen'.visit
<1>0. /\ screen.visit \in Nat /\ main \in Seq(News) /\ Len(main) \in Nat
      /\ screen \in [name : {"list", "edit", "closing", "search", "leaving"},
                     visit : Visits, device : Devices]
  BY DeviceAssumption, HeadFacts DEF IInv, Types, ScreenType, Visits
<1>1. ASSUME screen'.visit \in {screen.visit, screen.visit + 1}, NEW i \in 1 .. Len(main)
      PROVE  Old(main[i])
  <2>1. main[i].kind # "merge" => main[i].visit \in Nat
    BY HeadFacts, DeviceAssumption DEF News, Visits
  <2>2. main[i].kind # "merge" => main[i].visit <= screen.visit
    BY DEF IInv, Past, PastNews
  <2>. QED
    BY <1>0, <1>1, <2>1, <2>2
<1>2. CASE main' = main /\ screen'.visit \in {screen.visit, screen.visit + 1}
  BY <1>1, <1>2 DEF PastNews
<1>3. CASE main # <<>> /\ main' = Tail(main) /\ screen'.visit = screen.visit
  <2>. SUFFICES ASSUME NEW i \in 1 .. Len(main) - 1
                PROVE  Old(main'[i])
    BY <1>3, HeadFacts DEF PastNews
  <2>1. i + 1 \in 1 .. Len(main) /\ main'[i] = main[i + 1]
    BY <1>0, <1>3, HeadFacts
  <2>. QED
    BY <1>1, <1>3, <2>1
<1>4. ASSUME NEW m \in News, main' = Append(main, m), Old(m), screen'.visit = screen.visit
      PROVE  PastNews'
  <2>1. /\ Len(main') = Len(main) + 1 /\ main'[Len(main) + 1] = m
        /\ \A i \in 1 .. Len(main) : main'[i] = main[i]
    BY <1>0, <1>4, AppendSeq
  <2>. SUFFICES ASSUME NEW i \in 1 .. Len(main) + 1
                PROVE  Old(main'[i])
    BY <2>1 DEF PastNews
  <2>2. CASE i \in 1 .. Len(main)
    BY <1>1, <1>4, <2>1, <2>2
  <2>3. CASE i = Len(main) + 1
    BY <1>4, <2>1, <2>3
  <2>. QED
    BY <1>0, <2>2, <2>3
<1>5. ASSUME NEW op \in Blocks, Asks(op) PROVE PastNews'
  BY <1>2, <1>5 DEF Asks
<1>6. CASE OpenSearch \/ \E d \in Devices : OpenEdit(d)
  BY <1>2, <1>6 DEF OpenSearch, OpenEdit, Open
<1>7. CASE TimerFires \/ \E d \in Devices : Find(d)
  <2>. PICK m : m = [kind |-> "busyOff", visit |-> screen.visit]
    OBVIOUS
  <2>1. m \in News /\ m.visit = screen.visit /\ screen' = screen
    BY <1>0, <1>7 DEF News, TimerFires, Find
  <2>2. Old(m)
    BY <1>0, <2>1
  <2>3. main' = Append(main, m) \/ main' = main
    BY <1>7 DEF TimerFires, Find
  <2>. QED
    BY <1>2, <1>4, <2>1, <2>2, <2>3
<1>8. CASE RunStorage
  <2>1. screen' = screen
    BY <1>8 DEF RunStorage
  <2>. QED
    BY <1>2, <1>4, <1>8, <2>1, Stored
<1>9. CASE Announce
  <2>1. screen' = screen
    BY <1>9 DEF Announce
  <2>2. PICK q \in Seq(News) :
           /\ main' = main \o q
           /\ \A i \in 1 .. Len(q) : \E l \in listens : q[i].visit = l.visit
    BY <1>9, Announced
  <2>3. Len(q) \in Nat /\ Len(main') = Len(main) + Len(q)
    BY <1>0, <2>2, ConcatSeq
  <2>4. \A i \in 1 .. Len(main) : main'[i] = main[i]
    BY <1>0, <2>2, ConcatSeq
  <2>5. \A i \in 1 .. Len(q) : main'[Len(main) + i] = q[i]
    BY <1>0, <2>2, ConcatSeq
  <2>. SUFFICES ASSUME NEW i \in 1 .. Len(main) + Len(q)
                PROVE  Old(main'[i])
    BY <2>3 DEF PastNews
  <2>6. CASE i \in 1 .. Len(main)
    BY <1>1, <2>1, <2>4, <2>6
  <2>7. CASE i \notin 1 .. Len(main)
    <3>1. PICK j \in 1 .. Len(q) : i = Len(main) + j
      <4>1. i - Len(main) \in 1 .. Len(q) /\ i = Len(main) + (i - Len(main))
        BY <1>0, <2>3, <2>7
      <4>. QED
        BY <4>1
    <3>2. PICK l \in listens : main'[i].visit = l.visit
      BY <2>2, <2>5, <3>1
    <3>3. l.visit <= screen.visit
      BY DEF IInv, Past, PastScreens
    <3>. QED
      BY <2>1, <3>2, <3>3
  <2>. QED
    BY <2>6, <2>7
<1>10. CASE DidAdd \/ BusyOff \/ Merge
  BY <1>3, <1>10 DEF DidAdd, BusyOff, Merge, MainTakes
<1>11. CASE DidChange
  <2>1. screen'.visit = screen.visit
    BY <1>0, <1>11 DEF DidChange, SlideAway
  <2>. QED
    BY <1>3, <1>11, <2>1 DEF DidChange, MainTakes
<1>12. CASE BackFromSearch \/ BackFromEdit \/ EditHasGone
  <2>1. main' = main /\ screen'.visit = screen.visit
    BY <1>0, <1>12 DEF BackFromSearch, BackFromEdit, EditHasGone, Leave, SlideAway
  <2>. QED
    BY <1>2, <2>1
<1>13. CASE RunRemove
  BY <1>2, <1>13, ListType DEF RunRemove
<1>14. CASE Kill
  BY <1>14 DEF Kill, PastNews
<1>15. CASE Refresh \/ HandOn \/ RunRegister \/ UNCHANGED vars
  BY <1>2, <1>15 DEF Refresh, HandOn, RunRegister, vars
<1>. QED
  BY <1>5, <1>6, <1>7, <1>8, <1>9, <1>10, <1>11, <1>12, <1>13, <1>14, <1>15, Steps

LEMMA PastStep ==
    ASSUME IInv, [Next]_vars
    PROVE  Past'
BY PastBlocksStep, PastScreensStep, PastNewsStep DEF Past

-----------------------------------------------------------------------------
(* The main thread waits for moduleQueue to take its screen off.           *)

LEMMA LeavingStep ==
    ASSUME IInv, [Next]_vars
    PROVE  Leaving'
<1>0. /\ Len(module) \in Nat /\ module \in Seq(Blocks)
      /\ \A i \in 1 .. Len(module) :
            module[i].kind = "remove" => i = Len(module) /\ screen.name = "leaving"
      /\ screen.name = "leaving" => Len(module) > 0 /\ module[Len(module)].kind = "remove"
      /\ screen \in [name : {"list", "edit", "closing", "search", "leaving"},
                     visit : Visits, device : Devices]
  BY HeadFacts DEF IInv, Types, QueueType, ScreenType, Leaving
<1>1. CASE module' = module /\ (screen'.name = "leaving" <=> screen.name = "leaving")
  BY <1>0, <1>1 DEF Leaving
<1>2. ASSUME NEW b \in Blocks, module' = Append(module, b), screen.name # "leaving",
             b.kind = "remove" <=> screen'.name = "leaving"
      PROVE  Leaving'
  <2>1. /\ Len(module') = Len(module) + 1 /\ module'[Len(module) + 1] = b
        /\ \A i \in 1 .. Len(module) : module'[i] = module[i]
    BY <1>0, <1>2, AppendSeq
  <2>2. ASSUME NEW i \in 1 .. Len(module) + 1, module'[i].kind = "remove"
        PROVE  i = Len(module) + 1 /\ screen'.name = "leaving"
    <3>1. i \notin 1 .. Len(module)
      BY <1>0, <1>2, <2>1, <2>2
    <3>2. i = Len(module) + 1
      BY <1>0, <3>1
    <3>. QED
      BY <1>2, <2>1, <2>2, <3>2
  <2>3. Len(module) + 1 > 0
    BY <1>0
  <2>. QED
    BY <1>2, <2>1, <2>2, <2>3 DEF Leaving
<1>3. CASE module # <<>> /\ Op.kind # "remove" /\ module' = Tail(module) /\ screen' = screen
  <2>1. /\ Len(module) > 0 /\ Op = module[1] /\ Len(module') = Len(module) - 1
        /\ \A i \in 1 .. Len(module) - 1 : module'[i] = module[i + 1]
    BY <1>3, HeadFacts
  <2>2. ASSUME NEW i \in 1 .. Len(module) - 1, module'[i].kind = "remove"
        PROVE  i = Len(module) - 1 /\ screen.name = "leaving"
    <3>1. i + 1 \in 1 .. Len(module) /\ module[i + 1].kind = "remove"
      BY <1>0, <2>1, <2>2
    <3>. QED
      BY <1>0, <3>1
  <2>3. ASSUME screen.name = "leaving"
        PROVE  Len(module') > 0 /\ module'[Len(module')].kind = "remove"
    <3>1. Len(module) # 1 /\ module[Len(module)].kind = "remove"
      BY <1>0, <1>3, <2>1, <2>3
    <3>2. Len(module) - 1 \in 1 .. Len(module) - 1 /\ Len(module) - 1 + 1 = Len(module)
      BY <1>0, <2>1, <3>1
    <3>. QED
      BY <2>1, <3>1, <3>2
  <2>. QED
    BY <1>3, <2>1, <2>2, <2>3 DEF Leaving
<1>4. ASSUME NEW op \in Blocks, Asks(op) PROVE Leaving'
  <2>1. /\ module' = Append(module, op) /\ screen.name # "leaving" /\ op.kind # "remove"
        /\ screen' = screen
    BY <1>4, AskFacts DEF Asks, IsRequest
  <2>. QED
    BY <1>2, <2>1
<1>5. ASSUME NEW d, NEW name \in {"edit", "search"}, Open(name, d), Register(name, screen'.visit)
      PROVE  Leaving'
  <2>. PICK b : b = [kind |-> "register", name |-> name, visit |-> screen'.visit]
    OBVIOUS
  <2>1. screen'.visit \in Visits
    <3>1. /\ screen.visit <= touches /\ touches < MaxTouches /\ touches \in Nat
          /\ screen.visit \in Nat /\ MaxTouches \in Nat
      BY <1>5, DeviceAssumption DEF IInv, Types, ScreenType, Visits, Open, Touch
    <3>. QED
      BY <1>5, <3>1 DEF Open, Visits
  <2>2. b \in Blocks
    BY <2>1 DEF Blocks
  <2>3. screen.name # "leaving" /\ screen'.name # "leaving" /\ b.kind # "remove"
    BY <1>5 DEF Open
  <2>. QED
    BY <1>2, <1>5, <2>2, <2>3 DEF Register
<1>6. CASE OpenSearch \/ \E d \in Devices : OpenEdit(d)
  BY <1>5, <1>6 DEF OpenSearch, OpenEdit
<1>7. CASE BackFromSearch \/ EditHasGone
  <2>. PICK b : b = [kind |-> "remove", visit |-> screen.visit]
    OBVIOUS
  <2>1. b \in Blocks /\ b.kind = "remove"
    BY <1>0 DEF Blocks
  <2>2. screen.name # "leaving" /\ screen'.name = "leaving"
    BY <1>0, <1>7 DEF BackFromSearch, EditHasGone, Leave
  <2>. QED
    BY <1>2, <1>7, <2>1, <2>2 DEF BackFromSearch, EditHasGone, Leave
<1>8. CASE BackFromEdit \/ DidChange
  <2>1. module' = module /\ (screen'.name = "leaving" <=> screen.name = "leaving")
    BY <1>0, <1>8 DEF BackFromEdit, DidChange, SlideAway
  <2>. QED
    BY <1>1, <2>1
<1>9. CASE HandOn
  <2>. PICK ann : ann = [kind |-> "announce", of |-> Op.kind]
    OBVIOUS
  <2>1. /\ module # <<>> /\ Op \in Blocks /\ IsRequest(Op) /\ screen' = screen
        /\ Op = module[1] /\ Len(module) > 0
    BY <1>9, HeadFacts DEF HandOn
  <2>2. ann \in Blocks /\ ann.kind # "remove" /\ module[1].kind # "remove"
    BY <2>1 DEF IsRequest, Blocks, Requests
  <2>3. /\ Len(module') = Len(module) /\ module'[1] = ann
        /\ \A i \in 2 .. Len(module) : module'[i] = module[i]
    BY <1>0, <1>9, HandOnQueue
  <2>4. ASSUME NEW i \in 1 .. Len(module)
        PROVE  module'[i].kind = "remove" <=> module[i].kind = "remove"
    <3>1. CASE i = 1
      BY <2>2, <2>3, <3>1
    <3>2. CASE i # 1
      BY <1>0, <2>3, <3>2
    <3>. QED
      BY <3>1, <3>2
  <2>5. Len(module) \in 1 .. Len(module)
    BY <1>0, <2>1
  <2>. QED
    BY <1>0, <2>1, <2>3, <2>4, <2>5 DEF Leaving
<1>10. CASE Announce \/ RunRegister
  BY <1>3, <1>10 DEF Announce, RunRegister, ModuleDone
<1>11. CASE RunRemove
  <2>1. module # <<>> /\ module[1].kind = "remove" /\ Len(module) > 0 /\ Len(module') = Len(module) - 1
    BY <1>11, HeadFacts DEF RunRemove, ModuleDone
  <2>2. Len(module) = 1
    BY <1>0, <2>1
  <2>3. screen'.name = "list"
    BY <1>11, ListType DEF RunRemove
  <2>. QED
    BY <2>1, <2>2, <2>3 DEF Leaving
<1>12. CASE Kill
  BY <1>12, ListType DEF Kill, Leaving
<1>13. CASE \/ \E d \in Devices : Find(d)
            \/ Refresh \/ TimerFires \/ RunStorage \/ DidAdd \/ BusyOff \/ Merge \/ UNCHANGED vars
  BY <1>1, <1>13 DEF Find, Refresh, TimerFires, RunStorage, DidAdd, BusyOff, Merge, vars
<1>. QED
  BY <1>4, <1>6, <1>7, <1>8, <1>9, <1>10, <1>11, <1>12, <1>13, Steps

-----------------------------------------------------------------------------
(* What was asked before an edit screen opened does not close it.          *)

LEMMA ClosingStep ==
    ASSUME IInv, [Next]_vars
    PROVE  Closing'
<1>0. /\ Len(module) \in Nat /\ module \in Seq(Blocks)
      /\ Len(main) \in Nat /\ main \in Seq(News)
      /\ screen \in [name : {"list", "edit", "closing", "search", "leaving"},
                     visit : Visits, device : Devices]
      /\ screen.visit \in Nat
      /\ seen \in [wishes : Seq(AnyWish), known : SUBSET Row, asked : SUBSET Visits,
                   closed : SUBSET Visits, typed : SUBSET Signatures]
  <2>1. module \in Seq(Blocks) /\ main \in Seq(News) /\ Len(module) \in Nat /\ Len(main) \in Nat
    BY HeadFacts DEF IInv, Types, QueueType
  <2>2. screen \in [name : {"list", "edit", "closing", "search", "leaving"},
                    visit : Visits, device : Devices]
    BY DEF IInv, Types, ScreenType
  <2>3. screen.visit \in Nat
    BY <2>2, DeviceAssumption DEF Visits
  <2>4. SeenType
    BY DEF IInv, Types
  <2>. QED
    BY <2>1, <2>2, <2>3, <2>4 DEF SeenType
<1>1. Fresh => NoNews(screen.visit) /\ Deaf(screen.visit) /\ Behind(screen.visit)
  BY DEF IInv, Closing
<1>2. CASE ~Fresh'
  BY <1>2 DEF Closing
<1>. PICK v \in Nat : v = screen.visit
  BY <1>0
<1>3. ASSUME screen' = screen, Fresh' => Fresh,
             Fresh => NoNews(v)' /\ Deaf(v)' /\ Behind(v)'
      PROVE  Closing'
  BY <1>3 DEF Closing
<1>4. CASE UNCHANGED <<screen, seen, main, listens, module>>
  <2>1. Fresh' => Fresh
    BY <1>4 DEF Fresh
  <2>2. Fresh => NoNews(v)' /\ Deaf(v)' /\ Behind(v)'
    BY <1>1, <1>4 DEF NoNews, Deaf, Behind
  <2>. QED
    BY <1>3, <1>4, <2>1, <2>2
<1>5. ASSUME NEW op \in Blocks, Asks(op) PROVE Closing'
  <2>1. ~Fresh'
    BY <1>5, AskFacts DEF Asks, Fresh
  <2>. QED
    BY <1>2, <2>1
<1>6. CASE \/ OpenSearch \/ BackFromSearch \/ BackFromEdit \/ EditHasGone \/ RunRemove \/ Kill
           \/ Refresh \/ TimerFires \/ \E d \in Devices : Find(d)
  <2>1. screen'.name # "edit"
    <3>1. CASE BackFromSearch \/ BackFromEdit \/ EditHasGone
      BY <1>0, <3>1 DEF BackFromSearch, BackFromEdit, EditHasGone, Leave, SlideAway
    <3>2. CASE RunRemove \/ Kill
      BY <3>2, ListType DEF RunRemove, Kill
    <3>3. CASE OpenSearch
      BY <3>3 DEF OpenSearch, Open
    <3>4. CASE Refresh \/ TimerFires \/ \E d \in Devices : Find(d)
      BY <3>4 DEF Refresh, TimerFires, Find
    <3>. QED
      BY <1>6, <3>1, <3>2, <3>3, <3>4
  <2>. QED
    BY <1>2, <2>1 DEF Fresh
<1>7. ASSUME NEW d \in Devices, OpenEdit(d) PROVE Closing'
  <2>1. /\ screen'.visit = screen.visit + 1 /\ screen'.visit \in Visits
        /\ main' = main /\ listens' = listens
    <3>1. /\ screen.visit <= touches /\ touches < MaxTouches /\ touches \in Nat /\ MaxTouches \in Nat
      BY <1>7, DeviceAssumption DEF IInv, Types, ScreenType, Visits, OpenEdit, Open, Touch
    <3>. QED
      BY <1>0, <1>7, <3>1 DEF OpenEdit, Open, Register, Visits
  <2>. PICK x \in Nat : x = screen'.visit /\ x = screen.visit + 1
    BY <1>0, <2>1
  <2>. PICK b : b = [kind |-> "register", name |-> "edit", visit |-> x]
    OBVIOUS
  <2>2. b \in Blocks /\ module' = Append(module, b)
    BY <1>7, <2>1 DEF Blocks, OpenEdit, Register
  <2>3. /\ Len(module') = Len(module) + 1
        /\ \A i \in 1 .. Len(module) : module'[i] = module[i]
    BY <1>0, <2>2, AppendSeq
  <2>4. NoNews(x)'
    <3>. SUFFICES ASSUME NEW i \in 1 .. Len(main), main[i].kind \in {"delete", "edit"}
                  PROVE  main[i].visit # x
      BY <2>1 DEF NoNews
    <3>1. main[i] \in News /\ main[i].visit <= screen.visit
      BY HeadFacts DEF IInv, Past, PastNews
    <3>2. main[i].visit \in Nat
      BY <3>1, DeviceAssumption DEF News, Visits
    <3>. QED
      BY <1>0, <3>1, <3>2
  <2>5. Deaf(x)'
    <3>1. \A l \in listens : l.visit <= screen.visit /\ l.visit \in Nat
      BY DeviceAssumption DEF IInv, Past, PastScreens, Types, QueueType
    <3>2. \A l \in listens : l.visit # x
      BY <1>0, <3>1
    <3>. QED
      BY <2>1, <3>2 DEF Deaf
  <2>6. Behind(x)'
    <3>. SUFFICES ASSUME NEW i \in 1 .. Len(module) + 1, module'[i].kind = "register",
                         module'[i].visit = x, NEW j \in i + 1 .. Len(module) + 1
                  PROVE  FALSE
      BY <2>3 DEF Behind
    <3>1. i \in 1 .. Len(module) /\ module'[i] = module[i]
      BY <1>0, <2>3
    <3>2. module[i] \in Blocks /\ module[i].visit <= screen.visit
      BY <3>1, HeadFacts DEF IInv, Past, PastBlocks, PastBlock
    <3>. QED
      BY <1>0, <3>1, <3>2
  <2>. QED
    BY <2>4, <2>5, <2>6 DEF Closing
<1>8. CASE HandOn
  <2>. PICK ann : ann = [kind |-> "announce", of |-> Op.kind]
    OBVIOUS
  <2>1. /\ module # <<>> /\ Op \in Blocks /\ IsRequest(Op) /\ UNCHANGED <<screen, main, listens, seen>>
        /\ Op = module[1] /\ Len(module) > 0
    BY <1>8, HeadFacts DEF HandOn
  <2>2. ann \in Blocks /\ ann.kind # "register" /\ (Closes(ann) <=> Closes(Op))
    BY <2>1 DEF IsRequest, Blocks, Requests, Closes
  <2>3. /\ Len(module') = Len(module) /\ module'[1] = ann
        /\ \A i \in 2 .. Len(module) : module'[i] = module[i]
    BY <1>0, <1>8, HandOnQueue
  <2>4. ASSUME NEW i \in 1 .. Len(module)
        PROVE  /\ Closes(module'[i]) <=> Closes(module[i])
               /\ module'[i].kind = "register" => module'[i] = module[i]
    <3>1. CASE i = 1
      BY <2>1, <2>2, <2>3, <3>1
    <3>2. CASE i # 1
      BY <1>0, <2>3, <3>2
    <3>. QED
      BY <3>1, <3>2
  <2>5. Fresh => Deaf(v)'
    BY <1>1, <2>1, <2>3, <2>4 DEF Deaf
  <2>6. Fresh => Behind(v)'
    <3>. SUFFICES ASSUME Fresh, NEW i \in 1 .. Len(module), module'[i].kind = "register",
                         module'[i].visit = v, NEW j \in i + 1 .. Len(module)
                  PROVE  ~Closes(module'[j])
      BY <2>3 DEF Behind
    <3>1. j \in 1 .. Len(module)
      BY <1>0
    <3>. QED
      BY <1>1, <2>4, <3>1 DEF Behind
  <2>7. (Fresh => NoNews(v)') /\ (Fresh' => Fresh)
    BY <1>1, <2>1 DEF NoNews, Fresh
  <2>. QED
    BY <1>3, <2>1, <2>5, <2>6, <2>7
<1>9. ASSUME module # <<>>, module' = Tail(module)
      PROVE  /\ Fresh => Behind(v)'
             /\ \A i \in 1 .. Len(module') : i + 1 \in 1 .. Len(module) /\ module'[i] = module[i + 1]
  <2>1. /\ Len(module') = Len(module) - 1
        /\ \A i \in 1 .. Len(module) - 1 : module'[i] = module[i + 1]
    BY <1>9, HeadFacts
  <2>2. ASSUME NEW i \in 1 .. Len(module')
        PROVE  i + 1 \in 1 .. Len(module) /\ module'[i] = module[i + 1]
    BY <1>0, <2>1
  <2>3. ASSUME Fresh, NEW i \in 1 .. Len(module'), module'[i].kind = "register",
               module'[i].visit = v, NEW j \in i + 1 .. Len(module')
        PROVE  ~Closes(module'[j])
    <3>1. i + 1 \in 1 .. Len(module) /\ module'[i] = module[i + 1]
      BY <2>2
    <3>2. j \in 1 .. Len(module') /\ j + 1 \in (i + 1) + 1 .. Len(module)
      BY <1>0, <2>1
    <3>3. module'[j] = module[j + 1]
      BY <2>2, <3>2
    <3>4. PICK k \in 1 .. Len(module) : k = i + 1
      BY <3>1
    <3>5. module[k].kind = "register" /\ module[k].visit = v
      BY <2>3, <3>1, <3>4
    <3>. QED
      BY <1>1, <2>3, <3>2, <3>3, <3>4, <3>5 DEF Behind
  <2>. QED
    BY <2>2, <2>3 DEF Behind
<1>10. CASE RunRegister
  <2>1. /\ module # <<>> /\ module' = Tail(module) /\ UNCHANGED <<screen, main, seen>>
        /\ Op = module[1] /\ Op.kind = "register" /\ Len(module) > 0
        /\ listens' = listens \union {[name |-> Op.name, visit |-> Op.visit]}
    BY <1>10, HeadFacts DEF RunRegister, ModuleDone
  <2>2. ASSUME Fresh, NEW l \in listens', l.visit = v, NEW i \in 1 .. Len(module')
        PROVE  ~Closes(module'[i])
    <3>1. i + 1 \in 1 .. Len(module) /\ module'[i] = module[i + 1]
      BY <1>9, <2>1
    <3>2. CASE l \in listens
      BY <1>1, <2>2, <3>1, <3>2 DEF Deaf
    <3>3. CASE l \notin listens
      <4>1. module[1].kind = "register" /\ module[1].visit = v /\ 1 \in 1 .. Len(module)
        BY <1>0, <2>1, <2>2, <3>3
      <4>2. i + 1 \in 1 + 1 .. Len(module)
        BY <1>0, <3>1
      <4>. QED
        BY <1>1, <2>2, <3>1, <4>1, <4>2 DEF Behind
    <3>. QED
      BY <3>2, <3>3
  <2>3. Fresh => Deaf(v)'
    BY <2>2 DEF Deaf
  <2>4. (Fresh => NoNews(v)') /\ (Fresh' => Fresh)
    BY <1>1, <2>1 DEF NoNews, Fresh
  <2>. QED
    BY <1>3, <1>9, <2>1, <2>3, <2>4
<1>11. CASE Announce
  <2>1. /\ module # <<>> /\ module' = Tail(module) /\ UNCHANGED <<screen, listens, seen>>
        /\ Op = module[1] /\ Op.kind = "announce" /\ Len(module) > 0
    BY <1>11, HeadFacts DEF Announce, ModuleDone
  <2>2. PICK q \in Seq(News) :
           /\ main' = main \o q
           /\ \A i \in 1 .. Len(q) :
                 /\ q[i].kind = Op.of
                 /\ \E l \in listens : q[i].visit = l.visit
    BY <1>11, Announced
  <2>3. Len(q) \in Nat /\ Len(main') = Len(main) + Len(q)
    BY <1>0, <2>2, ConcatSeq
  <2>4. \A i \in 1 .. Len(main) : main'[i] = main[i]
    BY <1>0, <2>2, ConcatSeq
  <2>5. \A i \in 1 .. Len(q) : main'[Len(main) + i] = q[i]
    BY <1>0, <2>2, ConcatSeq
  <2>6. ASSUME Fresh, NEW i \in 1 .. Len(main) + Len(q), main'[i].kind \in {"delete", "edit"}
        PROVE  main'[i].visit # v
    <3>1. CASE i \in 1 .. Len(main)
      BY <1>1, <2>4, <2>6, <3>1 DEF NoNews
    <3>2. CASE i \notin 1 .. Len(main)
      <4>1. PICK j \in 1 .. Len(q) : i = Len(main) + j
        <5>1. i - Len(main) \in 1 .. Len(q) /\ i = Len(main) + (i - Len(main))
          BY <1>0, <2>3, <3>2
        <5>. QED
          BY <5>1
      <4>2. main'[i] = q[j] /\ q[j].kind = Op.of
        BY <2>2, <2>5, <4>1
      <4>3. PICK l \in listens : main'[i].visit = l.visit
        BY <2>2, <4>2
      <4>4. Closes(module[1]) /\ 1 \in 1 .. Len(module)
        BY <1>0, <2>1, <2>6, <4>2 DEF Closes
      <4>5. l.visit # v
        BY <1>1, <2>6, <4>4 DEF Deaf
      <4>. QED
        BY <4>3, <4>5
    <3>. QED
      BY <3>1, <3>2
  <2>7. Fresh => NoNews(v)'
    BY <2>3, <2>6 DEF NoNews
  <2>8. (Fresh => Deaf(v)') /\ (Fresh' => Fresh)
    <3>1. Fresh' => Fresh
      BY <2>1 DEF Fresh
    <3>2. Fresh => Deaf(v)'
      BY <1>1, <1>9, <2>1 DEF Deaf
    <3>. QED
      BY <3>1, <3>2
  <2>. QED
    BY <1>3, <1>9, <2>1, <2>7, <2>8
<1>12. CASE RunStorage
  <2>1. UNCHANGED <<screen, seen, listens, module>>
    BY <1>12 DEF RunStorage
  <2>2. CASE main' = main
    BY <1>4, <2>1, <2>2
  <2>3. ASSUME NEW m \in News, m.kind = "merge", main' = Append(main, m)
        PROVE  Closing'
    <3>1. /\ Len(main') = Len(main) + 1 /\ main'[Len(main) + 1] = m
          /\ \A i \in 1 .. Len(main) : main'[i] = main[i]
      BY <1>0, <2>3, AppendSeq
    <3>2. ASSUME Fresh, NEW i \in 1 .. Len(main) + 1, main'[i].kind \in {"delete", "edit"}
          PROVE  main'[i].visit # v
      <4>1. i \in 1 .. Len(main)
        BY <1>0, <2>3, <3>1, <3>2
      <4>. QED
        BY <1>1, <3>1, <3>2, <4>1 DEF NoNews
    <3>3. Fresh => NoNews(v)'
      BY <3>1, <3>2 DEF NoNews
    <3>4. (Fresh' => Fresh) /\ (Fresh => Deaf(v)' /\ Behind(v)')
      BY <1>1, <2>1 DEF Fresh, Deaf, Behind
    <3>. QED
      BY <1>3, <2>1, <3>3, <3>4
  <2>. QED
    BY <1>12, <2>2, <2>3, Stored
<1>13. CASE main # <<>> /\ main' = Tail(main) /\ UNCHANGED <<screen, listens, module>>
            /\ seen'.asked = seen.asked
  <2>1. Fresh => NoNews(v)'
    <3>. SUFFICES ASSUME Fresh, NEW i \in 1 .. Len(main) - 1, main'[i].kind \in {"delete", "edit"}
                  PROVE  main'[i].visit # v
      BY <1>13, HeadFacts DEF NoNews
    <3>1. PICK j \in 1 .. Len(main) : main'[i] = main[j]
      <4>1. i + 1 \in 1 .. Len(main) /\ main'[i] = main[i + 1]
        BY <1>0, <1>13, HeadFacts
      <4>. QED
        BY <4>1
    <3>. QED
      BY <1>1, <3>1 DEF NoNews
  <2>2. (Fresh' => Fresh) /\ (Fresh => Deaf(v)' /\ Behind(v)')
    BY <1>1, <1>13 DEF Fresh, Deaf, Behind
  <2>. QED
    BY <1>3, <1>13, <2>1, <2>2
<1>14. CASE DidAdd \/ BusyOff \/ Merge
  BY <1>13, <1>14 DEF DidAdd, BusyOff, Merge, MainTakes
<1>15. CASE DidChange
  <2>1. main # <<>> /\ main' = Tail(main) /\ UNCHANGED <<listens, module>>
    BY <1>15 DEF DidChange, MainTakes
  <2>2. CASE screen' = screen /\ seen' = seen
    BY <1>13, <2>1, <2>2
  <2>3. CASE SlideAway
    <3>1. screen'.name # "edit"
      BY <1>0, <2>3 DEF SlideAway
    <3>. QED
      BY <1>2, <3>1 DEF Fresh
  <2>. QED
    BY <1>15, <2>2, <2>3 DEF DidChange
<1>16. CASE UNCHANGED vars
  BY <1>4, <1>16 DEF vars
<1>. QED
  BY <1>5, <1>6, <1>7, <1>8, <1>10, <1>11, <1>12, <1>14, <1>15, <1>16, Steps

-----------------------------------------------------------------------------
(* What a search knows stays in the store.                                 *)

LEMMA KnownStep ==
    ASSUME IInv, [Next]_vars
    PROVE  Known'
<1>0. /\ Len(module) \in Nat /\ module \in Seq(Blocks)
      /\ Len(storage) \in Nat /\ storage \in Seq(Changes)
      /\ screen \in [name : {"list", "edit", "closing", "search", "leaving"},
                     visit : Visits, device : Devices]
      /\ rows \in Seq(Row) /\ saved \in Seq(Row)
      /\ seen \in [wishes : Seq(AnyWish), known : SUBSET Row, asked : SUBSET Visits,
                   closed : SUBSET Visits, typed : SUBSET Signatures]
  BY HeadFacts, LenProperties DEF IInv, Types, QueueType, ScreenType, SeenType, RowType
<1>1. /\ seen.known # {} => screen.name = "search"
      /\ \A r \in seen.known : KnownRow(r)
  BY DEF IInv, Known
<1>2. PICK D \in SUBSET Devices : found \in [D -> BOOLEAN]
  BY DEF IInv, Types, FoundType
<1>3. CASE seen'.known = {}
  BY <1>3 DEF Known
<1>4. CASE screen.name # "search" /\ seen'.known = seen.known
  BY <1>1, <1>3, <1>4
<1>5. ASSUME seen'.known = seen.known, screen' = screen,
             \A r \in seen.known : KnownRow(r)'
      PROVE  Known'
  BY <1>1, <1>5 DEF Known
<1>6. CASE UNCHANGED <<screen, seen, rows, saved, found, module, storage>>
  BY <1>1, <1>5, <1>6 DEF KnownRow
<1>7. ASSUME NEW op \in Blocks, Asks(op) PROVE Known'
  <2>1. /\ seen'.known = seen.known /\ module' = Append(module, op)
        /\ UNCHANGED <<screen, rows, saved, storage>>
    BY <1>7, AskFacts DEF Asks
  <2>2. CASE screen.name # "search"
    BY <1>4, <2>1, <2>2
  <2>3. ASSUME screen.name = "search", NEW r \in seen.known PROVE KnownRow(r)'
    <3>1. op.id \in D /\ ~found[op.id] /\ found' = [found EXCEPT ![op.id] = TRUE]
      BY <1>2, <1>7, <2>3 DEF Asks
    <3>2. op.id # r.id
      BY <1>1, <1>2, <2>3, <3>1 DEF KnownRow
    <3>3. r.id \in DOMAIN found' => found'[r.id]
      BY <1>1, <1>2, <3>1, <3>2 DEF KnownRow
    <3>4. /\ Len(module') = Len(module) + 1 /\ module'[Len(module) + 1] = op
          /\ \A i \in 1 .. Len(module) : module'[i] = module[i]
      BY <1>0, <2>1, AppendSeq
    <3>5. ASSUME NEW i \in 1 .. Len(module) + 1, IsRequest(module'[i]) PROVE module'[i].id # r.id
      <4>1. CASE i \in 1 .. Len(module)
        BY <1>1, <3>4, <3>5, <4>1 DEF KnownRow
      <4>2. CASE i = Len(module) + 1
        BY <3>2, <3>4, <4>2
      <4>. QED
        BY <1>0, <4>1, <4>2
    <3>. QED
      BY <1>1, <2>1, <3>3, <3>4, <3>5 DEF KnownRow
  <2>. QED
    BY <1>5, <2>1, <2>2, <2>3
<1>8. ASSUME NEW d \in Devices, OpenEdit(d) PROVE Known'
  BY <1>4, <1>8 DEF OpenEdit, Open
<1>9. CASE OpenSearch
  <2>1. seen' = [seen EXCEPT !.known = IF AllDone THEN Range(rows) ELSE {}]
    BY <1>9 DEF OpenSearch
  <2>2. CASE ~AllDone
    BY <1>0, <1>3, <2>1, <2>2
  <2>3. CASE AllDone
    <3>1. seen'.known = Range(rows)
      BY <1>0, <2>1, <2>3
    <3>2. screen'.name = "search" /\ screen'.visit \in Visits
      <4>1. /\ screen.visit <= touches /\ touches < MaxTouches /\ touches \in Nat
            /\ screen.visit \in Nat /\ MaxTouches \in Nat
        BY <1>9, DeviceAssumption DEF IInv, Types, ScreenType, Visits, OpenSearch, Open, Touch
      <4>. QED
        BY <1>9, <4>1 DEF OpenSearch, Open, Visits
    <3>3. found' = NoneFound /\ UNCHANGED <<rows, saved, storage>> /\ saved = rows /\ storage = <<>>
      BY <1>9, <2>3 DEF OpenSearch, storeVars, IInv, Followed, AllDone
    <3>. PICK b : b = [kind |-> "register", name |-> "search", visit |-> screen'.visit]
      OBVIOUS
    <3>4. b \in Blocks /\ ~IsRequest(b) /\ module' = Append(module, b) /\ module = <<>>
      BY <1>9, <2>3, <3>2 DEF OpenSearch, Register, Blocks, IsRequest, AllDone
    <3>5. Len(module') = 1 /\ module'[1] = b
      BY <3>4
    <3>6. ASSUME NEW r \in Range(rows) PROVE KnownRow(r)'
      <4>1. r.id \in IdsOf(saved)
        BY <3>3 DEF IdsOf
      <4>2. DOMAIN found' = {}
        BY <3>3 DEF NoneFound
      <4>3. \A i \in 1 .. Len(module') : ~IsRequest(module'[i])
        BY <3>4, <3>5
      <4>4. Len(storage') = 0
        BY <3>3
      <4>. QED
        BY <3>3, <4>1, <4>2, <4>3, <4>4 DEF KnownRow
    <3>. QED
      BY <3>1, <3>2, <3>6 DEF Known
  <2>. QED
    BY <2>2, <2>3
<1>10. CASE BackFromSearch \/ Kill
  <2>1. seen'.known = {}
    BY <1>0, <1>10 DEF BackFromSearch, Kill
  <2>. QED
    BY <1>3, <2>1
<1>11. CASE BackFromEdit \/ EditHasGone
  BY <1>4, <1>11 DEF BackFromEdit, EditHasGone
<1>12. ASSUME NEW d \in Devices, Find(d) PROVE Known'
  <2>1. /\ UNCHANGED <<screen, seen, rows, saved, module, storage>>
        /\ found' = [x \in D \union {d} |-> IF x = d THEN AlreadyAdded(d) ELSE found[x]]
    BY <1>2, <1>12 DEF Find, storeVars
  <2>2. ASSUME NEW r \in seen.known PROVE KnownRow(r)'
    <3>1. r.id \in IdsOf(saved)
      BY <1>1 DEF KnownRow
    <3>2. r.id = d => found'[r.id]
      BY <2>1, <3>1 DEF AlreadyAdded
    <3>3. r.id # d /\ r.id \in DOMAIN found' => r.id \in DOMAIN found /\ found'[r.id] = found[r.id]
      BY <1>2, <2>1
    <3>4. r.id \in DOMAIN found' => found'[r.id]
      BY <1>1, <3>2, <3>3 DEF KnownRow
    <3>. QED
      BY <1>1, <2>1, <3>4 DEF KnownRow
  <2>. QED
    BY <1>5, <2>1, <2>2
<1>13. CASE HandOn
  <2>. PICK ann : ann = [kind |-> "announce", of |-> Op.kind]
    OBVIOUS
  <2>. PICK c : c = [kind |-> Op.kind, id |-> Op.id, user |-> UserOf(Op)]
    OBVIOUS
  <2>1. /\ module # <<>> /\ Op \in Blocks /\ IsRequest(Op) /\ Op = module[1] /\ Len(module) > 0
        /\ UNCHANGED <<screen, seen, rows, saved, found>>
    BY <1>13, HeadFacts DEF HandOn, screenVars
  <2>2. ann \in Blocks /\ ~IsRequest(ann)
    BY <2>1 DEF IsRequest, Blocks, Requests
  <2>3. /\ Len(module') = Len(module) /\ module'[1] = ann
        /\ \A i \in 2 .. Len(module) : module'[i] = module[i]
    BY <1>0, <1>13, HandOnQueue
  <2>4. c \in Changes /\ storage' = Append(storage, c)
    BY <1>13, HandedChange DEF IInv, HandOn
  <2>5. /\ Len(storage') = Len(storage) + 1 /\ storage'[Len(storage) + 1] = c
        /\ \A i \in 1 .. Len(storage) : storage'[i] = storage[i]
    BY <1>0, <2>4, AppendSeq
  <2>6. ASSUME NEW r \in seen.known PROVE KnownRow(r)'
    <3>1. ASSUME NEW i \in 1 .. Len(module), IsRequest(module'[i]) PROVE module'[i].id # r.id
      <4>1. i \in 2 .. Len(module)
        BY <1>0, <2>2, <2>3, <3>1
      <4>. QED
        BY <1>1, <2>3, <3>1, <4>1 DEF KnownRow
    <3>2. ASSUME NEW i \in 1 .. Len(storage) + 1 PROVE storage'[i].id # r.id
      <4>1. CASE i \in 1 .. Len(storage)
        BY <1>1, <2>5, <4>1 DEF KnownRow
      <4>2. CASE i = Len(storage) + 1
        <5>1. 1 \in 1 .. Len(module) /\ c.id = module[1].id
          BY <1>0, <2>1
        <5>. QED
          BY <1>1, <2>1, <2>5, <4>2, <5>1 DEF KnownRow
      <4>. QED
        BY <1>0, <4>1, <4>2
    <3>. QED
      BY <1>1, <2>1, <2>3, <2>5, <3>1, <3>2 DEF KnownRow
  <2>. QED
    BY <1>5, <2>1, <2>6
<1>14. CASE Announce \/ RunRegister
  <2>1. /\ module # <<>> /\ module' = Tail(module)
        /\ UNCHANGED <<screen, seen, rows, saved, found, storage>>
    BY <1>14 DEF Announce, RunRegister, ModuleDone, screenVars, storeVars
  <2>2. ASSUME NEW i \in 1 .. Len(module') PROVE \E j \in 1 .. Len(module) : module'[i] = module[j]
    <3>1. i + 1 \in 1 .. Len(module) /\ module'[i] = module[i + 1]
      BY <1>0, <2>1, HeadFacts
    <3>. QED
      BY <3>1
  <2>3. ASSUME NEW r \in seen.known PROVE KnownRow(r)'
    BY <1>1, <2>1, <2>2 DEF KnownRow
  <2>. QED
    BY <1>5, <2>1, <2>3
<1>15. CASE RunRemove
  <2>1. module # <<>> /\ Op.kind = "remove" /\ Op = module[1] /\ Len(module) > 0 /\ seen' = seen
    BY <1>15, HeadFacts DEF RunRemove
  <2>2. screen.name = "leaving"
    BY <1>0, <2>1 DEF IInv, Leaving
  <2>. QED
    BY <1>4, <2>1, <2>2
<1>16. CASE RunStorage
  <2>. PICK b : b = Head(storage)
    OBVIOUS
  <2>1. /\ storage # <<>> /\ storage' = Tail(storage) /\ UNCHANGED <<screen, seen, found, module>>
    BY <1>16 DEF RunStorage, screenVars
  <2>2. /\ Len(storage) > 0 /\ b = storage[1] /\ Len(storage') = Len(storage) - 1
        /\ \A i \in 1 .. Len(storage) - 1 : storage'[i] = storage[i + 1]
    BY <1>0, <2>1, TailSeq
  <2>3. ASSUME NEW r \in seen.known PROVE KnownRow(r)'
    <3>1. b.id # r.id
      BY <1>0, <1>1, <2>2 DEF KnownRow
    <3>2. r \in Range(rows')
      BY <1>1, <1>16, <3>1, Stored DEF Given, KnownRow
    <3>3. r.id \in IdsOf(rows')
      BY <3>2 DEF IdsOf
    <3>4. r.id \in IdsOf(saved')
      BY <1>1, <1>16, <3>3, Stored DEF KnownRow
    <3>5. ASSUME NEW i \in 1 .. Len(storage') PROVE storage'[i].id # r.id
      <4>1. i + 1 \in 1 .. Len(storage) /\ storage'[i] = storage[i + 1]
        BY <1>0, <2>2
      <4>. QED
        BY <1>1, <4>1 DEF KnownRow
    <3>. QED
      BY <1>1, <2>1, <3>2, <3>4, <3>5 DEF KnownRow
  <2>. QED
    BY <1>5, <2>1, <2>3
<1>17. CASE DidChange
  <2>1. /\ UNCHANGED <<rows, saved, found, module, storage>>
        /\ UNCHANGED <<screen, seen>> \/ (screen.name = "edit" /\ seen'.known = seen.known)
    BY <1>0, <1>17 DEF DidChange, screenVars, storeVars
  <2>. QED
    BY <1>4, <1>6, <2>1
<1>18. CASE Refresh \/ TimerFires \/ DidAdd \/ BusyOff \/ Merge \/ UNCHANGED vars
  BY <1>6, <1>18 DEF Refresh, TimerFires, DidAdd, BusyOff, Merge, screenVars, storeVars, vars
<1>. QED
  BY <1>7, <1>8, <1>9, <1>10, <1>11, <1>12, <1>13, <1>14, <1>15, <1>16, <1>17, <1>18, Steps

-----------------------------------------------------------------------------
(* The list shows the file once what was saved has come.                   *)

\* More waits on the main queue, and none of it is rows.
LEMMA ShownMore ==
    ASSUME IInv, saved' = saved, shown' = shown, Len(main') \in Nat, Len(main) <= Len(main'),
           \A i \in 1 .. Len(main) : main'[i] = main[i],
           \A i \in 1 .. Len(main') : i \notin 1 .. Len(main) => main'[i].kind # "merge"
    PROVE  Shown'
<1>0. /\ Len(main) \in Nat
      /\ \A i \in 1 .. Len(main) : LastMerge(i) => main[i].rows = saved
      /\ (\A i \in 1 .. Len(main) : main[i].kind # "merge") => shown = saved
  BY HeadFacts DEF IInv, Shown
<1>1. \A i \in 1 .. Len(main) : i \in 1 .. Len(main')
  BY <1>0
<1>2. ASSUME NEW i \in 1 .. Len(main'), LastMerge(i)' PROVE main'[i].rows = saved'
  <2>1. i \in 1 .. Len(main) /\ main'[i] = main[i] /\ main[i].kind = "merge"
    BY <1>2 DEF LastMerge
  <2>2. ASSUME NEW j \in i + 1 .. Len(main) PROVE main[j].kind # "merge"
    <3>1. j \in 1 .. Len(main) /\ j \in i + 1 .. Len(main')
      BY <1>0, <2>1
    <3>. QED
      BY <1>2, <3>1 DEF LastMerge
  <2>3. LastMerge(i)
    BY <2>1, <2>2 DEF LastMerge
  <2>. QED
    BY <1>0, <2>1, <2>3
<1>3. ASSUME \A i \in 1 .. Len(main') : main'[i].kind # "merge" PROVE shown' = saved'
  BY <1>0, <1>1, <1>3
<1>. QED
  BY <1>2, <1>3 DEF Shown

\* The block at the head of the main queue is done.
LEMMA ShownHead ==
    ASSUME IInv, main # <<>>, main' = Tail(main), saved' = saved,
           IF Block.kind = "merge" THEN shown' = Block.rows ELSE shown' = shown
    PROVE  Shown'
<1>0. /\ Len(main) \in Nat /\ Len(main) > 0 /\ Block = main[1] /\ Len(main') = Len(main) - 1
      /\ \A i \in 1 .. Len(main) - 1 : main'[i] = main[i + 1]
      /\ \A i \in 1 .. Len(main) : LastMerge(i) => main[i].rows = saved
      /\ (\A i \in 1 .. Len(main) : main[i].kind # "merge") => shown = saved
  BY HeadFacts DEF IInv, Shown
<1>1. ASSUME NEW i \in 1 .. Len(main'), LastMerge(i)' PROVE main'[i].rows = saved'
  <2>. PICK k \in 1 .. Len(main) : k = i + 1 /\ main'[i] = main[k]
    BY <1>0
  <2>1. main[k].kind = "merge"
    BY <1>1 DEF LastMerge
  <2>2. ASSUME NEW j \in k + 1 .. Len(main) PROVE main[j].kind # "merge"
    <3>1. j - 1 \in i + 1 .. Len(main') /\ j - 1 \in 1 .. Len(main) - 1 /\ j - 1 + 1 = j
      BY <1>0
    <3>2. main'[j - 1] = main[j]
      BY <1>0, <3>1
    <3>. QED
      BY <1>1, <3>1, <3>2 DEF LastMerge
  <2>3. LastMerge(k)
    BY <2>1, <2>2 DEF LastMerge
  <2>. QED
    BY <1>0, <2>3
<1>2. ASSUME \A i \in 1 .. Len(main') : main'[i].kind # "merge" PROVE shown' = saved'
  <2>1. ASSUME NEW j \in 2 .. Len(main) PROVE main[j].kind # "merge"
    <3>1. j - 1 \in 1 .. Len(main) - 1 /\ j - 1 + 1 = j
      BY <1>0
    <3>2. main'[j - 1] = main[j]
      BY <1>0, <3>1
    <3>. QED
      BY <1>0, <1>2, <3>1, <3>2
  <2>2. CASE Block.kind = "merge"
    <3>1. 1 \in 1 .. Len(main) /\ LastMerge(1)
      BY <1>0, <2>1, <2>2 DEF LastMerge
    <3>. QED
      BY <1>0, <2>2, <3>1
  <2>3. CASE Block.kind # "merge"
    <3>1. \A j \in 1 .. Len(main) : j = 1 \/ j \in 2 .. Len(main)
      BY <1>0
    <3>. QED
      BY <1>0, <2>1, <2>3, <3>1
  <2>. QED
    BY <2>2, <2>3
<1>. QED
  BY <1>1, <1>2 DEF Shown

LEMMA ShownStep ==
    ASSUME IInv, [Next]_vars
    PROVE  Shown'
<1>0. main \in Seq(News) /\ Len(main) \in Nat
  BY HeadFacts
<1>1. CASE UNCHANGED <<main, saved, shown>>
  BY <1>1 DEF IInv, Shown, LastMerge
<1>2. ASSUME NEW op \in Blocks, Asks(op) PROVE Shown'
  BY <1>1, <1>2 DEF Asks
<1>3. CASE TimerFires \/ \E d \in Devices : Find(d)
  <2>. PICK m : m = [kind |-> "busyOff", visit |-> screen.visit]
    OBVIOUS
  <2>1. m \in News /\ m.kind # "merge"
    BY DEF News, IInv, Types, ScreenType
  <2>2. UNCHANGED <<saved, shown>> /\ (main' = Append(main, m) \/ main' = main)
    BY <1>3 DEF TimerFires, Find, storeVars
  <2>3. CASE main' = Append(main, m)
    <3>1. /\ Len(main') = Len(main) + 1 /\ main'[Len(main) + 1] = m
          /\ \A i \in 1 .. Len(main) : main'[i] = main[i]
      BY <1>0, <2>1, <2>3, AppendSeq
    <3>2. \A i \in 1 .. Len(main') : i \notin 1 .. Len(main) => i = Len(main) + 1
      BY <1>0, <3>1
    <3>3. Len(main') \in Nat /\ Len(main) <= Len(main')
      BY <1>0, <3>1
    <3>. QED
      BY <2>1, <2>2, <3>1, <3>2, <3>3, ShownMore
  <2>. QED
    BY <1>1, <2>2, <2>3
<1>4. CASE Announce
  <2>1. UNCHANGED <<saved, shown>>
    BY <1>4 DEF Announce, storeVars
  <2>2. PICK q \in Seq(News) :
           main' = main \o q /\ \A i \in 1 .. Len(q) : q[i].kind # "merge"
    BY <1>4, Announced
  <2>3. Len(q) \in Nat /\ Len(main') = Len(main) + Len(q)
    BY <1>0, <2>2, ConcatSeq
  <2>4. \A i \in 1 .. Len(main) : main'[i] = main[i]
    BY <1>0, <2>2, ConcatSeq
  <2>5. \A i \in 1 .. Len(q) : main'[Len(main) + i] = q[i]
    BY <1>0, <2>2, ConcatSeq
  <2>6. ASSUME NEW i \in 1 .. Len(main'), i \notin 1 .. Len(main) PROVE main'[i].kind # "merge"
    <3>1. PICK j \in 1 .. Len(q) : i = Len(main) + j
      <4>1. i - Len(main) \in 1 .. Len(q) /\ i = Len(main) + (i - Len(main))
        BY <1>0, <2>3, <2>6
      <4>. QED
        BY <4>1
    <3>. QED
      BY <2>2, <2>5, <3>1
  <2>7. Len(main') \in Nat /\ Len(main) <= Len(main')
    BY <1>0, <2>3
  <2>. QED
    BY <2>1, <2>4, <2>6, <2>7, ShownMore
<1>5. CASE RunStorage
  <2>1. shown' = shown
    BY <1>5 DEF RunStorage
  <2>2. ASSUME saved' = rows', NEW m \in News, m.kind = "merge", m.rows = rows',
               main' = Append(main, m)
        PROVE  Shown'
    <3>1. /\ Len(main') = Len(main) + 1 /\ main'[Len(main) + 1] = m
          /\ \A i \in 1 .. Len(main) : main'[i] = main[i]
      BY <1>0, <2>2, AppendSeq
    <3>2. Len(main) + 1 \in 1 .. Len(main') /\ main'[Len(main) + 1].kind = "merge"
      BY <1>0, <2>2, <3>1
    <3>3. ASSUME NEW i \in 1 .. Len(main'), LastMerge(i)' PROVE main'[i].rows = saved'
      <4>1. Len(main) + 1 \notin i + 1 .. Len(main')
        BY <3>2, <3>3 DEF LastMerge
      <4>2. i = Len(main) + 1
        BY <1>0, <3>1, <4>1
      <4>. QED
        BY <2>2, <3>1, <4>2
    <3>. QED
      BY <3>2, <3>3 DEF Shown
  <2>. QED
    BY <1>1, <1>5, <2>1, <2>2, Stored
<1>6. CASE DidAdd \/ DidChange \/ BusyOff
  BY <1>6, ShownHead DEF DidAdd, DidChange, BusyOff, MainTakes, storeVars
<1>7. CASE Merge
  BY <1>7, ShownHead DEF Merge, MainTakes, storeVars
<1>8. CASE Kill
  BY <1>8 DEF Kill, Shown
<1>9. CASE \/ \E d \in Devices : OpenEdit(d)
           \/ OpenSearch \/ Refresh \/ BackFromSearch \/ BackFromEdit \/ EditHasGone
           \/ HandOn \/ RunRegister \/ RunRemove \/ UNCHANGED vars
  BY <1>1, <1>9 DEF OpenEdit, OpenSearch, Refresh, BackFromSearch, BackFromEdit, EditHasGone,
                    HandOn, RunRegister, RunRemove, storeVars, vars
<1>. QED
  BY <1>2, <1>3, <1>4, <1>5, <1>6, <1>7, <1>8, <1>9, Steps

-----------------------------------------------------------------------------
(* The rest of the invariant.                                              *)

LEMMA ClosesStep ==
    ASSUME IInv, [Next]_vars
    PROVE  ClosesForItsOwn'
<1>0. /\ seen \in [wishes : Seq(AnyWish), known : SUBSET Row, asked : SUBSET Visits,
                   closed : SUBSET Visits, typed : SUBSET Signatures]
      /\ seen.closed \subseteq seen.asked
  BY DEF IInv, Types, SeenType, ClosesForItsOwn
<1>1. CASE seen'.closed = seen.closed /\ seen'.asked = seen.asked
  BY <1>0, <1>1 DEF ClosesForItsOwn
<1>2. ASSUME NEW op \in Blocks, Asks(op) PROVE ClosesForItsOwn'
  BY <1>0, <1>2, AskFacts DEF ClosesForItsOwn
<1>3. CASE OpenSearch \/ BackFromSearch \/ Kill
  <2>1. seen'.closed = seen.closed /\ seen'.asked = seen.asked
    BY <1>0, <1>3 DEF OpenSearch, BackFromSearch, Kill
  <2>. QED
    BY <1>1, <2>1
<1>4. CASE DidChange
  <2>1. CASE seen' = seen
    BY <1>1, <2>1
  <2>2. CASE seen' # seen
    <3>1. /\ screen.visit = Block.visit /\ screen.name = "edit" /\ main # <<>>
          /\ Block.kind \in {"delete", "edit"}
          /\ seen' = [seen EXCEPT !.closed = @ \union {Block.visit}]
      BY <1>4, <2>2 DEF DidChange, MainTakes
    <3>2. Block = main[1] /\ 1 \in 1 .. Len(main)
      BY <3>1, HeadFacts
    <3>3. ~NoNews(screen.visit)
      BY <3>1, <3>2 DEF NoNews
    <3>4. Block.visit \in seen.asked
      BY <3>1, <3>3 DEF IInv, Closing, Fresh
    <3>5. seen'.closed = seen.closed \union {Block.visit} /\ seen'.asked = seen.asked
      BY <1>0, <3>1
    <3>. QED
      BY <1>0, <3>4, <3>5 DEF ClosesForItsOwn
  <2>. QED
    BY <2>1, <2>2
<1>5. CASE \/ \E d \in Devices : OpenEdit(d) \/ Find(d)
           \/ Refresh \/ BackFromEdit \/ EditHasGone \/ TimerFires
           \/ HandOn \/ Announce \/ RunRegister \/ RunRemove \/ RunStorage
           \/ DidAdd \/ BusyOff \/ Merge \/ UNCHANGED vars
  BY <1>1, <1>5 DEF OpenEdit, Find, Refresh, BackFromEdit, EditHasGone, TimerFires, HandOn,
                    Announce, RunRegister, RunRemove, RunStorage, DidAdd, BusyOff, Merge, vars
<1>. QED
  BY <1>2, <1>3, <1>4, <1>5, Steps

LEMMA FollowedNext ==
    ASSUME IInv, [Next]_vars
    PROVE  Followed'
<1>0. /\ Types /\ Past /\ Followed
      /\ module \in Seq(Blocks) /\ SeenType /\ Num \in Nat
      /\ seen \in [wishes : Seq(AnyWish), known : SUBSET Row, asked : SUBSET Visits,
                   closed : SUBSET Visits, typed : SUBSET Signatures]
      /\ draft \in Seq(AnyUser) /\ Len(draft) = screen.visit
      /\ screen \in [name : {"list", "edit", "closing", "search", "leaving"},
                     visit : Visits, device : Devices]
      /\ rows \in Seq(Row) /\ saved \in Seq(Row)
  BY QueueFacts DEF IInv, SeenType, Types, ScreenType
<1>1. CASE /\ UNCHANGED <<draft, module, storage, rows, saved>>
           /\ seen'.wishes = seen.wishes /\ seen'.typed = seen.typed
  BY <1>0, <1>1, FollowedSame
<1>2. ASSUME seen'.wishes = seen.wishes, seen'.typed = seen.typed,
             \A v \in 1 .. screen.visit : draft'[v] = draft[v]
      PROVE  Num' = Num /\ Later /\ AsksOn /\ TypedAgrees'
  <2>1. Num' = Num /\ Later
    BY <1>0, <1>2 DEF Num, Later
  <2>2. TypedAgrees'
    BY <1>0, <1>2, <2>1 DEF Followed, TypedAgrees
  <2>. QED
    BY <1>0, <1>2, <2>1, <2>2, DraftsStay
<1>3. ASSUME NEW b \in Blocks, ~IsRequest(b), module' = Append(module, b),
             UNCHANGED <<storage, rows, saved>>,
             seen'.wishes = seen.wishes, seen'.typed = seen.typed,
             \A v \in 1 .. screen.visit : draft'[v] = draft[v]
      PROVE  Followed'
  <2>1. Num' = Num /\ Later /\ AsksOn /\ TypedAgrees'
    BY <1>2, <1>3
  <2>. QED
    BY <1>0, <1>3, <2>1, FollowedAppend
<1>4. ASSUME NEW op \in Blocks, Asks(op) PROVE Followed'
  BY <1>4, AskFacts
<1>5. ASSUME NEW d \in Devices, NEW name \in {"edit", "search"}, Open(name, d),
             Register(name, screen'.visit), draft' = Append(draft, NoUser),
             UNCHANGED <<storage, rows, saved>>,
             seen'.wishes = seen.wishes, seen'.typed = seen.typed
      PROVE  Followed'
  <2>1. screen'.visit \in Visits
    <3>1. /\ screen.visit <= touches /\ touches < MaxTouches /\ touches \in Nat
          /\ screen.visit \in Nat /\ MaxTouches \in Nat
      BY <1>5, DeviceAssumption DEF IInv, Types, ScreenType, Visits, Open, Touch
    <3>. QED
      BY <1>5, <3>1 DEF Open, Visits
  <2>. PICK b : b = [kind |-> "register", name |-> name, visit |-> screen'.visit]
    OBVIOUS
  <2>2. b \in Blocks /\ ~IsRequest(b)
    BY <2>1 DEF Blocks, IsRequest
  <2>3. NoUser \in AnyUser
    BY DEF AnyUser
  <2>4. \A v \in 1 .. screen.visit : draft'[v] = draft[v]
    BY <1>0, <1>5, <2>3, AppendSeq
  <2>. QED
    BY <1>3, <1>5, <2>2, <2>4 DEF Register
<1>6. ASSUME NEW d \in Devices, OpenEdit(d) PROVE Followed'
  BY <1>5, <1>6 DEF OpenEdit, storeVars
<1>7. CASE OpenSearch
  <2>1. seen'.wishes = seen.wishes /\ seen'.typed = seen.typed /\ screen.device \in Devices
    BY <1>0, <1>7 DEF OpenSearch
  <2>. QED
    BY <1>5, <1>7, <2>1 DEF OpenSearch, storeVars
<1>8. CASE BackFromSearch \/ EditHasGone
  <2>. PICK b : b = [kind |-> "remove", visit |-> screen.visit]
    OBVIOUS
  <2>1. b \in Blocks /\ ~IsRequest(b)
    BY <1>0 DEF Blocks, IsRequest
  <2>2. seen'.wishes = seen.wishes /\ seen'.typed = seen.typed
    BY <1>0, <1>8 DEF BackFromSearch, EditHasGone
  <2>. QED
    BY <1>3, <1>8, <2>1, <2>2 DEF BackFromSearch, EditHasGone, Leave, storeVars, screenVars
<1>9. CASE HandOn
  BY <1>0, <1>9, FollowedHandOn
<1>10. CASE Announce \/ RunRegister \/ RunRemove
  <2>1. /\ module # <<>> /\ ~IsRequest(Op) /\ module' = Tail(module)
        /\ UNCHANGED <<storage, rows, saved, seen, draft>>
    BY <1>10 DEF Announce, RunRegister, RunRemove, ModuleDone, IsRequest, storeVars, screenVars
  <2>2. Num' = Num /\ Later /\ AsksOn /\ TypedAgrees'
    BY <1>2, <2>1
  <2>. QED
    BY <1>0, <2>1, <2>2, FollowedHead
<1>11. CASE RunStorage
  BY <1>11, Stored
<1>12. CASE Kill
  <2>. PICK rs \in Seq(Row) : rs = saved /\ EachOnce(rs)
    BY <1>0 DEF Followed, Follows
  <2>1. seen' = [seen EXCEPT !.wishes = <<RowsAsWish(rs)>>, !.typed = {}, !.known = {}]
    BY <1>12 DEF Kill
  <2>2. seen'.wishes = <<RowsAsWish(rs)>> /\ seen'.typed = {}
    BY <1>0, <2>1
  <2>3. rows' = rs /\ saved' = rs /\ module' = <<>> /\ storage' = <<>>
    BY <1>12 DEF Kill
  <2>. QED
    BY <2>2, <2>3, RestartFollowed
<1>13. CASE DidChange
  <2>1. seen'.wishes = seen.wishes /\ seen'.typed = seen.typed
    BY <1>0, <1>13 DEF DidChange
  <2>. QED
    BY <1>1, <1>13, <2>1 DEF DidChange, screenVars, storeVars
<1>14. CASE \/ \E d \in Devices : Find(d)
            \/ Refresh \/ BackFromEdit \/ TimerFires \/ DidAdd \/ BusyOff \/ Merge
            \/ UNCHANGED vars
  BY <1>1, <1>14 DEF Find, Refresh, BackFromEdit, TimerFires, DidAdd, BusyOff, Merge,
                     screenVars, storeVars, vars
<1>. QED
  BY <1>4, <1>6, <1>7, <1>8, <1>9, <1>10, <1>11, <1>12, <1>13, <1>14, Steps

-----------------------------------------------------------------------------
(* The displays of the search screen.                                       *)

Told == \E i \in 1 .. Len(main) : main[i].kind = "add"
Comes(v) == \E i \in 1 .. Len(module) : Adds(module[i]) /\ WillListen(v, i)
Off(v) == \E i \in 1 .. Len(main) : main[i] = [kind |-> "busyOff", visit |-> v]

\* Only the search screen shows them; it listens, or will once moduleQueue is
\* through; and what ends each is under way.
Displays ==
    /\ busy \/ hud => screen.name = "search"
    /\ screen.name = "search" => WillListen(screen.visit, Len(module) + 1)
    /\ hud => Told \/ Comes(screen.visit)
    /\ busy => timers > 0 \/ Off(screen.visit)

\* Another screen shows neither.
LEMMA NoDisplays ==
    ASSUME screen'.name # "search", busy' = FALSE, hud' = FALSE
    PROVE  Displays'
BY DEF Displays

\* What waits on the main queue stays on it when it grows.
LEMMA MainMore ==
    ASSUME NEW v, Len(main) \in Nat, Len(main') \in Nat, Len(main) <= Len(main'),
           \A i \in 1 .. Len(main) : main'[i] = main[i]
    PROVE  (Told => Told') /\ (Off(v) => Off(v)')
<1>1. \A i \in 1 .. Len(main) : i \in 1 .. Len(main')
  OBVIOUS
<1>. QED
  BY <1>1, Zenon DEF Told, Off

\* When its head has run, all but the head.
LEMMA MainLess ==
    ASSUME IInv, NEW v, main # <<>>, main' = Tail(main)
    PROVE  /\ Told => Told' \/ Block.kind = "add"
           /\ Off(v) => Off(v)' \/ Block = [kind |-> "busyOff", visit |-> v]
<1>1. /\ Len(main) \in Nat /\ Block = main[1] /\ Len(main') = Len(main) - 1
      /\ \A i \in 1 .. Len(main) - 1 : main'[i] = main[i + 1]
  BY HeadFacts
<1>2. ASSUME NEW i \in 1 .. Len(main)
      PROVE  i = 1 \/ \E j \in 1 .. Len(main') : main'[j] = main[i]
  <2>1. i = 1 \/ (i - 1 \in 1 .. Len(main) - 1 /\ (i - 1) + 1 = i)
    BY <1>1
  <2>. QED
    BY <1>1, <2>1
<1>. QED
  BY <1>1, <1>2, Zenon DEF Told, Off

\* The head of moduleQueue is its first block.
LEMMA OpFirst == ASSUME IInv, module # <<>> PROVE Op = module[1] /\ 1 \in 1 .. Len(module)
<1>1. Op = module[1] /\ Len(module) \in Nat /\ Len(module) > 0
  BY HeadFacts
<1>. QED
  BY <1>1

\* What is on moduleQueue stays ahead of a block behind it.
LEMMA ModuleMore ==
    ASSUME IInv, NEW v, NEW b \in Blocks, module' = Append(module, b), listens' = listens
    PROVE  /\ WillListen(v, Len(module) + 1) => WillListen(v, Len(module) + 1)'
           /\ WillListen(v, Len(module) + 1) /\ Adds(b) => Comes(v)'
           /\ Comes(v) => Comes(v)'
<1>1. module \in Seq(Blocks)
  BY DEF IInv, Types, QueueType
<1>. PICK n \in Nat : n = Len(module)
  BY HeadFacts
<1>2. /\ Len(module') = n + 1 /\ \A i \in 1 .. n : module'[i] = module[i]
      /\ module'[n + 1] = b
  BY <1>1, AppendSeq
<1>3. ASSUME NEW i \in 1 .. n + 1, WillListen(v, i) PROVE WillListen(v, i)'
  <2>1. CASE [name |-> "search", visit |-> v] \in listens
    BY <2>1 DEF WillListen
  <2>2. ASSUME NEW j \in 1 .. i - 1,
               module[j] = [kind |-> "register", name |-> "search", visit |-> v]
        PROVE  WillListen(v, i)'
    <3>1. j \in 1 .. n
      OBVIOUS
    <3>2. module'[j] = [kind |-> "register", name |-> "search", visit |-> v]
      BY <1>2, <2>2, <3>1
    <3>. QED
      BY <3>2 DEF WillListen
  <2>. QED
    BY <1>3, <2>1, <2>2 DEF WillListen
<1>4. ASSUME WillListen(v, n + 1) PROVE WillListen(v, Len(module) + 1)'
  <2>1. WillListen(v, n + 1)'
    BY <1>3, <1>4
  <2>2. 1 .. n + 1 - 1 \subseteq 1 .. Len(module') + 1 - 1
    BY <1>2
  <2>. QED
    BY <2>1, <2>2 DEF WillListen
<1>5. ASSUME WillListen(v, n + 1), Adds(b) PROVE Comes(v)'
  <2>1. WillListen(v, n + 1)' /\ n + 1 \in 1 .. Len(module')
    BY <1>2, <1>3, <1>5
  <2>. QED
    BY <1>2, <1>5, <2>1 DEF Comes
<1>6. ASSUME NEW i \in 1 .. n, Adds(module[i]), WillListen(v, i) PROVE Comes(v)'
  <2>1. i \in 1 .. n + 1 /\ i \in 1 .. Len(module') /\ module'[i] = module[i]
    BY <1>2
  <2>2. WillListen(v, i)'
    BY <1>3, <1>6, <2>1
  <2>. QED
    BY <1>6, <2>1, <2>2 DEF Comes
<1>. QED
  BY <1>4, <1>5, <1>6 DEF Comes

\* A request that is handed on leaves its announcement in its place.
LEMMA ModuleHandOn ==
    ASSUME IInv, NEW v, HandOn
    PROVE  /\ WillListen(v, Len(module) + 1) => WillListen(v, Len(module) + 1)'
           /\ Comes(v) => Comes(v)'
<1>1. module \in Seq(Blocks) /\ listens' = listens
  BY DEF IInv, Types, QueueType, HandOn
<1>2. module # <<>> /\ IsRequest(Op) /\ Op = module[1]
  BY HeadFacts DEF HandOn
<1>. PICK n \in Nat : n = Len(module)
  BY HeadFacts
<1>. PICK ann : ann = [kind |-> "announce", of |-> Op.kind]
  OBVIOUS
<1>3. Len(module') = n /\ module'[1] = ann /\ \A i \in 2 .. n : module'[i] = module[i]
  BY <1>1, HandOnQueue
<1>4. ASSUME NEW i \in 1 .. n + 1, WillListen(v, i) PROVE WillListen(v, i)'
  <2>1. CASE [name |-> "search", visit |-> v] \in listens
    BY <1>1, <2>1 DEF WillListen
  <2>2. ASSUME NEW j \in 1 .. i - 1,
               module[j] = [kind |-> "register", name |-> "search", visit |-> v]
        PROVE  WillListen(v, i)'
    <3>1. j # 1
      BY <1>2, <2>2 DEF IsRequest
    <3>2. j \in 2 .. n
      BY <3>1
    <3>3. module'[j] = [kind |-> "register", name |-> "search", visit |-> v]
      BY <1>3, <2>2, <3>2
    <3>. QED
      BY <3>3 DEF WillListen
  <2>. QED
    BY <1>4, <2>1, <2>2 DEF WillListen
<1>5. ASSUME NEW i \in 1 .. n, Adds(module[i]), WillListen(v, i) PROVE Comes(v)'
  <2>1. WillListen(v, i)' /\ i \in 1 .. Len(module')
    BY <1>3, <1>4, <1>5
  <2>2. Adds(module'[i])
    <3>1. CASE i = 1
      BY <1>2, <1>3, <1>5, <3>1 DEF Adds, IsRequest
    <3>2. CASE i # 1
      <4>1. i \in 2 .. n
        BY <3>2
      <4>. QED
        BY <1>3, <1>5, <4>1
    <3>. QED
      BY <3>1, <3>2
  <2>. QED
    BY <2>1, <2>2 DEF Comes
<1>6. WillListen(v, n + 1) => WillListen(v, Len(module) + 1)'
  <2>1. n + 1 \in 1 .. n + 1 /\ Len(module') + 1 = n + 1
    BY <1>3
  <2>. QED
    BY <1>4, <2>1
<1>. QED
  BY <1>5, <1>6 DEF Comes

\* When the head of moduleQueue has run, a screen it was to register listens,
\* and what was behind it is one place ahead.
LEMMA ModuleLess ==
    ASSUME IInv, NEW v, module # <<>>, module' = Tail(module), listens \subseteq listens',
           Op = [kind |-> "register", name |-> "search", visit |-> v] =>
               [name |-> "search", visit |-> v] \in listens'
    PROVE  /\ WillListen(v, Len(module) + 1) => WillListen(v, Len(module) + 1)'
           /\ Comes(v) => Comes(v)' \/ (Adds(Op) /\ WillListen(v, 1))
<1>. PICK n \in Nat : n = Len(module)
  BY HeadFacts
<1>1. /\ n > 0 /\ Op = module[1] /\ Len(module') = n - 1
      /\ \A i \in 1 .. n - 1 : module'[i] = module[i + 1]
  BY HeadFacts
<1>2. ASSUME NEW i \in 2 .. n + 1, WillListen(v, i) PROVE WillListen(v, i - 1)'
  <2>1. CASE [name |-> "search", visit |-> v] \in listens
    BY <2>1 DEF WillListen
  <2>2. ASSUME NEW j \in 1 .. i - 1,
               module[j] = [kind |-> "register", name |-> "search", visit |-> v]
        PROVE  WillListen(v, i - 1)'
    <3>1. CASE j = 1
      BY <1>1, <2>2, <3>1 DEF WillListen
    <3>2. CASE j # 1
      <4>1. PICK k \in Nat : k = j - 1
        OBVIOUS
      <4>2. k \in 1 .. n - 1 /\ k \in 1 .. (i - 1) - 1 /\ k + 1 = j
        BY <3>2, <4>1
      <4>3. module'[k] = [kind |-> "register", name |-> "search", visit |-> v]
        BY <1>1, <2>2, <4>2
      <4>. QED
        BY <4>2, <4>3 DEF WillListen
    <3>. QED
      BY <3>1, <3>2
  <2>. QED
    BY <1>2, <2>1, <2>2 DEF WillListen
<1>3. WillListen(v, n + 1) => WillListen(v, Len(module) + 1)'
  <2>1. n + 1 \in 2 .. n + 1 /\ Len(module') + 1 = (n + 1) - 1
    BY <1>1
  <2>. QED
    BY <1>2, <2>1
<1>4. ASSUME NEW i \in 1 .. n, Adds(module[i]), WillListen(v, i)
      PROVE  Comes(v)' \/ (Adds(Op) /\ WillListen(v, 1))
  <2>1. CASE i = 1
    BY <1>1, <1>4, <2>1
  <2>2. CASE i # 1
    <3>1. PICK k \in Nat : k = i - 1
      OBVIOUS
    <3>2. i \in 2 .. n + 1 /\ k \in 1 .. n - 1 /\ k \in 1 .. Len(module') /\ k + 1 = i
      BY <1>1, <2>2, <3>1
    <3>3. WillListen(v, k)'
      BY <1>2, <1>4, <3>1, <3>2
    <3>4. module'[k] = module[i]
      BY <1>1, <3>2
    <3>. QED
      BY <1>4, <3>2, <3>3, <3>4 DEF Comes
  <2>. QED
    BY <2>1, <2>2
<1>. QED
  BY <1>3, <1>4 DEF Comes

LEMMA DisplaysStep ==
    ASSUME IInv, Displays, [Next]_vars
    PROVE  Displays'
<1>0. /\ screen \in [name : {"list", "edit", "closing", "search", "leaving"},
                     visit : Visits, device : Devices]
      /\ busy \in BOOLEAN /\ hud \in BOOLEAN
      /\ timers \in Nat /\ Len(main) \in Nat /\ main \in Seq(News)
  BY HeadFacts DEF IInv, Types, ScreenType, FlagType
<1>1. PICK v \in Visits : v = screen.visit
  BY <1>0
<1>. DEFINE Listening == WillListen(v, Len(module) + 1)
<1>2. CASE screen.name # "search" /\ ~OpenSearch
  <2>1. busy = FALSE /\ hud = FALSE
    BY <1>0, <1>2 DEF Displays
  <2>2. ASSUME screen' = screen, busy' = busy, hud' = hud PROVE Displays'
    BY <1>2, <2>1, <2>2, NoDisplays
  <2>3. CASE RunRemove \/ Kill
    <3>1. screen' = List(screen.visit) /\ busy' = FALSE /\ hud' = FALSE
      BY <2>1, <2>3 DEF RunRemove, Kill, screenVars
    <3>. QED
      BY <3>1, NoDisplays DEF List
  <2>4. CASE EditHasGone \/ BackFromEdit \/ DidChange
    <3>1. busy' = FALSE /\ hud' = FALSE
      BY <2>1, <2>4 DEF EditHasGone, BackFromEdit, DidChange, screenVars
    <3>2. screen'.name # "search"
      BY <1>0, <1>2, <2>4 DEF EditHasGone, BackFromEdit, DidChange, Leave, SlideAway
    <3>. QED
      BY <3>1, <3>2, NoDisplays
  <2>5. CASE \E d \in Devices : OpenEdit(d)
    <3>1. screen'.name # "search" /\ busy' = FALSE /\ hud' = FALSE
      BY <2>1, <2>5 DEF OpenEdit, Open
    <3>. QED
      BY <3>1, NoDisplays
  <2>6. CASE \/ \E d \in Devices : DeleteRow(d) \/ \E u \in Users : AddByHand(d, u)
             \/ \E u \in Users : Save(u)
             \/ DeleteShown
    BY <2>2, <2>6 DEF DeleteRow, AddByHand, Save, DeleteShown, screenVars
  <2>7. CASE \/ HandOn \/ Announce \/ RunRegister \/ RunStorage \/ Merge \/ UNCHANGED vars
    BY <2>2, <2>7 DEF HandOn, Announce, RunRegister, RunStorage, Merge, screenVars, vars
  <2>8. CASE DidAdd \/ BusyOff
    <3>1. screen' = screen /\ busy' = FALSE /\ hud' = FALSE
      BY <2>1, <2>8 DEF DidAdd, BusyOff, screenVars
    <3>. QED
      BY <1>2, <3>1, NoDisplays
  <2>. QED
    BY <1>2, <2>3, <2>4, <2>5, <2>6, <2>7, <2>8
       DEF Next, User, ModuleQueue, MainQueue, AddFound, Refresh, BackFromSearch, Find, TimerFires
<1>3. CASE OpenSearch
  <2>1. screen.name = "list" /\ hud' = FALSE /\ busy' = TRUE /\ timers' = timers + 1
    BY <1>0, <1>3 DEF OpenSearch, Open, ShowBusy, Displays
  <2>2. screen'.name = "search"
    BY <1>3 DEF OpenSearch, Open
  <2>. PICK w : w = screen'.visit
    OBVIOUS
  <2>. PICK b : b = [kind |-> "register", name |-> "search", visit |-> w]
    OBVIOUS
  <2>3. module' = Append(module, b) /\ listens' = listens
    BY <1>3 DEF OpenSearch, Register
  <2>. PICK n \in Nat : n = Len(module)
    BY HeadFacts
  <2>4. Len(module') = n + 1 /\ module'[n + 1] = b
    <3>1. module \in Seq(Blocks)
      BY DEF IInv, Types, QueueType
    <3>. QED
      BY <2>3, <3>1, AppendProperties
  <2>5. WillListen(w, Len(module) + 1)'
    <3>1. n + 1 \in 1 .. Len(module') + 1 - 1
      BY <2>4
    <3>. QED
      BY <2>4, <3>1 DEF WillListen
  <2>6. timers' > 0
    BY <1>0, <2>1
  <2>. QED
    BY <2>1, <2>2, <2>5, <2>6 DEF Displays
<1>4. CASE screen.name = "search"
  <2>1. Listening /\ (hud => Told \/ Comes(v)) /\ (busy => timers > 0 \/ Off(v))
    BY <1>1, <1>4 DEF Displays
  <2>2. ASSUME screen' = screen, Listening', hud' => Told' \/ Comes(v)',
               busy' => timers' > 0 \/ Off(v)'
        PROVE  Displays'
    BY <1>1, <1>4, <2>2, Zenon DEF Displays
  <2>3. CASE Kill \/ BackFromSearch \/ RunRemove
    <3>1. ~RunRemove
      <4>1. ASSUME module # <<>>, Op.kind = "remove" PROVE FALSE
        BY <1>4, <4>1, OpFirst DEF IInv, Leaving
      <4>. QED
        BY <4>1 DEF RunRemove
    <3>2. screen'.name # "search" /\ busy' = FALSE /\ hud' = FALSE
      BY <1>0, <2>3, <3>1 DEF Kill, BackFromSearch, List, Leave
    <3>. QED
      BY <3>2, NoDisplays
  <2>4. CASE \E d \in Devices : AddFound(d)
    <3>. PICK d \in Devices : AddFound(d)
      BY <2>4
    <3>. PICK b : b = [kind |-> "add", id |-> d, user |-> NoUser, visit |-> screen.visit]
      OBVIOUS
    <3>1. /\ module' = Append(module, b) /\ listens' = listens /\ screen' = screen
          /\ UNCHANGED <<main, busy, timers>>
      BY DEF AddFound, Request
    <3>2. b \in Blocks /\ Adds(b)
      BY <1>0 DEF Blocks, AnyUser, Adds
    <3>3. Listening' /\ Comes(v)'
      BY <2>1, <3>1, <3>2, ModuleMore
    <3>4. busy' => timers' > 0 \/ Off(v)'
      BY <2>1, <3>1 DEF Off
    <3>. QED
      BY <2>2, <3>1, <3>3, <3>4
  <2>5. CASE Refresh
    <3>1. screen' = screen /\ UNCHANGED <<hud, module, listens, main>> /\ timers' = timers + 1
      BY <2>5 DEF Refresh, ShowBusy
    <3>2. timers' > 0
      BY <1>0, <3>1
    <3>3. Listening' /\ (hud' => Told' \/ Comes(v)')
      BY <2>1, <3>1 DEF WillListen, Told, Comes
    <3>. QED
      BY <2>2, <3>1, <3>2, <3>3
  <2>6. ASSUME screen' = screen, UNCHANGED <<hud, busy, module, listens>>,
               Told => Told', Off(v) => Off(v)', timers' = timers \/ (busy => Off(v)')
        PROVE  Displays'
    <3>1. Listening' /\ (Comes(v) => Comes(v)')
      BY <2>1, <2>6 DEF WillListen, Comes
    <3>. QED
      BY <2>1, <2>2, <2>6, <3>1
  <2>7. ASSUME screen' = screen, UNCHANGED <<hud, busy, module, listens>>,
               NEW m \in News, main' = Append(main, m),
               timers' = timers \/ m = [kind |-> "busyOff", visit |-> v]
        PROVE  Displays'
    <3>. PICK n \in Nat : n = Len(main)
      BY <1>0
    <3>1. /\ Len(main') = n + 1 /\ main'[n + 1] = m
          /\ \A i \in 1 .. n : main'[i] = main[i]
      BY <1>0, <2>7, AppendSeq
    <3>2. (Told => Told') /\ (Off(v) => Off(v)')
      <4>1. Len(main') \in Nat /\ Len(main) <= Len(main')
        BY <3>1
      <4>. QED
        BY <3>1, <4>1, MainMore
    <3>3. m = [kind |-> "busyOff", visit |-> v] => Off(v)'
      <4>1. n + 1 \in 1 .. Len(main')
        BY <3>1
      <4>. QED
        BY <3>1, <4>1 DEF Off
    <3>. QED
      BY <2>6, <2>7, <3>2, <3>3
  <2>8. CASE (\E d \in Devices : Find(d)) \/ TimerFires
    <3>. PICK m : m = [kind |-> "busyOff", visit |-> v]
      OBVIOUS
    <3>1. m \in News
      BY DEF News
    <3>2. screen' = screen /\ UNCHANGED <<hud, busy, module, listens>>
      BY <2>8 DEF Find, TimerFires
    <3>3. CASE main' = Append(main, m)
      BY <2>7, <3>1, <3>2, <3>3
    <3>4. CASE main' # Append(main, m)
      <4>1. main' = main /\ busy = FALSE
        BY <1>0, <1>1, <2>8, <3>4 DEF Find, TimerFires
      <4>. QED
        BY <2>6, <3>2, <4>1 DEF Told, Off
    <3>. QED
      BY <3>3, <3>4
  <2>9. CASE RunStorage
    <3>1. screen' = screen /\ UNCHANGED <<hud, busy, timers, module, listens>>
      BY <2>9 DEF RunStorage, screenVars
    <3>2. CASE main' = main
      BY <2>6, <3>1, <3>2 DEF Told, Off
    <3>3. CASE main' # main
      <4>1. PICK m \in News : main' = Append(main, m)
        BY <2>9, <3>3, Stored
      <4>. QED
        BY <2>7, <3>1, <4>1
    <3>. QED
      BY <3>2, <3>3
  <2>10. CASE HandOn
    <3>1. screen' = screen /\ UNCHANGED <<hud, busy, timers, main>>
      BY <2>10 DEF HandOn, screenVars
    <3>2. Listening' /\ (Comes(v) => Comes(v)')
      BY <2>1, <2>10, ModuleHandOn
    <3>3. (Told => Told') /\ (Off(v) => Off(v)')
      BY <3>1 DEF Told, Off
    <3>. QED
      BY <2>1, <2>2, <3>1, <3>2, <3>3
  <2>11. CASE RunRegister
    <3>1. /\ screen' = screen /\ UNCHANGED <<hud, busy, timers, main>>
          /\ module # <<>> /\ module' = Tail(module) /\ Op.kind = "register"
          /\ listens' = listens \union {[name |-> Op.name, visit |-> Op.visit]}
      BY <2>11 DEF RunRegister, ModuleDone, screenVars
    <3>2. /\ listens \subseteq listens'
          /\ Op = [kind |-> "register", name |-> "search", visit |-> v] =>
                [name |-> "search", visit |-> v] \in listens'
      BY <3>1
    <3>3. ~Adds(Op)
      BY <3>1 DEF Adds
    <3>4. Listening' /\ (Comes(v) => Comes(v)')
      BY <2>1, <3>1, <3>2, <3>3, ModuleLess
    <3>5. (Told => Told') /\ (Off(v) => Off(v)')
      BY <3>1 DEF Told, Off
    <3>. QED
      BY <2>1, <2>2, <3>1, <3>4, <3>5
  <2>12. CASE Announce
    <3>1. /\ screen' = screen /\ UNCHANGED <<hud, busy, timers, listens>>
          /\ module # <<>> /\ module' = Tail(module) /\ Op.kind = "announce"
      BY <2>12 DEF Announce, ModuleDone, screenVars
    <3>2. PICK q \in Seq(News) :
             /\ main' = main \o q
             /\ \A i \in 1 .. Len(q) : q[i].kind = Op.of
             /\ (\E l \in listens : Hears(l.name, Op.of)) => Len(q) > 0
      BY <2>12, Announced
    <3>3. /\ Len(q) \in Nat /\ Len(main') = Len(main) + Len(q)
          /\ \A i \in 1 .. Len(main) : main'[i] = main[i]
          /\ \A i \in 1 .. Len(q) : main'[Len(main) + i] = q[i]
      BY <1>0, <3>2, ConcatSeq
    <3>4. (Told => Told') /\ (Off(v) => Off(v)')
      <4>1. Len(main') \in Nat /\ Len(main) <= Len(main')
        BY <1>0, <3>3
      <4>. QED
        BY <1>0, <3>3, <4>1, MainMore
    <3>5. ASSUME Adds(Op), WillListen(v, 1) PROVE Told'
      <4>1. Op.of = "add" /\ [name |-> "search", visit |-> v] \in listens
        BY <3>1, <3>5 DEF Adds, WillListen
      <4>2. Hears("search", Op.of)
        BY <4>1 DEF Hears
      <4>3. Len(q) > 0
        BY <3>2, <4>1, <4>2
      <4>4. 1 \in 1 .. Len(q) /\ Len(main) + 1 \in 1 .. Len(main')
        BY <1>0, <3>3, <4>3
      <4>5. main'[Len(main) + 1].kind = "add"
        BY <3>2, <3>3, <4>1, <4>4
      <4>. QED
        BY <4>4, <4>5 DEF Told
    <3>6. Listening' /\ (Comes(v) => Comes(v)' \/ (Adds(Op) /\ WillListen(v, 1)))
      <4>1. Op # [kind |-> "register", name |-> "search", visit |-> v]
        BY <3>1
      <4>. QED
        BY <2>1, <3>1, <4>1, ModuleLess
    <3>. QED
      BY <2>1, <2>2, <3>1, <3>4, <3>5, <3>6
  <2>13. CASE DidAdd \/ DidChange \/ BusyOff \/ Merge
    <3>1. /\ screen' = screen /\ UNCHANGED <<timers, module, listens>>
          /\ main # <<>> /\ main' = Tail(main)
      BY <1>4, <2>13 DEF DidAdd, DidChange, BusyOff, Merge, MainTakes, screenVars
    <3>2. hud' => hud /\ Block.kind # "add"
      BY <2>13 DEF DidAdd, DidChange, BusyOff, Merge, MainTakes
    <3>3. busy' => busy /\ Block # [kind |-> "busyOff", visit |-> v]
      <4>1. CASE BusyOff
        <5>1. busy' = (busy /\ screen.visit # Block.visit)
          BY <4>1 DEF BusyOff
        <5>2. Block = [kind |-> "busyOff", visit |-> v] => ~(screen.visit # Block.visit)
          BY <1>1
        <5>. QED
          BY <5>1, <5>2, Zenon
      <4>2. CASE ~BusyOff
        <5>1. busy' = busy /\ Block.kind # "busyOff"
          BY <2>13, <4>2 DEF DidAdd, DidChange, Merge, MainTakes, screenVars
        <5>. QED
          BY <5>1
      <4>. QED
        BY <4>1, <4>2
    <3>4. /\ Told => Told' \/ Block.kind = "add"
          /\ Off(v) => Off(v)' \/ Block = [kind |-> "busyOff", visit |-> v]
      BY <3>1, MainLess
    <3>5. Listening' /\ (Comes(v) => Comes(v)')
      BY <2>1, <3>1 DEF WillListen, Comes
    <3>. QED
      BY <2>1, <2>2, <3>1, <3>2, <3>3, <3>4, <3>5
  <2>14. CASE UNCHANGED vars
    BY <2>6, <2>14 DEF vars, Told, Off
  <2>15. CASE \/ \E d \in Devices : \/ \E u \in Users : AddByHand(d, u)
                                    \/ DeleteRow(d) \/ OpenEdit(d)
              \/ \E u \in Users : Save(u)
              \/ DeleteShown \/ OpenSearch \/ BackFromEdit \/ EditHasGone
    BY <1>4, <2>15 DEF AddByHand, DeleteRow, OpenEdit, Open, Save, DeleteShown, OpenSearch,
                       BackFromEdit, EditHasGone
  <2>16. CASE User
    BY <2>3, <2>4, <2>5, <2>15, <2>16 DEF User
  <2>17. CASE ModuleQueue \/ MainQueue
    BY <2>3, <2>10, <2>11, <2>12, <2>13, <2>15, <2>17 DEF ModuleQueue, MainQueue
  <2>. QED
    BY <2>3, <2>8, <2>9, <2>14, <2>16, <2>17 DEF Next
<1>. QED
  BY <1>2, <1>3, <1>4
-----------------------------------------------------------------------------
(* The theorems.                                                           *)

LEMMA InitInv == Init => IInv
<1>. SUFFICES ASSUME Init PROVE IInv
  OBVIOUS
<1>. USE DEF Init
<1>1. /\ File \in Seq(Row) /\ EachOnce(File) /\ MaxTouches \in Nat
      /\ (CHOOSE d \in Devices : TRUE) \in Devices
  BY DeviceAssumption
<1>2. /\ Len(module) = 0 /\ Len(storage) = 0 /\ Len(main) = 0 /\ Len(draft) = 0
      /\ module \in Seq(Blocks) /\ storage \in Seq(Changes) /\ main \in Seq(News)
      /\ draft \in Seq(AnyUser)
  BY EmptySeq
<1>3. ScreenType
  BY <1>1, <1>2 DEF ScreenType, List, Visits
<1>4. FoundType
  <2>1. found \in [{} -> BOOLEAN]
    BY DEF NoneFound
  <2>. QED
    BY <2>1 DEF FoundType
<1>5. FlagType
  BY DEF FlagType
<1>6. QueueType
  BY <1>2, FS_EmptySet DEF QueueType
<1>7. RowType
  BY <1>1 DEF RowType
<1>8. SeenType
  <2>1. PICK w : w = RowsAsWish(File)
    OBVIOUS
  <2>2. w \in AnyWish
    BY <1>1, <2>1, RowsAsWishFacts
  <2>3. <<w>> \in Seq(AnyWish) /\ Len(<<w>>) = 1
    BY <2>2
  <2>4. seen = [wishes |-> <<w>>, known |-> {}, asked |-> {}, closed |-> {}, typed |-> {}]
    BY <2>1
  <2>. QED
    BY <2>3, <2>4 DEF SeenType
<1>9. Types
  BY <1>3, <1>4, <1>5, <1>6, <1>7, <1>8 DEF Types
<1>10. Past
  BY <1>2 DEF Past, PastBlocks, PastScreens, PastNews
<1>11. Leaving /\ Closing
  BY <1>2 DEF Leaving, Closing, Fresh, List
<1>12. Known /\ ClosesForItsOwn
  BY DEF Known, ClosesForItsOwn
<1>13. Shown
  BY <1>2 DEF Shown
<1>14. Followed
  BY <1>1, FollowedRestart
<1>. QED
  BY <1>9, <1>10, <1>11, <1>12, <1>13, <1>14 DEF IInv

LEMMA NextInv == IInv /\ [Next]_vars => IInv'
BY TypesStep, PastStep, LeavingStep, ClosingStep, KnownStep, ShownStep, FollowedNext, ClosesStep
   DEF IInv

\* The inductive invariant holds at all times.
THEOREM InvariantHolds == Spec => []IInv
BY InitInv, NextInv, PTL DEF Spec

LEMMA InvType == IInv => DeviceTypeOK
<1>. SUFFICES ASSUME IInv PROVE DeviceTypeOK
  OBVIOUS
<1>1. /\ ScreenType /\ FoundType /\ FlagType /\ QueueType /\ RowType
      /\ MaxTouches \in Nat /\ Len(module) \in Nat /\ DOMAIN module = 1 .. Len(module)
  BY DeviceAssumption, LenProperties DEF IInv, Types, QueueType
<1>2. DOMAIN found \subseteq Devices
  BY <1>1 DEF FoundType
<1>3. timers \in 0 .. MaxTouches
  BY <1>1 DEF ScreenType, Visits
<1>4. screen.name = "leaving" <=> \E i \in DOMAIN module : module[i].kind = "remove"
  BY <1>1 DEF IInv, Leaving
<1>. QED
  BY <1>1, <1>2, <1>3, <1>4
     DEF DeviceTypeOK, ScreenType, FlagType, QueueType, RowType, Visits

\* Every variable has its type, and the main thread waits in a screen it leaves
\* exactly as long as moduleQueue has that screen to take off
\* (EditDeviceViewController.m 89-93).
THEOREM TypeCorrect == Spec => []DeviceTypeOK
BY InvariantHolds, InvType, PTL

LEMMA InvFollows == IInv => StoreFollowsRequests
<1>. SUFFICES ASSUME IInv PROVE StoreFollowsRequests
  OBVIOUS
<1>1. /\ Types /\ Followed /\ Shown /\ SeenType /\ RowType /\ main \in Seq(News)
  BY DEF IInv, Types, QueueType
<1>2. /\ Num \in Nat \ {0} /\ Wish = seen.wishes[Num] /\ Wish \in AnyWish
      /\ DOMAIN seen.wishes = 1 .. Num
  BY <1>1, WishesType
<1>3. \E n \in DOMAIN seen.wishes : Follows(saved, n)
  BY <1>1, <1>2 DEF Followed
<1>4. ASSUME AllDone PROVE RowsAsWish(saved) = Wish
  <2>1. Follows(saved, Num)
    BY <1>1, <1>4, DoneFollows
  <2>2. saved \in Seq(Row) /\ EachOnce(saved) /\ IdsOf(saved) = DOMAIN Wish
    BY <1>1, <1>2, <2>1 DEF Follows, RowType
  <2>3. \A r \in Range(saved) : r.user = Wish[r.id]
    BY <1>2, <2>1 DEF Follows, Num
  <2>4. /\ RowsAsWish(saved) \in AnyWish /\ DOMAIN RowsAsWish(saved) = DOMAIN Wish
        /\ \A r \in Range(saved) : RowsAsWish(saved)[r.id] = r.user
    BY <2>2, RowsAsWishFacts
  <2>5. \A d \in DOMAIN Wish : RowsAsWish(saved)[d] = Wish[d]
    BY <2>2, <2>3, <2>4 DEF IdsOf
  <2>6. PICK w : w = RowsAsWish(saved)
    OBVIOUS
  <2>7. PICK D : w \in [D -> AnyUser]
    BY <2>4, <2>6 DEF AnyWish
  <2>8. PICK E : Wish \in [E -> AnyUser]
    BY <1>2 DEF AnyWish
  <2>9. PICK x : x = Wish
    OBVIOUS
  <2>10. /\ w \in [D -> AnyUser] /\ x \in [E -> AnyUser] /\ DOMAIN w = DOMAIN x
         /\ \A d \in DOMAIN x : w[d] = x[d]
    BY <2>4, <2>5, <2>6, <2>7, <2>8, <2>9
  <2>11. w = x
    BY <2>10
  <2>. QED
    BY <2>6, <2>9, <2>11
<1>5. main = <<>> => shown = saved
  <2>. SUFFICES ASSUME main = <<>> PROVE shown = saved
    OBVIOUS
  <2>1. Len(main) = 0
    OBVIOUS
  <2>. QED
    BY <1>1, <2>1 DEF Shown
<1>. QED
  BY <1>3, <1>4, <1>5 DEF StoreFollowsRequests

\* The file is at any time the effect of the first n requests since the queues
\* were last empty, each device once, but for a user name that a screen filled
\* in late; and the effect of all of them, in the list as well, when nothing is
\* under way, however the two queues, the screens and a kill interleave
\* (AiertDeviceCoreDataStorage.m 75-141, AiertDeviceCoreDataManager.m 246-257).
THEOREM FollowsRequests == Spec => []StoreFollowsRequests
BY InvariantHolds, InvFollows, PTL

LEMMA InvKnown == IInv => SearchKeepsKnown
BY DEF IInv, Known, KnownRow, SearchKeepsKnown

\* A search does not take the user name from a device that was in the store
\* when its screen opened with nothing under way: what it knows is saved and
\* shown as added, and no request for it is on its way
\* (SearchDeviceInLanViewController.m 361-363).
THEOREM KeepsKnown == Spec => []SearchKeepsKnown
BY InvariantHolds, InvKnown, PTL

LEMMA InvCloses == IInv => ClosesForItsOwn
BY DEF IInv

\* An announcement closes an edit screen only if the screen has made a request
\* of its own (EditDeviceViewController.m 83-93).
THEOREM ClosesOwn == Spec => []ClosesForItsOwn
BY InvariantHolds, InvCloses, PTL

LEMMA InitDisplays == Init => Displays
BY DEF Init, Displays, List

LEMMA InvDisplays == Displays => DisplayEndUnderWay
BY DEF Displays, Told, Comes, Off, DisplayEndUnderWay

\* What ends a display of the search screen is under way as long as it is on: a
\* timer or an answer for busy, and for "adding" an announcement or an addition
\* that is announced after the screen has registered
\* (SearchDeviceInLanViewController.m 251, 302-321, 352-357).
THEOREM DisplaysGoOut == Spec => []DisplayEndUnderWay
<1>1. Init => IInv /\ Displays
  BY InitInv, InitDisplays
<1>2. IInv /\ Displays /\ [Next]_vars => (IInv /\ Displays)'
  BY NextInv, DisplaysStep
<1>3. IInv /\ Displays => DisplayEndUnderWay
  BY InvDisplays
<1>. QED
  BY <1>1, <1>2, <1>3, PTL DEF Spec
=============================================================================
