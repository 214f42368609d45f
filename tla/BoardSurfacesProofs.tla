------------------------- MODULE BoardSurfacesProofs -------------------------
(***************************************************************************)
(* Proofs about the whiteboards of one user: for any panels, windows and   *)
(* pages, any rooms and any number of strokes.                             *)
(*                                                                         *)
(* Three of the properties say that a stroke is seen only where it may be. *)
(* A family F says for each key of the storage which strokes may be under  *)
(* it; Sorted(F) says that boards, storage and every message on its way    *)
(* keep to F, and is inductive for any F that allows what is newly drawn   *)
(* (StepSorts).  The properties are three such families: any stroke, those *)
(* of the key's mode, those of the key's room.  As strokes are drawn the   *)
(* family grows, and what was sorted stays so (Wider).                     *)
(*                                                                         *)
(* That a shared stroke reaches the room needs that it is published or     *)
(* still told of in a queue of a service (OnItsWay); that a stored stroke  *)
(* stays, that every event a panel still reads is the echo of a write of   *)
(* its own, so that its board is what is stored (Alone).                   *)
(***************************************************************************)
EXTENDS BoardSurfaces, SequenceTheorems, FiniteSetTheorems, WellFoundedInduction, TLAPS

\* What a notebook for the strokes S can hold, and what a message can say of it.
Book(S) == [strokes : SUBSET S, redo : Seq(S)]
ChangesOf(S) == {Put(n) : n \in S} \cup {Take(n) : n \in Strokes} \cup {Wipe}

KeyIn(r, m) == IF m = Personal THEN Personal ELSE r

\* Messages that put a stroke only where F allows it.
Events(F) ==
    {e \in [key : Keys, value : Notebook] : e.value \in Book(F[e.key])}
    \cup [key : {"mode"}, value : Modes]
Notices(F) ==
    {t \in [room : Rooms, change : ChangesOf(Strokes)] : t.change \in ChangesOf(F[t.room])}
Copies(F) ==
    {t \in [scope : Modes, room : Rooms, change : ChangesOf(Strokes)] :
        t.change \in ChangesOf(F[KeyIn(t.room, t.scope)])}

Where ==
    /\ room \in [Services -> Rooms] /\ mode \in [Surfaces -> Modes]
    /\ hydrated \in [Services -> BOOLEAN] /\ dirty \in [Services -> BOOLEAN]
    /\ drawn \in Seq([room : Rooms, mode : Modes]) /\ Len(drawn) <= MaxStrokes
    /\ removed \subseteq Strokes

Shelved(F) ==
    /\ board \in [Surfaces -> [Modes -> Notebook]]
    /\ \A x \in Surfaces, m \in Modes : board[x][m] \in Book(F[KeyOf(x, m)])
    /\ stored \in [Keys -> Notebook]
    /\ \A k \in Keys : stored[k] \in Book(F[k])

Sorted(F) ==
    /\ Where /\ Shelved(F)
    /\ changes \in [Surfaces -> Seq(Events(F))]
    /\ runtime \in [Surfaces -> Seq(Notices(F))]
    /\ bus \in [Services -> Seq(Copies(F))]
    /\ published \subseteq UNION {F[r] : r \in Rooms}

Families == [Keys -> SUBSET Strokes]

USE DEF Keys, Surfaces

LEMMA FamilyOf ==
    ASSUME NEW F \in Families, NEW k \in Keys
    PROVE  F[k] \subseteq Strokes
BY DEF Families

LEMMA SeqOfMore == ASSUME NEW S, NEW T, S \subseteq T PROVE Seq(S) \subseteq Seq(T)
BY SeqDef

LEMMA KeysAre ==
    ASSUME SurfacesAssumption
    PROVE  /\ Personal \in Keys /\ Rooms \subseteq Keys /\ Personal \notin Rooms
           /\ "mode" \notin Keys /\ Home \in Keys
           /\ \A r \in Rooms, m \in Modes : KeyIn(r, m) \in Keys
           /\ Personal \in Modes /\ "collaborative" \in Modes
BY DEF SurfacesAssumption, Personal, KeyIn, Modes

LEMMA KeyOfIs ==
    ASSUME SurfacesAssumption, Where, NEW x \in Surfaces
    PROVE  /\ RoomOf(x) \in Rooms
           /\ \A m \in Modes : KeyOf(x, m) = KeyIn(RoomOf(x), m) /\ KeyOf(x, m) \in Keys
           /\ KeyOf(x, "collaborative") = RoomOf(x) /\ KeyOf(x, Personal) = Personal
BY KeysAre DEF SurfacesAssumption, Where, RoomOf, KeyOf, KeyIn, Personal

\* Books of more strokes hold more.
LEMMA BookGrows ==
    ASSUME NEW S, NEW T, S \subseteq T
    PROVE  Book(S) \subseteq Book(T) /\ ChangesOf(S) \subseteq ChangesOf(T)
BY SeqOfMore DEF Book, ChangesOf

LEMMA BookIs ==
    ASSUME NEW S, S \subseteq Strokes
    PROVE  /\ Book(S) \subseteq Notebook /\ ChangesOf(S) \subseteq ChangesOf(Strokes)
           /\ Blank \in Book(S)
           /\ \A b \in Book(S) : b.strokes \subseteq S /\ b.redo \in Seq(S)
BY BookGrows, EmptySeq DEF Book, Notebook, Blank

LEMMA SorterGrows ==
    ASSUME SurfacesAssumption, NEW F \in Families, NEW G \in Families,
           \A k \in Keys : F[k] \subseteq G[k]
    PROVE  /\ Events(F) \subseteq Events(G) /\ Notices(F) \subseteq Notices(G)
           /\ Copies(F) \subseteq Copies(G)
<1>1. \A k \in Keys : Book(F[k]) \subseteq Book(G[k]) /\ ChangesOf(F[k]) \subseteq ChangesOf(G[k])
  BY BookGrows
<1>2. Events(F) \subseteq Events(G)  BY <1>1 DEF Events
<1>3. Notices(F) \subseteq Notices(G)  BY <1>1, KeysAre DEF Notices
<1>4. Copies(F) \subseteq Copies(G)  BY <1>1, KeysAre DEF Copies
<1> QED BY <1>2, <1>3, <1>4

\* What is sorted stays so when more is allowed.
LEMMA Wider ==
    ASSUME SurfacesAssumption, NEW F \in Families, NEW G \in Families, Sorted(F),
           \A k \in Keys : F[k] \subseteq G[k]
    PROVE  Sorted(G)
<1>1. Shelved(G)
  BY BookGrows, KeyOfIs DEF Sorted, Shelved
<1>2. /\ Seq(Events(F)) \subseteq Seq(Events(G)) /\ Seq(Notices(F)) \subseteq Seq(Notices(G))
      /\ Seq(Copies(F)) \subseteq Seq(Copies(G))
  BY SorterGrows, SeqOfMore
<1>3. UNION {F[r] : r \in Rooms} \subseteq UNION {G[r] : r \in Rooms}
  BY KeysAre
<1> QED BY <1>1, <1>2, <1>3 DEF Sorted

-----------------------------------------------------------------------------
(* Books *)

\* What an edit makes of a book.
LEMMA BookOf ==
    ASSUME NEW S, NEW kept \in SUBSET S, NEW undone \in Seq(S)
    PROVE  [strokes |-> kept, redo |-> undone] \in Book(S)
BY DEF Book

LEMMA BookChanged ==
    ASSUME NEW S, S \subseteq Strokes, NEW b \in Book(S), NEW c \in ChangesOf(S)
    PROVE  Changed(b, c) \in Book(S)
<1>1. b.strokes \subseteq S /\ b.redo \in Seq(S)  BY BookIs
<1>2. b = [strokes |-> b.strokes, redo |-> b.redo]  BY DEF Book
<1>3. CASE \E n \in S : c = Put(n)
  <2>1. PICK n \in S : c = Put(n)  BY <1>3
  <2>2. Changed(b, c) = [b EXCEPT !.strokes = @ \cup {n}]  BY <2>1 DEF Changed, Put
  <2>3. [b EXCEPT !.strokes = @ \cup {n}] \in Book(S)  BY <1>1 DEF Book
  <2> QED BY <2>2, <2>3
<1>4. CASE \E n \in Strokes : c = Take(n)
  <2>1. PICK n \in Strokes : c = Take(n)  BY <1>4
  <2>2. Changed(b, c) = [b EXCEPT !.strokes = @ \ {n}]  BY <2>1 DEF Changed, Take
  <2>3. [b EXCEPT !.strokes = @ \ {n}] \in Book(S)  BY <1>1 DEF Book
  <2> QED BY <2>2, <2>3
<1>5. CASE c = Wipe
  BY <1>5, BookIs DEF Changed, Wipe
<1> QED BY <1>3, <1>4, <1>5 DEF ChangesOf

LEMMA SeqOfSet ==
    ASSUME NEW S, IsFiniteSet(S)
    PROVE  SetToSeq(S) \in Seq(S)
<1>1. PICK n \in Nat : ExistsBijection(1..n, S)
  BY FS_NatBijection
<1>2. Cardinality(S) = n
  BY <1>1, FS_CountingElements
<1>3. \E f \in [1..n -> S] : IsInjective(f)
  <2>1. PICK f \in Bijection(1..n, S) : TRUE
    BY <1>1 DEF ExistsBijection
  <2> QED BY <2>1 DEF Bijection, Injection, IsInjective
<1>4. SetToSeq(S) \in [1..n -> S]
  BY <1>2, <1>3 DEF SetToSeq
<1> QED BY <1>4, SeqDef

LEMMA StrokesFinite ==
    ASSUME SurfacesAssumption, NEW S, S \subseteq Strokes
    PROVE  IsFiniteSet(S)
<1>1. MaxStrokes \in Nat  BY DEF SurfacesAssumption
<1>2. IsFiniteSet(1..MaxStrokes)  BY <1>1, FS_Interval
<1> QED BY <1>2, FS_Subset DEF Strokes

-----------------------------------------------------------------------------
(* What every change of a notebook ends with *)

LEMMA TellKeeps ==
    ASSUME NEW X, NEW S, NEW queues \in [X -> Seq(S)], NEW targets, NEW msg,
           msg \in S \/ targets \cap X = {}
    PROVE  Tell(queues, targets, msg) \in [X -> Seq(S)]
<1>1. \A x \in X : x \in targets => Append(queues[x], msg) \in Seq(S)
  BY AppendProperties
<1> QED BY <1>1 DEF Tell

LEMMA TakenKeeps ==
    ASSUME NEW X, NEW S, NEW queues \in [X -> Seq(S)], NEW x \in X, queues[x] # <<>>
    PROVE  Taken(queues, x) \in [X -> Seq(S)] /\ First(queues, x) \in S
<1>1. Tail(queues[x]) \in Seq(S) /\ Head(queues[x]) \in S
  BY HeadTailProperties
<1> QED BY <1>1 DEF Taken, First

LEMMA WriteKeeps ==
    ASSUME SurfacesAssumption, NEW F \in Families, NEW x, NEW k \in Keys,
           NEW b \in Book(F[k]), Shelved(F), changes \in [Surfaces -> Seq(Events(F))],
           write(x, k, b)
    PROVE  /\ stored' \in [Keys -> Notebook] /\ \A j \in Keys : stored'[j] \in Book(F[j])
           /\ changes' \in [Surfaces -> Seq(Events(F))]
<1>1. F[k] \subseteq Strokes /\ b \in Notebook
  <2>1. F[k] \subseteq Strokes  BY FamilyOf
  <2> QED BY <2>1, BookIs
<1>2. stored' = [stored EXCEPT ![k] = b]  BY DEF write
<1>3. stored' \in [Keys -> Notebook] /\ \A j \in Keys : stored'[j] \in Book(F[j])
  BY <1>1, <1>2 DEF Shelved
<1>4. [key |-> k, value |-> b] \in Events(F)
  <2>1. [key |-> k, value |-> b] \in [key : Keys, value : Notebook]  BY <1>1
  <2> QED BY <2>1 DEF Events
<1>5. changes' = changes \/ changes' = Tell(changes, Surfaces, [key |-> k, value |-> b])
  BY DEF write
<1>6. Tell(changes, Surfaces, [key |-> k, value |-> b]) \in [Surfaces -> Seq(Events(F))]
  BY <1>4, TellKeeps
<1> QED BY <1>3, <1>5, <1>6

LEMMA SaveKeeps ==
    ASSUME SurfacesAssumption, NEW F \in Families, Sorted(F),
           NEW x \in Surfaces, NEW m \in Modes, NEW b \in Book(F[KeyOf(x, m)]),
           save(x, m, b), room' = room
    PROVE  /\ Shelved(F)' /\ changes' \in [Surfaces -> Seq(Events(F))]
           /\ dirty' \in [Services -> BOOLEAN]
<1>1. KeyOf(x, m) \in Keys /\ b \in Notebook
  <2>1. KeyOf(x, m) \in Keys  BY KeyOfIs DEF Sorted
  <2>2. F[KeyOf(x, m)] \subseteq Strokes  BY <2>1, FamilyOf
  <2> QED BY <2>1, <2>2, BookIs
<1>2. \A y \in Surfaces, n \in Modes : KeyOf(y, n)' = KeyOf(y, n)
  BY DEF KeyOf, RoomOf
<1>3. board' = [board EXCEPT ![x][m] = b]  BY DEF save
<1>4. /\ board' \in [Surfaces -> [Modes -> Notebook]]
      /\ \A y \in Surfaces, n \in Modes : board'[y][n] \in Book(F[KeyOf(y, n)])
  BY <1>1, <1>3 DEF Sorted, Shelved
<1>5. CASE Waiting(x, m)
  <2>1. UNCHANGED <<stored, changes>> /\ dirty' = [dirty EXCEPT ![x] = TRUE]
    BY <1>5 DEF save
  <2> QED BY <2>1, <1>2, <1>4 DEF Sorted, Shelved, Where
<1>6. CASE ~Waiting(x, m)
  <2>1. write(x, KeyOf(x, m), b) /\ dirty' = dirty  BY <1>6 DEF save
  <2>2. /\ stored' \in [Keys -> Notebook] /\ \A j \in Keys : stored'[j] \in Book(F[j])
        /\ changes' \in [Surfaces -> Seq(Events(F))]
    BY <2>1, <1>1, WriteKeeps DEF Sorted
  <2> QED BY <2>1, <2>2, <1>2, <1>4 DEF Sorted, Shelved, Where
<1> QED BY <1>5, <1>6

\* A service tells of its personal strokes in the name of its room.
LEMMA RuntimeKeeps ==
    ASSUME SurfacesAssumption, NEW F \in Families, Sorted(F), NEW x \in Surfaces,
           NEW c \in ChangesOf(Strokes), c \in ChangesOf(F[RoomOf(x)]) \/ Surfaces = {x},
           broadcastRuntime(x, c)
    PROVE  runtime' \in [Surfaces -> Seq(Notices(F))]
<1> DEFINE msg == [room |-> RoomOf(x), change |-> c]
<1>1. RoomOf(x) \in Rooms  BY KeyOfIs DEF Sorted
<1>2. c \in ChangesOf(F[RoomOf(x)]) => msg \in Notices(F)
  BY <1>1 DEF Notices
<1>3. Surfaces = {x} => (Surfaces \ {x}) \cap Surfaces = {}
  OBVIOUS
<1>4. runtime' = Tell(runtime, Surfaces \ {x}, msg)
  BY DEF broadcastRuntime
<1> HIDE DEF msg
<1> QED BY <1>2, <1>3, <1>4, TellKeeps DEF Sorted

LEMMA BusKeeps ==
    ASSUME SurfacesAssumption, NEW F \in Families, Sorted(F), NEW x \in Surfaces,
           NEW m \in Modes, NEW c \in ChangesOf(Strokes), c \in ChangesOf(F[KeyOf(x, m)]),
           broadcastLocal(x, m, c)
    PROVE  bus' \in [Services -> Seq(Copies(F))]
<1> DEFINE msg == [scope |-> m, room |-> RoomOf(x), change |-> c]
<1>1. RoomOf(x) \in Rooms /\ KeyOf(x, m) = KeyIn(RoomOf(x), m)  BY KeyOfIs DEF Sorted
<1>2. msg \in Copies(F)
  BY <1>1 DEF Copies
<1>3. bus' = bus \/ bus' = Tell(bus, Services \ {x}, msg)
  BY DEF broadcastLocal
<1>4. bus \in [Services -> Seq(Copies(F))]  BY DEF Sorted
<1> HIDE DEF msg
<1>5. Tell(bus, Services \ {x}, msg) \in [Services -> Seq(Copies(F))]
  BY <1>2, <1>4, TellKeeps
<1> QED BY <1>3, <1>4, <1>5

\* Personal strokes may be told of: nobody listens, or they may be shared.
Discreet(F) ==
    \A s \in Services \cap Drawers : Surfaces = {s} \/ F[Personal] \subseteq F[room[s]]

LEMMA Shared ==
    ASSUME SurfacesAssumption, NEW F \in Families, Sorted(F), Discreet(F),
           NEW x \in Drawers \cap Surfaces, NEW m \in Modes, Tells(x, m)
    PROVE  Surfaces = {x} \/ F[KeyOf(x, m)] \subseteq F[RoomOf(x)]
<1>1. m = Personal \/ m = "collaborative"  BY DEF Modes, Personal
<1>2. CASE m = "collaborative"  BY <1>2, KeyOfIs DEF Sorted
<1>3. CASE m = Personal
  <2>1. x \in Services  BY <1>3 DEF Tells, Personal
  <2>2. RoomOf(x) = room[x] /\ KeyOf(x, m) = Personal
    BY <1>3, <2>1 DEF RoomOf, KeyOf
  <2> QED BY <2>1, <2>2 DEF Discreet
<1> QED BY <1>1, <1>2, <1>3

LEMMA EditKeeps ==
    ASSUME SurfacesAssumption, NEW F \in Families, Sorted(F), Discreet(F),
           NEW x \in Drawers \cap Surfaces, NEW b \in Book(F[KeyOf(x, mode[x])]),
           NEW c \in ChangesOf(F[KeyOf(x, mode[x])]), edit(x, b, c),
           drawn' \in Seq([room : Rooms, mode : Modes]), Len(drawn') <= MaxStrokes,
           removed' \subseteq Strokes
    PROVE  Sorted(F)'
<1> DEFINE k == KeyOf(x, mode[x])
<1>1. mode[x] \in Modes /\ k \in Keys /\ RoomOf(x) \in Keys
  BY KeyOfIs, KeysAre DEF Sorted, Where
<1>2. F[k] \subseteq Strokes /\ c \in ChangesOf(Strokes)
  <2>1. F[k] \subseteq Strokes  BY <1>1, FamilyOf
  <2> QED BY <2>1, BookIs
<1>3. /\ save(x, mode[x], b) /\ broadcastLocal(x, mode[x], c)
      /\ UNCHANGED <<room, hydrated, mode>>
  BY DEF edit
<1>4. /\ Shelved(F)' /\ changes' \in [Surfaces -> Seq(Events(F))]
      /\ dirty' \in [Services -> BOOLEAN]
  BY <1>1, <1>3, SaveKeeps
<1>5. bus' \in [Services -> Seq(Copies(F))]
  BY <1>1, <1>2, <1>3, BusKeeps
<1>6. runtime' \in [Surfaces -> Seq(Notices(F))]
  <2>1. CASE Tells(x, mode[x])
    <3>1. Surfaces = {x} \/ F[k] \subseteq F[RoomOf(x)]  BY <1>1, <2>1, Shared
    <3>2. c \in ChangesOf(F[RoomOf(x)]) \/ Surfaces = {x}  BY <3>1, BookGrows
    <3>3. broadcastRuntime(x, c)  BY <2>1 DEF edit
    <3> QED BY <1>2, <3>2, <3>3, RuntimeKeeps
  <2>2. CASE ~Tells(x, mode[x])  BY <2>2 DEF edit, Sorted
  <2> QED BY <2>1, <2>2
<1>7. published' \subseteq UNION {F[r] : r \in Rooms}
  <2>1. CASE x \in Services /\ mode[x] = "collaborative" /\ c.kind = "stroke"
    <3>1. published' = published \cup {c.stroke}  BY <2>1 DEF edit, Publish
    <3>2. k = RoomOf(x) /\ RoomOf(x) \in Rooms  BY <2>1, KeyOfIs DEF Sorted
    <3>3. c.stroke \in F[k]  BY <2>1 DEF ChangesOf, Put, Take, Wipe
    <3> QED BY <3>1, <3>2, <3>3 DEF Sorted
  <2>2. CASE ~(x \in Services /\ mode[x] = "collaborative" /\ c.kind = "stroke")
    <3>1. published' = published  BY <2>2 DEF edit, Publish, Personal
    <3> QED BY <3>1 DEF Sorted
  <2> QED BY <2>1, <2>2
<1>8. Where'
  BY <1>3, <1>4 DEF Sorted, Where
<1> QED BY <1>4, <1>5, <1>6, <1>7, <1>8 DEF Sorted

-----------------------------------------------------------------------------
(* What the user does *)

\* The notebook a surface works on.
LEMMA MyBoard ==
    ASSUME SurfacesAssumption, NEW F \in Families, Sorted(F), NEW x \in Surfaces,
           NEW m \in Modes
    PROVE  /\ KeyOf(x, m) \in Keys /\ F[KeyOf(x, m)] \subseteq Strokes
           /\ board[x][m].strokes \subseteq F[KeyOf(x, m)]
           /\ board[x][m].redo \in Seq(F[KeyOf(x, m)])
<1>1. KeyOf(x, m) \in Keys  BY KeyOfIs DEF Sorted
<1>2. F[KeyOf(x, m)] \subseteq Strokes  BY <1>1, FamilyOf
<1>3. board[x][m] \in Book(F[KeyOf(x, m)])  BY DEF Sorted, Shelved
<1> QED BY <1>1, <1>2, <1>3, BookIs

LEMMA DrawnGrows ==
    ASSUME SurfacesAssumption, Where, Len(drawn) < MaxStrokes, NEW r \in Rooms, NEW m \in Modes,
           drawn' = Append(drawn, [room |-> r, mode |-> m])
    PROVE  /\ drawn' \in Seq([room : Rooms, mode : Modes]) /\ Len(drawn') <= MaxStrokes
           /\ Len(drawn') = Len(drawn) + 1 /\ Len(drawn) \in Nat /\ Len(drawn') \in Strokes
           /\ DOMAIN drawn = 1..Len(drawn) /\ DOMAIN drawn' = 1..(Len(drawn) + 1)
           /\ \A n \in DOMAIN drawn : drawn'[n] = drawn[n]
           /\ drawn'[Len(drawn')] = [room |-> r, mode |-> m]
<1> DEFINE R == [room : Rooms, mode : Modes]
           e == [room |-> r, mode |-> m]
<1>1. drawn \in Seq(R) /\ e \in R  BY DEF Where
<1>2. MaxStrokes \in Nat  BY DEF SurfacesAssumption
<1> HIDE DEF R, e
<1>3. drawn' = Append(drawn, e)  BY DEF e
<1>4. /\ drawn' \in Seq(R) /\ Len(drawn') = Len(drawn) + 1
      /\ \A n \in 1..Len(drawn) : drawn'[n] = drawn[n]
      /\ drawn'[Len(drawn) + 1] = e
  BY <1>1, <1>3, AppendProperties
<1>5. Len(drawn) \in Nat /\ DOMAIN drawn = 1..Len(drawn)
  BY <1>1, LenProperties
<1>6. DOMAIN drawn' = 1..Len(drawn')
  BY <1>4, LenProperties
<1> QED BY <1>2, <1>4, <1>5, <1>6 DEF R, e, Strokes

LEMMA AddStrokeSorts ==
    ASSUME SurfacesAssumption, NEW F \in Families, Sorted(F), Discreet(F), NEW x \in Surfaces,
           addStroke(x), Len(drawn') \in F[KeyOf(x, mode[x])]
    PROVE  Sorted(F)'
<1> DEFINE n == Len(drawn')
           b == board[x][mode[x]]
           S == F[KeyOf(x, mode[x])]
<1>1. mode[x] \in Modes /\ RoomOf(x) \in Rooms /\ x \in Drawers /\ removed \subseteq Strokes
  BY KeyOfIs DEF Sorted, Where, addStroke
<1>2. drawn' \in Seq([room : Rooms, mode : Modes]) /\ Len(drawn') <= MaxStrokes
  BY <1>1, DrawnGrows DEF addStroke, Sorted
<1>3. b.strokes \subseteq S  BY <1>1, MyBoard
<1>4. edit(x, [strokes |-> b.strokes \cup {n}, redo |-> <<>>], Put(n)) /\ removed' = removed
  BY DEF addStroke
<1>5. Put(n) \in ChangesOf(S)  BY DEF ChangesOf
<1>6. [strokes |-> b.strokes \cup {n}, redo |-> <<>>] \in Book(S)
  BY <1>3, EmptySeq DEF Book
<1> HIDE DEF n, b, S
<1> QED BY <1>1, <1>2, <1>4, <1>5, <1>6, EditKeeps DEF S

LEMMA DeleteSorts ==
    ASSUME SurfacesAssumption, NEW F \in Families, Sorted(F), Discreet(F), NEW x \in Surfaces,
           NEW n \in Strokes, deleteStroke(x, n)
    PROVE  Sorted(F)'
<1> DEFINE b == board[x][mode[x]]
           S == F[KeyOf(x, mode[x])]
           after == [strokes |-> b.strokes \ {n}, redo |-> Append(b.redo, n)]
<1>1. /\ mode[x] \in Modes /\ x \in Drawers /\ removed' \subseteq Strokes
      /\ drawn' \in Seq([room : Rooms, mode : Modes]) /\ Len(drawn') <= MaxStrokes
  BY DEF Sorted, Where, deleteStroke, Act
<1>2. b.strokes \subseteq S /\ b.redo \in Seq(S) /\ n \in b.strokes
  BY <1>1, MyBoard DEF deleteStroke
<1>3. Append(b.redo, n) \in Seq(S)
  BY <1>2, AppendProperties
<1>4. after \in Book(S)  BY <1>2, <1>3 DEF Book
<1>5. edit(x, after, Take(n))  BY DEF deleteStroke
<1>6. Take(n) \in ChangesOf(S)  BY DEF ChangesOf
<1> HIDE DEF b, S, after
<1> QED BY <1>1, <1>4, <1>5, <1>6, EditKeeps DEF S

LEMMA RedoSorts ==
    ASSUME SurfacesAssumption, NEW F \in Families, Sorted(F), Discreet(F), NEW x \in Surfaces,
           redo(x)
    PROVE  Sorted(F)'
<1> DEFINE b == board[x][mode[x]]
           S == F[KeyOf(x, mode[x])]
           n == Last(b.redo)
           after == [strokes |-> b.strokes \cup {n}, redo |-> Front(b.redo)]
<1>1. /\ mode[x] \in Modes /\ x \in Drawers /\ removed' \subseteq Strokes
      /\ drawn' \in Seq([room : Rooms, mode : Modes]) /\ Len(drawn') <= MaxStrokes
  BY DEF Sorted, Where, redo, Act
<1>2. b.strokes \subseteq S /\ b.redo \in Seq(S) /\ b.redo # <<>>
  BY <1>1, MyBoard DEF redo, RedoStack
<1>3. Len(b.redo) \in Nat /\ Len(b.redo) >= 1
  BY <1>2, LenProperties, EmptySeq
<1>4. n \in S  BY <1>2, <1>3, ElementOfSeq DEF Last
<1>5. Front(b.redo) \in Seq(S)
  <2>1. PICK s : s = b.redo  OBVIOUS
  <2>2. s \in Seq(S) /\ Len(s) - 1 \in (1 - 1)..Len(s) /\ 1 \in 1..(Len(s) + 1)
    BY <2>1, <1>2, <1>3
  <2> HIDE DEF b, S
  <2>3. SubSeq(s, 1, Len(s) - 1) \in Seq(S)  BY <2>2, SubSeqProperties
  <2> QED BY <2>1, <2>3 DEF Front
<1>6. after \in Book(S)  BY <1>2, <1>4, <1>5 DEF Book
<1>7. edit(x, after, Put(n))  BY DEF redo, RedoStack
<1>8. Put(n) \in ChangesOf(S)  BY <1>4 DEF ChangesOf
<1> HIDE DEF b, S, n, after
<1> QED BY <1>1, <1>6, <1>7, <1>8, EditKeeps DEF S

LEMMA ClearSorts ==
    ASSUME SurfacesAssumption, NEW F \in Families, Sorted(F), Discreet(F), NEW x \in Surfaces,
           clearAll(x)
    PROVE  Sorted(F)'
<1> DEFINE b == board[x][mode[x]]
           S == F[KeyOf(x, mode[x])]
           after == [strokes |-> {}, redo |-> SetToSeq(b.strokes)]
<1>1. /\ mode[x] \in Modes /\ x \in Drawers /\ removed \subseteq Strokes
      /\ drawn' \in Seq([room : Rooms, mode : Modes]) /\ Len(drawn') <= MaxStrokes
  BY DEF Sorted, Where, clearAll, Act
<1>2. b.strokes \subseteq S /\ S \subseteq Strokes
  BY <1>1, MyBoard
<1>3. SetToSeq(b.strokes) \in Seq(S)
  <2>1. IsFiniteSet(b.strokes)  BY <1>2, StrokesFinite
  <2>2. SetToSeq(b.strokes) \in Seq(b.strokes)  BY <2>1, SeqOfSet
  <2> QED BY <1>2, <2>2, SeqOfMore
<1>4. after \in Book(S)  BY <1>3 DEF Book
<1>5. edit(x, after, Wipe) /\ removed' = removed \cup b.strokes  BY DEF clearAll
<1>6. Wipe \in ChangesOf(S)  BY DEF ChangesOf
<1>7. removed' \subseteq Strokes  BY <1>1, <1>2, <1>5
<1> HIDE DEF b, S, after
<1> QED BY <1>1, <1>4, <1>5, <1>6, <1>7, EditKeeps DEF S

LEMMA SavedSorts ==
    ASSUME SurfacesAssumption, NEW F \in Families, Sorted(F), NEW x \in Surfaces
    PROVE  /\ Saved(x) \in [Keys -> Notebook] /\ \A k \in Keys : Saved(x)[k] \in Book(F[k])
           /\ {k \in Keys : Saved(x)[k] # stored[k]} \subseteq {Personal, Home}
<1>1. CASE x \in Services
  BY <1>1 DEF Saved, Sorted, Shelved
<1>2. CASE x \notin Services
  <2>1. Saved(x) = [k \in Keys |-> IF k \in {Personal, Home} THEN board[x][ModeOf(k)] ELSE stored[k]]
    BY <1>2 DEF Saved
  <2>2. \A k \in {Personal, Home} :
            /\ ModeOf(k) \in Modes /\ KeyOf(x, ModeOf(k)) = k
    BY <1>2, KeysAre DEF ModeOf, KeyOf, RoomOf, Modes, Personal, SurfacesAssumption
  <2>3. /\ board \in [Surfaces -> [Modes -> Notebook]]
        /\ \A m \in Modes : board[x][m] \in Notebook /\ board[x][m] \in Book(F[KeyOf(x, m)])
    BY DEF Sorted, Shelved
  <2>4. \A k \in {Personal, Home} :
            board[x][ModeOf(k)] \in Notebook /\ board[x][ModeOf(k)] \in Book(F[k])
    BY <2>2, <2>3
  <2> QED BY <2>1, <2>4 DEF Sorted, Shelved
<1> QED BY <1>1, <1>2

LEMMA ModeSorts ==
    ASSUME SurfacesAssumption, NEW F \in Families, Sorted(F), NEW x \in Surfaces,
           NEW m \in Modes, setPrivacyMode(x, m)
    PROVE  Sorted(F)'
<1> DEFINE new == {k \in Keys : Saved(x)[k] # stored[k]}
           events == {[key |-> k, value |-> Saved(x)[k]] : k \in new}
           turn == [key |-> "mode", value |-> m]
<1>1. events \subseteq Events(F)
  BY SavedSorts DEF Events
<1>2. IsFiniteSet(events)
  <2> DEFINE one(k) == {[key |-> k, value |-> Saved(x)[k]]}
  <2>1. events \subseteq one(Personal) \cup one(Home)
    BY SavedSorts
  <2>2. IsFiniteSet(one(Personal)) /\ IsFiniteSet(one(Home))
    BY FS_Singleton
  <2> HIDE DEF one, events
  <2>3. IsFiniteSet(one(Personal) \cup one(Home))
    BY <2>2, FS_Union
  <2> QED BY <2>1, <2>3, FS_Subset
<1>3. SetToSeq(events) \in Seq(Events(F))
  BY <1>1, <1>2, SeqOfSet, SeqOfMore
<1>4. turn \in Events(F)  BY DEF Events
<1>5. <<>> \in Seq(Events(F)) /\ <<turn>> \in Seq(Events(F))
  BY <1>4
<1>6. changes' = [y \in Surfaces |->
          changes[y] \o SetToSeq(events) \o (IF y = x THEN <<>> ELSE <<turn>>)]
  BY DEF setPrivacyMode
<1>7. changes' \in [Surfaces -> Seq(Events(F))]
  <2>1. ASSUME NEW y \in Surfaces
        PROVE  changes[y] \o SetToSeq(events) \o (IF y = x THEN <<>> ELSE <<turn>>)
                   \in Seq(Events(F))
    <3>1. changes[y] \in Seq(Events(F))  BY DEF Sorted
    <3>2. changes[y] \o SetToSeq(events) \in Seq(Events(F))
      BY <3>1, <1>3, ConcatProperties
    <3> HIDE DEF events, turn
    <3> QED BY <3>2, <1>5, ConcatProperties
  <2> HIDE DEF events, turn
  <2> QED BY <2>1, <1>6
<1>8. stored' = Saved(x) /\ mode' = [mode EXCEPT ![x] = m]
  BY DEF setPrivacyMode
<1>9. UNCHANGED <<room, hydrated, dirty, board, bus, runtime, published, removed, drawn>>
  BY DEF setPrivacyMode, Act
<1>10. Shelved(F)'
  <2>1. \A y \in Surfaces, n \in Modes : KeyOf(y, n)' = KeyOf(y, n)
    BY <1>9 DEF KeyOf, RoomOf
  <2> QED BY <2>1, <1>8, <1>9, SavedSorts DEF Sorted, Shelved
<1>11. Where'  BY <1>8, <1>9 DEF Sorted, Where
<1> QED BY <1>7, <1>9, <1>10, <1>11 DEF Sorted

-----------------------------------------------------------------------------
(* What arrives *)

\* A board that takes in a book of its own key.
LEMMA BoardKeeps ==
    ASSUME SurfacesAssumption, NEW F \in Families, Sorted(F), NEW x \in Surfaces,
           NEW m \in Modes, NEW b \in Book(F[KeyOf(x, m)]),
           board' = [board EXCEPT ![x][m] = b], UNCHANGED <<room, stored>>
    PROVE  Shelved(F)'
<1>1. KeyOf(x, m) \in Keys  BY KeyOfIs DEF Sorted
<1>2. F[KeyOf(x, m)] \subseteq Strokes  BY <1>1, FamilyOf
<1>3. b \in Notebook  BY <1>2, BookIs
<1>4. \A y \in Surfaces, n \in Modes : KeyOf(y, n)' = KeyOf(y, n)
  BY DEF KeyOf, RoomOf
<1>5. /\ board' \in [Surfaces -> [Modes -> Notebook]]
      /\ \A y \in Surfaces, n \in Modes : board'[y][n] \in Book(F[KeyOf(y, n)])
  BY <1>3 DEF Sorted, Shelved
<1> QED BY <1>4, <1>5 DEF Sorted, Shelved

\* A change of another surface for this one's board.
LEMMA TakesIn ==
    ASSUME SurfacesAssumption, NEW F \in Families, Sorted(F), NEW x \in Surfaces,
           NEW m \in Modes, NEW c \in ChangesOf(F[KeyOf(x, m)])
    PROVE  Changed(board[x][m], c) \in Book(F[KeyOf(x, m)])
<1>1. KeyOf(x, m) \in Keys  BY KeyOfIs DEF Sorted
<1>2. F[KeyOf(x, m)] \subseteq Strokes  BY <1>1, FamilyOf
<1>3. board[x][m] \in Book(F[KeyOf(x, m)])  BY DEF Sorted, Shelved
<1> QED BY <1>2, <1>3, BookChanged

LEMMA BusSorts ==
    ASSUME SurfacesAssumption, NEW F \in Families, Sorted(F), NEW s \in Services, OnBus(s)
    PROVE  Sorted(F)'
<1> DEFINE msg == First(bus, s)
           counts == msg.scope = mode[s] /\ (msg.scope = Personal \/ msg.room = room[s])
           b == IF counts THEN Changed(board[s][mode[s]], msg.change) ELSE board[s][mode[s]]
<1>1. msg \in Copies(F) /\ bus' \in [Services -> Seq(Copies(F))]
  BY TakenKeeps DEF Sorted, OnBus
<1>2. mode[s] \in Modes /\ RoomOf(s) = room[s] /\ s \in Surfaces
  BY DEF Sorted, Where, RoomOf
<1>3. b \in Book(F[KeyOf(s, mode[s])])
  <2>1. CASE counts
    <3>1. KeyIn(msg.room, msg.scope) = KeyOf(s, mode[s])
      BY <1>2, <2>1 DEF KeyIn, KeyOf
    <3>2. msg.change \in ChangesOf(F[KeyOf(s, mode[s])])
      BY <1>1, <3>1 DEF Copies
    <3> HIDE DEF counts, msg
    <3>3. Changed(board[s][mode[s]], msg.change) \in Book(F[KeyOf(s, mode[s])])
      BY <1>2, <3>2, TakesIn
    <3> QED BY <2>1, <3>3
  <2>2. CASE ~counts
    BY <1>2, <2>2 DEF Sorted, Shelved
  <2> QED BY <2>1, <2>2
<1>4. board' = [board EXCEPT ![s][mode[s]] = b]
  BY DEF OnBus
<1>5. UNCHANGED <<room, hydrated, dirty, mode, stored, runtime, changes, drawn, published, removed>>
  BY DEF OnBus
<1> HIDE DEF b
<1>6. Shelved(F)'  BY <1>2, <1>3, <1>4, <1>5, BoardKeeps
<1>7. Where'  BY <1>5 DEF Sorted, Where
<1> QED BY <1>1, <1>5, <1>6, <1>7 DEF Sorted

LEMMA RuntimeServiceSorts ==
    ASSUME SurfacesAssumption, NEW F \in Families, Sorted(F), NEW s \in Services,
           OnRuntimeService(s)
    PROVE  Sorted(F)'
<1> DEFINE msg == First(runtime, s)
           C == "collaborative"
<1>1. msg \in Notices(F) /\ runtime' \in [Surfaces -> Seq(Notices(F))]
  BY TakenKeeps DEF Sorted, OnRuntimeService
<1>2. C \in Modes /\ RoomOf(s) = room[s] /\ KeyOf(s, C) = room[s] /\ s \in Surfaces
      /\ room[s] \in Rooms /\ room[s] \in Keys
  BY KeyOfIs, KeysAre DEF Sorted, RoomOf
<1>3. UNCHANGED <<room, hydrated, mode, drawn, removed>>
  BY DEF OnRuntimeService
<1>4. CASE msg.room = room[s]
  <2>1. /\ save(s, C, Changed(board[s][C], msg.change))
        /\ broadcastLocal(s, C, msg.change)
        /\ Publish(C, IF msg.change.kind = "stroke" THEN StrokeToPublish(s, msg.change.stroke)
                                                    ELSE {})
    BY <1>4 DEF OnRuntimeService
  <2>2. msg.change \in ChangesOf(F[KeyOf(s, C)]) /\ msg.change \in ChangesOf(Strokes)
    BY <1>1, <1>2, <1>4 DEF Notices
  <2>p. published' \subseteq UNION {F[r] : r \in Rooms}
    <3>1. msg.change.kind = "stroke" => msg.change.stroke \in F[room[s]]
      BY <2>2, <1>2 DEF ChangesOf, Put, Take, Wipe
    <3>2. published' \subseteq published \cup F[room[s]]
      BY <3>1, <2>1 DEF Publish, StrokeToPublish
    <3> QED BY <3>2, <1>2 DEF Sorted
  <2> HIDE DEF msg, C
  <2>3. Changed(board[s][C], msg.change) \in Book(F[KeyOf(s, C)])
    BY <1>2, <2>2, TakesIn
  <2>4. /\ Shelved(F)' /\ changes' \in [Surfaces -> Seq(Events(F))]
        /\ dirty' \in [Services -> BOOLEAN]
    BY <1>2, <1>3, <2>1, <2>3, SaveKeeps
  <2>5. bus' \in [Services -> Seq(Copies(F))]
    BY <1>2, <2>1, <2>2, BusKeeps
  <2>6. Where'  BY <1>3, <2>4 DEF Sorted, Where
  <2> QED BY <1>1, <2>p, <2>4, <2>5, <2>6 DEF Sorted
<1>5. CASE msg.room # room[s]
  <2>1. UNCHANGED <<board, dirty, stored, ownWrites, changes, bus, published>>
    BY <1>5 DEF OnRuntimeService
  <2>2. \A y \in Surfaces, n \in Modes : KeyOf(y, n)' = KeyOf(y, n)
    BY <1>3 DEF KeyOf, RoomOf
  <2> QED BY <1>1, <1>3, <2>1, <2>2 DEF Sorted, Shelved, Where
<1> QED BY <1>4, <1>5

LEMMA RuntimeWidgetSorts ==
    ASSUME SurfacesAssumption, NEW F \in Families, Sorted(F), NEW w \in Widgets,
           OnRuntimeWidget(w)
    PROVE  Sorted(F)'
<1> DEFINE msg == First(runtime, w)
           C == "collaborative"
           b == IF msg.room = Home THEN Changed(board[w][C], msg.change) ELSE board[w][C]
<1>1. msg \in Notices(F) /\ runtime' \in [Surfaces -> Seq(Notices(F))]
  BY TakenKeeps DEF Sorted, OnRuntimeWidget
<1>2. C \in Modes /\ KeyOf(w, C) = Home /\ w \in Surfaces
  BY KeysAre DEF KeyOf, RoomOf, Modes, Personal, SurfacesAssumption
<1>3. b \in Book(F[KeyOf(w, C)])
  <2>1. CASE msg.room = Home
    <3>1. msg.change \in ChangesOf(F[KeyOf(w, C)])
      BY <1>1, <1>2, <2>1 DEF Notices
    <3> HIDE DEF msg, C
    <3>2. Changed(board[w][C], msg.change) \in Book(F[KeyOf(w, C)])
      BY <1>2, <3>1, TakesIn
    <3> QED BY <2>1, <3>2
  <2>2. CASE msg.room # Home
    BY <1>2, <2>2 DEF Sorted, Shelved
  <2> QED BY <2>1, <2>2
<1>4. board' = [board EXCEPT ![w][C] = b]
  BY DEF OnRuntimeWidget
<1>5. UNCHANGED <<room, hydrated, dirty, mode, stored, bus, changes, drawn, published, removed>>
  BY DEF OnRuntimeWidget
<1> HIDE DEF b, C, msg
<1>6. Shelved(F)'  BY <1>2, <1>3, <1>4, <1>5, BoardKeeps
<1>7. Where'  BY <1>5 DEF Sorted, Where
<1> QED BY <1>1, <1>5, <1>6, <1>7 DEF Sorted

LEMMA ChangeSorts ==
    ASSUME SurfacesAssumption, NEW F \in Families, Sorted(F), NEW x \in Surfaces, OnChange(x)
    PROVE  Sorted(F)'
<1> DEFINE event == First(changes, x)
           m == ModeOf(event.key)
<1>1. event \in Events(F) /\ changes' \in [Surfaces -> Seq(Events(F))]
  BY TakenKeeps DEF Sorted, OnChange
<1>2. mode' \in [Surfaces -> Modes]
  <2>1. event.key = "mode" => event.value \in Modes
    BY <1>1, KeysAre DEF Events
  <2> QED BY <2>1 DEF OnChange, Sorted, Where
<1>3. UNCHANGED <<room, hydrated, dirty, stored, bus, runtime, drawn, published, removed>>
  BY DEF OnChange
<1>4. Shelved(F)'
  <2>1. CASE board' = board
    <3>1. \A y \in Surfaces, n \in Modes : KeyOf(y, n)' = KeyOf(y, n)
      BY <1>3 DEF KeyOf, RoomOf
    <3> QED BY <1>3, <2>1, <3>1 DEF Sorted, Shelved
  <2>2. CASE board' # board
    <3>1. /\ event.key # "mode" /\ event.key = KeyOf(x, m)
          /\ board' = [board EXCEPT ![x][m] = event.value]
      BY <2>2 DEF OnChange, Concerns
    <3>2. event.value \in Book(F[KeyOf(x, m)])
      BY <1>1, <3>1 DEF Events
    <3>3. m \in Modes
      BY KeysAre DEF ModeOf
    <3> HIDE DEF event, m
    <3> QED BY <1>3, <3>1, <3>2, <3>3, BoardKeeps
  <2> QED BY <2>1, <2>2
<1>5. Where'  BY <1>2, <1>3 DEF Sorted, Where
<1> QED BY <1>1, <1>3, <1>4, <1>5 DEF Sorted

LEMMA RemoteStrokeSorts ==
    ASSUME SurfacesAssumption, NEW F \in Families, Sorted(F), NEW s \in Services,
           RemoteStroke(s), Len(drawn') \in F[room[s]]
    PROVE  Sorted(F)'
<1> DEFINE n == Len(drawn')
           C == "collaborative"
<1>1. C \in Modes /\ RoomOf(s) = room[s] /\ KeyOf(s, C) = room[s] /\ s \in Surfaces
      /\ room[s] \in Rooms /\ room[s] \in Keys
  BY KeyOfIs, KeysAre DEF Sorted, RoomOf
<1>2. drawn' \in Seq([room : Rooms, mode : Modes]) /\ Len(drawn') <= MaxStrokes
  BY <1>1, DrawnGrows DEF RemoteStroke, Sorted
<1>3. Put(n) \in ChangesOf(F[room[s]]) /\ Put(n) \in ChangesOf(Strokes)
  <2>1. F[room[s]] \subseteq Strokes  BY <1>1, FamilyOf
  <2> QED BY <2>1 DEF ChangesOf
<1>4. /\ save(s, C, Changed(board[s][C], Put(n))) /\ broadcastLocal(s, C, Put(n))
      /\ broadcastRuntime(s, Put(n)) /\ published' = published \cup {n}
      /\ UNCHANGED <<room, hydrated, mode, removed>>
  BY DEF RemoteStroke
<1>5. published' \subseteq UNION {F[r] : r \in Rooms}
  BY <1>1, <1>4 DEF Sorted
<1> HIDE DEF n, C
<1>6. Changed(board[s][C], Put(n)) \in Book(F[KeyOf(s, C)])
  BY <1>1, <1>3, TakesIn
<1>7. /\ Shelved(F)' /\ changes' \in [Surfaces -> Seq(Events(F))]
      /\ dirty' \in [Services -> BOOLEAN]
  BY <1>1, <1>4, <1>6, SaveKeeps
<1>8. bus' \in [Services -> Seq(Copies(F))]
  BY <1>1, <1>3, <1>4, BusKeeps
<1>9. runtime' \in [Surfaces -> Seq(Notices(F))]
  BY <1>1, <1>3, <1>4, RuntimeKeeps
<1>10. Where'  BY <1>2, <1>4, <1>7 DEF Sorted, Where
<1> QED BY <1>5, <1>7, <1>8, <1>9, <1>10 DEF Sorted

-----------------------------------------------------------------------------
(* Rooms *)

LEMMA SetRoomSorts ==
    ASSUME SurfacesAssumption, NEW F \in Families, Sorted(F), NEW s \in Services,
           NEW r \in Rooms, setRoom(s, r)
    PROVE  Sorted(F)'
<1> DEFINE C == "collaborative"
<1>1. /\ C \in Modes /\ C # Personal /\ KeyOf(s, C) = room[s] /\ s \in Surfaces /\ room[s] \in Keys
      /\ r \in Keys
  BY KeyOfIs, KeysAre DEF Sorted, RoomOf, Personal
<1>2. /\ stored' \in [Keys -> Notebook] /\ \A k \in Keys : stored'[k] \in Book(F[k])
      /\ changes' \in [Surfaces -> Seq(Events(F))]
  <2>1. CASE hydrated[s]
    <3>1. write(s, room[s], board[s][C])  BY <2>1 DEF setRoom
    <3>2. board[s][C] \in Book(F[room[s]])  BY <1>1 DEF Sorted, Shelved
    <3> QED BY <1>1, <3>1, <3>2, WriteKeeps DEF Sorted
  <2>2. CASE ~hydrated[s]
    BY <2>2 DEF setRoom, Sorted, Shelved
  <2> QED BY <2>1, <2>2
<1>3. /\ room' = [room EXCEPT ![s] = r] /\ board' = [board EXCEPT ![s][C] = Blank]
      /\ hydrated' = [hydrated EXCEPT ![s] = FALSE] /\ dirty' = [dirty EXCEPT ![s] = FALSE]
      /\ UNCHANGED <<mode, bus, runtime, drawn, published, removed>>
  BY DEF setRoom
<1>4. Where'  BY <1>3 DEF Sorted, Where
<1>5. \A S : S \subseteq Strokes => Blank \in Book(S) /\ Blank \in Notebook
  BY BookIs
<1>6. board' \in [Surfaces -> [Modes -> Notebook]]
  BY <1>3, <1>5 DEF Sorted, Shelved
<1>7. ASSUME NEW y \in Surfaces, NEW m \in Modes
      PROVE  board'[y][m] \in Book(F[KeyOf(y, m)'])
  <2>1. CASE y = s /\ m = C
    <3>1. board'[y][m] = Blank  BY <1>3, <2>1 DEF Sorted, Shelved
    <3>2. KeyOf(y, m)' = r  BY <1>3, <1>1, <2>1 DEF KeyOf, RoomOf, Sorted, Where
    <3>3. F[r] \subseteq Strokes  BY <1>1, FamilyOf
    <3> QED BY <3>1, <3>2, <3>3, <1>5
  <2>2. CASE y = s /\ m # C
    <3>1. board'[y][m] = board[y][m]  BY <1>3, <2>2 DEF Sorted, Shelved
    <3>2. KeyOf(y, m)' = KeyOf(y, m)  BY <2>2 DEF KeyOf, Modes, Personal
    <3> QED BY <3>1, <3>2 DEF Sorted, Shelved
  <2>3. CASE y # s
    <3>1. board'[y][m] = board[y][m]  BY <1>3, <2>3 DEF Sorted, Shelved
    <3>2. KeyOf(y, m)' = KeyOf(y, m)  BY <1>3, <2>3 DEF KeyOf, RoomOf, Sorted, Where
    <3> QED BY <3>1, <3>2 DEF Sorted, Shelved
  <2> QED BY <2>1, <2>2, <2>3
<1>8. Shelved(F)'
  BY <1>2, <1>6, <1>7 DEF Shelved
<1> QED BY <1>2, <1>3, <1>4, <1>8 DEF Sorted

LEMMA HydrateSorts ==
    ASSUME SurfacesAssumption, NEW F \in Families, Sorted(F), NEW s \in Services,
           NEW load, Hydrate(s, load)
    PROVE  Sorted(F)'
<1> DEFINE C == "collaborative"
           old == stored[room[s]]
           local == board[s][C]
           merged == mergeNotebooks(old, local)
           b == IF dirty[s] THEN merged ELSE old
<1>1. /\ C \in Modes /\ KeyOf(s, C) = room[s] /\ s \in Surfaces /\ room[s] \in Keys
  BY KeyOfIs, KeysAre DEF Sorted, RoomOf
<1>2. UNCHANGED <<room, mode, bus, runtime, drawn, published, removed>>
  BY DEF Hydrate
<1>3. \A y \in Surfaces, n \in Modes : KeyOf(y, n)' = KeyOf(y, n)
  BY <1>2 DEF KeyOf, RoomOf
<1>4. CASE ~IsCurrentRoom(s, load)
  <2>1. UNCHANGED <<hydrated, dirty, board, stored, ownWrites, changes>>
    BY <1>4 DEF Hydrate
  <2> QED BY <1>2, <1>3, <2>1 DEF Sorted, Shelved, Where
<1>5. CASE IsCurrentRoom(s, load)
  <2>1. b \in Book(F[room[s]])
    <3>1. old \in Book(F[room[s]]) /\ local \in Book(F[room[s]])
      BY <1>1 DEF Sorted, Shelved
    <3>2. F[room[s]] \subseteq Strokes  BY <1>1, FamilyOf
    <3>3. /\ old.strokes \cup local.strokes \subseteq F[room[s]]
          /\ old.redo \in Seq(F[room[s]])
      BY <3>1, <3>2, BookIs
    <3>4. merged \in Book(F[room[s]])
      BY <3>3 DEF mergeNotebooks, Book
    <3> HIDE DEF merged, old
    <3> QED BY <3>1, <3>4
  <2>2. /\ hydrated' = [hydrated EXCEPT ![s] = TRUE] /\ dirty' = [dirty EXCEPT ![s] = FALSE]
        /\ board' = [board EXCEPT ![s][C] = b]
        /\ IF dirty[s] THEN write(s, room[s], b) ELSE UNCHANGED <<stored, ownWrites, changes>>
    BY <1>5 DEF Hydrate, IsCurrentRoom
  <2> HIDE DEF b
  <2>3. /\ stored' \in [Keys -> Notebook] /\ \A k \in Keys : stored'[k] \in Book(F[k])
        /\ changes' \in [Surfaces -> Seq(Events(F))]
    <3>1. CASE dirty[s]  BY <1>1, <2>1, <2>2, <3>1, WriteKeeps DEF Sorted
    <3>2. CASE ~dirty[s]  BY <2>2, <3>2 DEF Sorted, Shelved
    <3> QED BY <3>1, <3>2
  <2>4. b \in Notebook
    <3>1. F[room[s]] \subseteq Strokes  BY <1>1, FamilyOf
    <3> QED BY <2>1, <3>1, BookIs
  <2>5. Shelved(F)'
    BY <1>1, <1>3, <2>1, <2>2, <2>3, <2>4 DEF Sorted, Shelved
  <2>6. Where'  BY <1>2, <2>2 DEF Sorted, Where
  <2> QED BY <1>2, <2>3, <2>5, <2>6 DEF Sorted
<1> QED BY <1>4, <1>5

\* The new stroke of a step is one its place allows.
Fresh(F) ==
    /\ \A x \in Surfaces : addStroke(x) => Len(drawn') \in F[KeyOf(x, mode[x])]
    /\ \A s \in Services : RemoteStroke(s) => Len(drawn') \in F[room[s]]

LEMMA StepSorts ==
    ASSUME SurfacesAssumption, NEW F \in Families, Sorted(F), Discreet(F), Fresh(F), Next
    PROVE  Sorted(F)'
<1>1. CASE \E x \in Surfaces :
              \/ addStroke(x) \/ redo(x) \/ clearAll(x) \/ OnChange(x)
              \/ \E n \in Strokes : deleteStroke(x, n)
              \/ \E m \in Modes : setPrivacyMode(x, m)
  BY <1>1, AddStrokeSorts, RedoSorts, ClearSorts, ChangeSorts, DeleteSorts, ModeSorts DEF Fresh
<1>2. CASE \E s \in Services :
              \/ OnBus(s) \/ OnRuntimeService(s) \/ RemoteStroke(s)
              \/ \E r \in Rooms : setRoom(s, r)
              \/ \E load \in loads[s] : Hydrate(s, load)
  BY <1>2, BusSorts, RuntimeServiceSorts, RemoteStrokeSorts, SetRoomSorts, HydrateSorts DEF Fresh
<1>3. CASE \E w \in Widgets : OnRuntimeWidget(w)
  BY <1>3, RuntimeWidgetSorts
<1> QED BY <1>1, <1>2, <1>3 DEF Next

LEMMA StutterSorts ==
    ASSUME NEW F \in Families, Sorted(F), UNCHANGED vars
    PROVE  Sorted(F)'
<1>1. \A y \in Surfaces, n \in Modes : KeyOf(y, n)' = KeyOf(y, n)
  BY DEF vars, KeyOf, RoomOf
<1> QED BY <1>1 DEF vars, Sorted, Shelved, Where

-----------------------------------------------------------------------------
(* Who may see what *)

\* Any stroke may be anywhere.
Anywhere == [k \in Keys |-> Strokes]

\* A stroke stays with the mode it was made in.
OfMode(d) == [k \in Keys |-> {n \in Strokes : n \in DOMAIN d /\ d[n].mode = ModeOf(k)}]

\* A stroke on a room's board was made in the room; the personal one is of no room.
OfRoom(d) ==
    [k \in Keys |-> IF k = Personal THEN Strokes
                    ELSE {n \in Strokes : n \in DOMAIN d /\ d[n].room = k}]

LEMMA FamiliesAre ==
    ASSUME NEW d
    PROVE  Anywhere \in Families /\ OfMode(d) \in Families /\ OfRoom(d) \in Families
BY DEF Anywhere, OfMode, OfRoom, Families

LEMMA InitSorts ==
    ASSUME SurfacesAssumption, NEW F \in Families, Init
    PROVE  Sorted(F)
<1>1. \A S : S \subseteq Strokes => Blank \in Book(S) /\ Blank \in Notebook
  BY BookIs
<1>2. Where
  BY EmptySeq DEF Init, Where, SurfacesAssumption
<1>3. \A x \in Surfaces, m \in Modes : KeyOf(x, m) \in Keys
  BY <1>2, KeyOfIs
<1>4. Shelved(F)
  BY <1>1, <1>3, FamilyOf DEF Init, Shelved
<1>5. /\ changes \in [Surfaces -> Seq(Events(F))] /\ runtime \in [Surfaces -> Seq(Notices(F))]
      /\ bus \in [Services -> Seq(Copies(F))]
  BY EmptySeq DEF Init, Empty
<1> QED BY <1>2, <1>4, <1>5 DEF Init, Sorted

\* What was drawn stays as it was, and the new stroke is that of its maker.
LEMMA StepDraws ==
    ASSUME SurfacesAssumption, Where, Next
    PROVE  /\ DOMAIN drawn \subseteq DOMAIN drawn' /\ \A n \in DOMAIN drawn : drawn'[n] = drawn[n]
           /\ \A x \in Surfaces : addStroke(x) =>
                  /\ Len(drawn') \in Strokes /\ Len(drawn') \in DOMAIN drawn'
                  /\ drawn'[Len(drawn')] = [room |-> RoomOf(x), mode |-> mode[x]]
           /\ \A s \in Services : RemoteStroke(s) =>
                  /\ Len(drawn') \in Strokes /\ Len(drawn') \in DOMAIN drawn'
                  /\ drawn'[Len(drawn')] = [room |-> room[s], mode |-> "collaborative"]
<1> DEFINE Kept == DOMAIN drawn \subseteq DOMAIN drawn' /\ \A n \in DOMAIN drawn : drawn'[n] = drawn[n]
<1>1. ASSUME NEW x \in Surfaces, addStroke(x)
      PROVE  /\ Kept /\ Len(drawn') \in Strokes /\ Len(drawn') \in DOMAIN drawn'
             /\ drawn'[Len(drawn')] = [room |-> RoomOf(x), mode |-> mode[x]]
  <2>1. RoomOf(x) \in Rooms /\ mode[x] \in Modes  BY KeyOfIs DEF Where
  <2> QED BY <1>1, <2>1, DrawnGrows DEF addStroke
<1>2. ASSUME NEW s \in Services, RemoteStroke(s)
      PROVE  /\ Kept /\ Len(drawn') \in Strokes /\ Len(drawn') \in DOMAIN drawn'
             /\ drawn'[Len(drawn')] = [room |-> room[s], mode |-> "collaborative"]
  <2>1. room[s] \in Rooms /\ "collaborative" \in Modes  BY KeysAre DEF Where
  <2> QED BY <1>2, <2>1, DrawnGrows DEF RemoteStroke
<1>3. Kept
  <2>1. CASE drawn' = drawn  BY <2>1
  <2>2. CASE drawn' # drawn
    <3>1. (\E x \in Surfaces : addStroke(x)) \/ (\E s \in Services : RemoteStroke(s))
      BY <2>2 DEF Next, redo, clearAll, OnChange, deleteStroke, setPrivacyMode, OnBus,
                  OnRuntimeService, setRoom, Hydrate, OnRuntimeWidget, Act
    <3> QED BY <3>1, <1>1, <1>2
  <2> QED BY <2>1, <2>2
<1> QED BY <1>1, <1>2, <1>3

LEMMA AnywhereStep ==
    ASSUME SurfacesAssumption, Sorted(Anywhere), [Next]_vars
    PROVE  Sorted(Anywhere)'
<1>1. CASE Next
  <2>1. Discreet(Anywhere)
    BY KeysAre DEF Discreet, Anywhere, Sorted, Where
  <2>2. Fresh(Anywhere)
    <3>1. \A x \in Surfaces : KeyOf(x, mode[x]) \in Keys
      BY KeyOfIs DEF Sorted, Where
    <3>2. \A s \in Services : room[s] \in Keys
      BY KeysAre DEF Sorted, Where
    <3> QED BY <1>1, <3>1, <3>2, StepDraws DEF Fresh, Anywhere, Sorted
  <2> QED BY <1>1, <2>1, <2>2, StepSorts, FamiliesAre
<1>2. CASE UNCHANGED vars
  BY <1>2, StutterSorts, FamiliesAre
<1> QED BY <1>1, <1>2

\* Nobody but widgets draws here.
LEMMA OfModeStep ==
    ASSUME SurfacesAssumption, Drawers \cap Services = {}, Sorted(OfMode(drawn)), [Next]_vars
    PROVE  Sorted(OfMode(drawn))'
<1>1. PICK F, G : F = OfMode(drawn) /\ G = OfMode(drawn')
  OBVIOUS
<1>2. F \in Families /\ G \in Families /\ Sorted(F)
  BY <1>1, FamiliesAre
<1>3. CASE Next
  <2>1. Where  BY <1>2 DEF Sorted
  <2>2. \A k \in Keys : F[k] \subseteq G[k]
    BY <1>1, <1>3, <2>1, StepDraws DEF OfMode
  <2>3. Sorted(G)  BY <1>2, <2>2, Wider
  <2>4. Discreet(G)  BY DEF Discreet
  <2>5. \A m \in Modes, r \in Rooms : ModeOf(KeyIn(r, m)) = m
    BY KeysAre DEF ModeOf, KeyIn, Modes, Personal
  <2>6. \A x \in Surfaces : /\ KeyOf(x, mode[x]) \in Keys /\ ModeOf(KeyOf(x, mode[x])) = mode[x]
    BY <2>1, <2>5, KeyOfIs DEF Where
  <2>7. \A s \in Services : room[s] \in Keys /\ ModeOf(room[s]) = "collaborative"
    BY <2>1, KeysAre DEF Where, ModeOf
  <2>8. Fresh(G)
    <3>1. \A k \in Keys, n \in Strokes :
              n \in DOMAIN drawn' /\ drawn'[n].mode = ModeOf(k) => n \in G[k]
      BY <1>1 DEF OfMode
    <3>2. ASSUME NEW x \in Surfaces, addStroke(x)
          PROVE  Len(drawn') \in G[KeyOf(x, mode[x])]
      <4>1. /\ Len(drawn') \in Strokes /\ Len(drawn') \in DOMAIN drawn'
            /\ drawn'[Len(drawn')] = [room |-> RoomOf(x), mode |-> mode[x]]
        BY <1>3, <2>1, <3>2, StepDraws
      <4> QED BY <2>6, <3>1, <4>1
    <3>3. ASSUME NEW s \in Services, RemoteStroke(s)
          PROVE  Len(drawn') \in G[room[s]]
      <4>1. /\ Len(drawn') \in Strokes /\ Len(drawn') \in DOMAIN drawn'
            /\ drawn'[Len(drawn')] = [room |-> room[s], mode |-> "collaborative"]
        BY <1>3, <2>1, <3>3, StepDraws
      <4> QED BY <2>7, <3>1, <4>1
    <3> QED BY <3>2, <3>3 DEF Fresh
  <2>9. Sorted(G)'  BY <1>2, <1>3, <2>3, <2>4, <2>8, StepSorts
  <2> QED BY <1>1, <2>9
<1>4. CASE UNCHANGED vars
  <2>1. F = G  BY <1>1, <1>4 DEF vars
  <2>2. Sorted(G)'  BY <1>2, <1>4, <2>1, StutterSorts
  <2> QED BY <1>1, <2>2
<1> QED BY <1>3, <1>4

\* Nobody but widgets draws here, or there is nobody to tell.
Guarded == Drawers \cap Services = {} \/ \A s \in Services : Surfaces = {s}

LEMMA OfRoomStep ==
    ASSUME SurfacesAssumption, Guarded, Sorted(OfRoom(drawn)), [Next]_vars
    PROVE  Sorted(OfRoom(drawn))'
<1>1. PICK F, G : F = OfRoom(drawn) /\ G = OfRoom(drawn')
  OBVIOUS
<1>2. F \in Families /\ G \in Families /\ Sorted(F)
  BY <1>1, FamiliesAre
<1>3. CASE Next
  <2>1. Where  BY <1>2 DEF Sorted
  <2>2. \A k \in Keys : F[k] \subseteq G[k]
    BY <1>1, <1>3, <2>1, StepDraws DEF OfRoom
  <2>3. Sorted(G)  BY <1>2, <2>2, Wider
  <2>4. Discreet(G)  BY DEF Discreet, Guarded
  <2>5. \A x \in Surfaces : /\ KeyOf(x, mode[x]) \in Keys
                            /\ KeyOf(x, mode[x]) = Personal \/ KeyOf(x, mode[x]) = RoomOf(x)
    BY <2>1, KeyOfIs DEF Where, KeyOf
  <2>6. \A s \in Services : room[s] \in Keys
    BY <2>1, KeysAre DEF Where
  <2>7. Fresh(G)
    <3>1. \A k \in Keys, n \in Strokes :
              k = Personal \/ (n \in DOMAIN drawn' /\ drawn'[n].room = k) => n \in G[k]
      BY <1>1 DEF OfRoom
    <3>2. ASSUME NEW x \in Surfaces, addStroke(x)
          PROVE  Len(drawn') \in G[KeyOf(x, mode[x])]
      <4>1. /\ Len(drawn') \in Strokes /\ Len(drawn') \in DOMAIN drawn'
            /\ drawn'[Len(drawn')] = [room |-> RoomOf(x), mode |-> mode[x]]
        BY <1>3, <2>1, <3>2, StepDraws
      <4> QED BY <2>5, <3>1, <4>1
    <3>3. ASSUME NEW s \in Services, RemoteStroke(s)
          PROVE  Len(drawn') \in G[room[s]]
      <4>1. /\ Len(drawn') \in Strokes /\ Len(drawn') \in DOMAIN drawn'
            /\ drawn'[Len(drawn')] = [room |-> room[s], mode |-> "collaborative"]
        BY <1>3, <2>1, <3>3, StepDraws
      <4> QED BY <2>6, <3>1, <4>1
    <3> QED BY <3>2, <3>3 DEF Fresh
  <2>8. Sorted(G)'  BY <1>2, <1>3, <2>3, <2>4, <2>7, StepSorts
  <2> QED BY <1>1, <2>8
<1>4. CASE UNCHANGED vars
  <2>1. F = G  BY <1>1, <1>4 DEF vars
  <2>2. Sorted(G)'  BY <1>2, <1>4, <2>1, StutterSorts
  <2> QED BY <1>1, <2>2
<1> QED BY <1>3, <1>4

LEMMA SortedTyped ==
    ASSUME SurfacesAssumption, Sorted(Anywhere)
    PROVE  TypeOK
<1>1. UNION {Anywhere[r] : r \in Rooms} \subseteq Strokes
  BY DEF Anywhere
<1> QED BY <1>1 DEF Sorted, Where, Shelved, TypeOK

LEMMA SortedPrivate ==
    ASSUME SurfacesAssumption, Sorted(OfMode(drawn))
    PROVE  PersonalStaysPrivate
<1>1. \A r \in Rooms : r \in Keys /\ ModeOf(r) # Personal
  BY KeysAre DEF ModeOf, Personal
<1> QED BY <1>1 DEF Sorted, OfMode, PersonalStaysPrivate

LEMMA SortedInRoom ==
    ASSUME SurfacesAssumption, Sorted(OfRoom(drawn))
    PROVE  OfItsRoom
<1> DEFINE F == OfRoom(drawn)
<1>1. \A r \in Rooms : r \in Keys /\ r # Personal /\ \A n \in F[r] : drawn[n].room = r
  BY KeysAre DEF OfRoom
<1>2. F \in Families /\ Sorted(F)  BY FamiliesAre
<1>3. ASSUME NEW s \in Services
      PROVE  board[s]["collaborative"].strokes \subseteq F[room[s]] /\ room[s] \in Rooms
  <2>1. KeyOf(s, "collaborative") = room[s] /\ room[s] \in Rooms /\ s \in Surfaces
        /\ "collaborative" \in Modes
    BY <1>2, KeyOfIs, KeysAre DEF Sorted, RoomOf, Where
  <2> HIDE DEF F
  <2> QED BY <1>2, <2>1, MyBoard
<1>4. ASSUME NEW r \in Rooms
      PROVE  stored[r].strokes \subseteq F[r]
  <2>1. stored[r] \in Book(F[r])  BY <1>1 DEF Sorted, Shelved
  <2> QED BY <2>1 DEF Book
<1> HIDE DEF F
<1> QED BY <1>1, <1>3, <1>4 DEF OfItsRoom

-----------------------------------------------------------------------------
(* A stroke on its way to the room *)

\* Nobody changes rooms here.
AtHome == moves = 0 /\ \A s \in Services : room[s] = Home

Notice(n) == [room |-> Home, change |-> Put(n)]
Coming(queues, n) ==
    \E s \in Services : \E i \in 1..Len(queues[s]) : queues[s][i] = Notice(n)

\* A shared stroke is published, or a service has still to read of it.
OnItsWay ==
    \A n \in DOMAIN drawn :
        drawn[n].mode = "collaborative" => n \in published \/ Coming(runtime, n)

LEMMA TellAdds ==
    ASSUME NEW X, NEW S, NEW queues \in [X -> Seq(S)], NEW targets, NEW msg, NEW x \in X
    PROVE  LET after == Tell(queues, targets, msg)[x] IN
           /\ \A i \in 1..Len(queues[x]) : i \in 1..Len(after) /\ after[i] = queues[x][i]
           /\ x \in targets => \E i \in 1..Len(after) : after[i] = msg
<1> DEFINE q == queues[x]
<1>1. q \in Seq(S) /\ Len(q) \in Nat  BY LenProperties
<1>2. CASE x \in targets
  <2>1. Tell(queues, targets, msg)[x] = Append(q, msg)  BY <1>2 DEF Tell
  <2> DEFINE T == S \cup {msg}
  <2>2. q \in Seq(T)  BY <1>1, SeqOfMore
  <2>3. msg \in T  OBVIOUS
  <2> HIDE DEF q, T
  <2>4. /\ Len(Append(q, msg)) = Len(q) + 1
        /\ \A i \in 1..Len(q) : Append(q, msg)[i] = q[i]
        /\ Append(q, msg)[Len(q) + 1] = msg
    BY <2>2, <2>3, AppendProperties
  <2>5. Len(q) + 1 \in 1..Len(Append(q, msg))  BY <1>1, <2>4
  <2> QED BY <1>1, <2>1, <2>4, <2>5 DEF q
<1>3. CASE x \notin targets
  BY <1>3 DEF Tell
<1> QED BY <1>2, <1>3

LEMMA TellComing ==
    ASSUME NEW S, NEW queues \in [Surfaces -> Seq(S)], NEW targets, NEW msg
    PROVE  /\ \A n : Coming(queues, n) => Coming(Tell(queues, targets, msg), n)
           /\ \A n : msg = Notice(n) /\ targets \cap Services # {} =>
                        Coming(Tell(queues, targets, msg), n)
<1>1. ASSUME NEW s \in Services
      PROVE  LET after == Tell(queues, targets, msg)[s] IN
             /\ \A i \in 1..Len(queues[s]) : i \in 1..Len(after) /\ after[i] = queues[s][i]
             /\ s \in targets => \E i \in 1..Len(after) : after[i] = msg
  <2>1. s \in Surfaces  OBVIOUS
  <2> QED BY <2>1, TellAdds
<1> QED BY <1>1 DEF Coming

LEMMA EditTells ==
    ASSUME SurfacesAssumption, Services # {}, AtHome, NEW F, Sorted(F), NEW x \in Surfaces,
           NEW b, NEW c, edit(x, b, c)
    PROVE  /\ \A n : Coming(runtime, n) => Coming(runtime', n)
           /\ published \subseteq published' /\ UNCHANGED <<room, moves>>
           /\ \A n : c = Put(n) /\ mode[x] = "collaborative" =>
                        n \in published' \/ Coming(runtime', n)
<1>1. runtime \in [Surfaces -> Seq(Notices(F))]  BY DEF Sorted
<1>2. CASE Tells(x, mode[x])
  <2>1. runtime' = Tell(runtime, Surfaces \ {x}, [room |-> RoomOf(x), change |-> c])
    BY <1>2 DEF edit, broadcastRuntime
  <2>2. PICK S : runtime \in [Surfaces -> Seq(S)]  BY <1>1
  <2>3. PICK targets, msg :
            /\ targets = Surfaces \ {x} /\ msg = [room |-> RoomOf(x), change |-> c]
            /\ runtime' = Tell(runtime, targets, msg)
    BY <2>1
  <2>4. /\ \A n : Coming(runtime, n) => Coming(runtime', n)
        /\ \A n : msg = Notice(n) /\ targets \cap Services # {} => Coming(runtime', n)
    BY <2>2, <2>3, TellComing
  <2>5. ASSUME NEW n, c = Put(n), mode[x] = "collaborative"
        PROVE  n \in published' \/ Coming(runtime', n)
    <3>1. CASE x \in Services
      BY <2>5, <3>1 DEF edit, Publish, Put
    <3>2. CASE x \notin Services
      <4>1. RoomOf(x) = Home /\ targets \cap Services # {}
        BY <2>3, <3>2 DEF RoomOf
      <4>2. msg = Notice(n)  BY <2>3, <2>5, <4>1 DEF Notice
      <4> QED BY <2>4, <4>1, <4>2
    <3> QED BY <3>1, <3>2
  <2> QED BY <2>4, <2>5 DEF edit, Publish
<1>3. CASE ~Tells(x, mode[x])
  BY <1>3 DEF edit, Publish, Tells
<1> QED BY <1>2, <1>3

LEMMA OnItsWayStep ==
    ASSUME SurfacesAssumption, Services # {}, MaxMoves = 0, AtHome, OnItsWay,
           Sorted(Anywhere), [Next]_vars
    PROVE  AtHome' /\ OnItsWay'
<1> DEFINE More == /\ UNCHANGED drawn /\ published \subseteq published' /\ UNCHANGED <<room, moves>>
                   /\ \A n \in DOMAIN drawn :
                          Coming(runtime, n) => Coming(runtime', n) \/ n \in published'
<1>1. More => AtHome' /\ OnItsWay'
  BY DEF AtHome, OnItsWay
<1>2. Where /\ runtime \in [Surfaces -> Seq(Notices(Anywhere))]
  BY DEF Sorted
<1>3. ASSUME NEW r \in Rooms, NEW m \in Modes, Len(drawn) < MaxStrokes,
             drawn' = Append(drawn, [room |-> r, mode |-> m])
      PROVE  /\ DOMAIN drawn' = DOMAIN drawn \cup {Len(drawn')}
             /\ \A n \in DOMAIN drawn : drawn'[n] = drawn[n]
             /\ drawn'[Len(drawn')].mode = m
  <2>1. /\ Len(drawn') = Len(drawn) + 1 /\ Len(drawn) \in Nat
        /\ DOMAIN drawn = 1..Len(drawn) /\ DOMAIN drawn' = 1..(Len(drawn) + 1)
        /\ \A n \in DOMAIN drawn : drawn'[n] = drawn[n]
        /\ drawn'[Len(drawn')] = [room |-> r, mode |-> m]
    BY <1>2, <1>3, DrawnGrows
  <2>2. 1..(Len(drawn) + 1) = 1..Len(drawn) \cup {Len(drawn) + 1}
    BY <2>1
  <2> QED BY <2>1, <2>2
<1>4. ASSUME NEW x \in Surfaces, addStroke(x)
      PROVE  AtHome' /\ OnItsWay'
  <2>1. /\ drawn' = Append(drawn, [room |-> RoomOf(x), mode |-> mode[x]])
        /\ Len(drawn) < MaxStrokes
        /\ edit(x, [strokes |-> board[x][mode[x]].strokes \cup {Len(drawn')}, redo |-> <<>>],
                Put(Len(drawn')))
    BY <1>4 DEF addStroke
  <2>2. /\ \A n : Coming(runtime, n) => Coming(runtime', n)
        /\ published \subseteq published' /\ UNCHANGED <<room, moves>>
        /\ mode[x] = "collaborative" =>
               Len(drawn') \in published' \/ Coming(runtime', Len(drawn'))
    BY <2>1, EditTells
  <2>3. RoomOf(x) \in Rooms /\ mode[x] \in Modes  BY <1>2, KeyOfIs DEF Where
  <2>4. /\ DOMAIN drawn' = DOMAIN drawn \cup {Len(drawn')}
        /\ \A n \in DOMAIN drawn : drawn'[n] = drawn[n]
        /\ drawn'[Len(drawn')].mode = mode[x]
    BY <1>3, <2>1, <2>3
  <2> QED BY <2>2, <2>4 DEF AtHome, OnItsWay
<1>5. ASSUME NEW s \in Services, RemoteStroke(s)
      PROVE  AtHome' /\ OnItsWay'
  <2>1. /\ drawn' = Append(drawn, [room |-> room[s], mode |-> "collaborative"])
        /\ Len(drawn) < MaxStrokes /\ broadcastRuntime(s, Put(Len(drawn')))
        /\ published' = published \cup {Len(drawn')} /\ UNCHANGED <<room, moves>>
    BY <1>5 DEF RemoteStroke
  <2>2. \A n : Coming(runtime, n) => Coming(runtime', n)
    <3>1. PICK S : runtime \in [Surfaces -> Seq(S)]  BY <1>2
    <3>2. PICK targets, msg : runtime' = Tell(runtime, targets, msg)
      BY <2>1 DEF broadcastRuntime
    <3> QED BY <3>1, <3>2, TellComing
  <2>3. room[s] \in Rooms /\ "collaborative" \in Modes  BY <1>2, KeysAre DEF Where
  <2>4. /\ DOMAIN drawn' = DOMAIN drawn \cup {Len(drawn')}
        /\ \A n \in DOMAIN drawn : drawn'[n] = drawn[n]
    BY <1>3, <2>1, <2>3
  <2> QED BY <2>1, <2>2, <2>4 DEF AtHome, OnItsWay
<1>6. ASSUME NEW x \in Surfaces, NEW b, NEW c, edit(x, b, c), UNCHANGED drawn
      PROVE  More
  BY <1>6, EditTells
<1>7. ASSUME NEW x \in Surfaces, redo(x) \/ clearAll(x) \/ \E n \in Strokes : deleteStroke(x, n)
      PROVE  More
  <2>1. UNCHANGED drawn
    BY <1>7 DEF redo, clearAll, deleteStroke, Act
  <2>2. \E b, c : edit(x, b, c)
    BY <1>7 DEF redo, clearAll, deleteStroke
  <2> HIDE DEF More
  <2> QED BY <1>6, <2>1, <2>2
<1>8. ASSUME NEW s \in Services, OnRuntimeService(s)
      PROVE  More
  <2> DEFINE q == runtime[s]
  <2>1. UNCHANGED drawn /\ published \subseteq published' /\ UNCHANGED <<room, moves>>
    BY <1>8 DEF OnRuntimeService, Publish
  <2>2. q \in Seq(Notices(Anywhere)) /\ q # <<>> /\ runtime' = [runtime EXCEPT ![s] = Tail(q)]
    BY <1>2, <1>8 DEF OnRuntimeService, Taken
  <2>3. /\ Len(q) \in Nat /\ Len(Tail(q)) = Len(q) - 1
        /\ \A i \in 1..(Len(q) - 1) : Tail(q)[i] = q[i + 1]
    BY <2>2, HeadTailProperties, LenProperties
  <2>4. Head(q) = q[1]  BY <2>2
  <2>5. ASSUME NEW n, Head(q) = Notice(n)
        PROVE  n \in published'
    BY <1>8, <2>5 DEF OnRuntimeService, First, Notice, Put, Publish, StrokeToPublish, AtHome
  <2>6. ASSUME NEW n, NEW t \in Services, NEW i \in 1..Len(runtime[t]), runtime[t][i] = Notice(n)
        PROVE  Coming(runtime', n) \/ n \in published'
    <3>1. CASE t # s
      <4>1. runtime'[t] = runtime[t]  BY <2>2, <3>1
      <4> QED BY <2>6, <4>1 DEF Coming
    <3>2. CASE t = s /\ i = 1
      BY <2>4, <2>5, <2>6, <3>2
    <3>3. CASE t = s /\ i # 1
      <4>1. runtime'[s] = Tail(q)  BY <1>2, <2>2
      <4>2. i - 1 \in 1..(Len(q) - 1) /\ (i - 1) + 1 = i  BY <2>3, <3>3
      <4>3. Tail(q)[i - 1] = q[i]  BY <2>3, <4>2
      <4> QED BY <2>3, <2>6, <3>3, <4>1, <4>2, <4>3 DEF Coming
    <3> QED BY <3>1, <3>2, <3>3
  <2>7. \A n : Coming(runtime, n) => Coming(runtime', n) \/ n \in published'
    BY <2>6 DEF Coming
  <2> QED BY <2>1, <2>7
<1>9. ASSUME NEW w \in Widgets, OnRuntimeWidget(w)
      PROVE  More
  <2>1. \A s \in Services : runtime'[s] = runtime[s]
    BY <1>2, <1>9 DEF OnRuntimeWidget, Taken, SurfacesAssumption
  <2> QED BY <1>9, <2>1 DEF OnRuntimeWidget, Coming
<1>10. ASSUME NEW s \in Services, NEW r \in Rooms, setRoom(s, r)
       PROVE  FALSE
  BY <1>10 DEF setRoom, AtHome
<1>11. CASE \/ \E x \in Surfaces : OnChange(x) \/ \E m \in Modes : setPrivacyMode(x, m)
            \/ \E s \in Services : OnBus(s) \/ \E load \in loads[s] : Hydrate(s, load)
            \/ UNCHANGED vars
  BY <1>1, <1>11 DEF OnChange, setPrivacyMode, OnBus, Hydrate, vars, Act
<1> HIDE DEF More
<1> QED BY <1>1, <1>4, <1>5, <1>7, <1>8, <1>9, <1>10, <1>11 DEF Next

LEMMA OnItsWayPublishes ==
    ASSUME OnItsWay
    PROVE  DrawnIsPublished
<1>1. ASSUME Quiet, NEW n
      PROVE  ~Coming(runtime, n)
  <2>1. \A s \in Services : runtime[s] = <<>>  BY <1>1 DEF Quiet
  <2> QED BY <2>1, EmptySeq DEF Coming
<1> QED BY <1>1 DEF OnItsWay, DrawnIsPublished

-----------------------------------------------------------------------------
(* A service's own writes *)

\* A set of numbers has a least one.
LEMMA LeastNatural ==
    ASSUME NEW S, S \subseteq Nat, S # {}
    PROVE  Min(S) \in S /\ \A n \in S : Min(S) <= n
<1>1. \E m \in S : \A n \in S : ~(<<n, m>> \in OpToRel(<, Nat))
  BY NatLessThanWellFounded, WFMin
<1>2. OpToRel(<, Nat) = {ss \in Nat \X Nat : ss[1] < ss[2]}
  BY DEF OpToRel
<1>3. \E m \in S : \A n \in S : m <= n
  <2>1. PICK m \in S : \A n \in S : ~(<<n, m>> \in {ss \in Nat \X Nat : ss[1] < ss[2]})
    BY <1>1, <1>2
  <2>2. ASSUME NEW n \in S
        PROVE  m <= n
    <3>1. n \in Nat /\ m \in Nat  OBVIOUS
    <3>2. ~(n < m)  BY <2>1, <3>1
    <3> QED BY <3>1, <3>2
  <2> QED BY <2>2
<1> QED BY <1>3 DEF Min

\* The place found is one that passes the test.
LEMMA FoundIn ==
    ASSUME NEW q, Len(q) \in Nat, NEW e, \E i \in 1..Len(q) : q[i] = e
    PROVE  LET j == SelectInSeq(q, LAMBDA entry : entry = e) IN
           j \in 1..Len(q) /\ q[j] = e
<1> DEFINE I == {i \in 1..Len(q) : q[i] = e}
<1>1. I \subseteq Nat /\ I # {}  OBVIOUS
<1>2. SelectInSeq(q, LAMBDA entry : entry = e) = Min(I)
  BY <1>1 DEF SelectInSeq
<1>3. Min(I) \in I
  <2> HIDE DEF I
  <2> QED BY <1>1, LeastNatural
<1> QED BY <1>2, <1>3

\* Every event is the echo of a write, each of its own.
Owned(events, writes) ==
    \E f \in [1..Len(events) -> 1..Len(writes)] :
        /\ \A i, j \in 1..Len(events) : f[i] = f[j] => i = j
        /\ \A i \in 1..Len(events) : writes[f[i]] = events[i]

LEMMA OwnedWrite ==
    ASSUME NEW S, NEW events \in Seq(S), NEW writes \in Seq(S), NEW e \in S,
           Owned(events, writes)
    PROVE  /\ Owned(events, Append(writes, e))
           /\ Owned(Append(events, e), Append(writes, e))
<1> DEFINE n == Len(events)
           k == Len(writes)
           more == Append(writes, e)
           longer == Append(events, e)
<1>1. n \in Nat /\ k \in Nat  BY LenProperties
<1>2. Len(more) = k + 1 /\ more[k + 1] = e /\ \A i \in 1..k : more[i] = writes[i]
  BY AppendProperties
<1>3. Len(longer) = n + 1 /\ longer[n + 1] = e /\ \A i \in 1..n : longer[i] = events[i]
  BY AppendProperties
<1>4. PICK f \in [1..n -> 1..k] :
          /\ \A i, j \in 1..n : f[i] = f[j] => i = j
          /\ \A i \in 1..n : writes[f[i]] = events[i]
  BY DEF Owned
<1> HIDE DEF n, k, more, longer
<1>5. f \in [1..n -> 1..(k + 1)] /\ \A i \in 1..n : more[f[i]] = events[i]
  BY <1>1, <1>2, <1>4
<1>6. Owned(events, more)
  BY <1>2, <1>4, <1>5 DEF Owned, n
<1>7. Owned(longer, more)
  <2> DEFINE g == [i \in 1..(n + 1) |-> IF i = n + 1 THEN k + 1 ELSE f[i]]
  <2>1. \A i \in 1..(n + 1) : i = n + 1 \/ i \in 1..n  BY <1>1
  <2>2. g \in [1..(n + 1) -> 1..(k + 1)]  BY <1>1, <1>5, <2>1
  <2>3. \A i \in 1..n : f[i] # k + 1  BY <1>1, <1>4
  <2>4. \A i, j \in 1..(n + 1) : g[i] = g[j] => i = j
    BY <1>4, <2>1, <2>3
  <2>5. \A i \in 1..(n + 1) : more[g[i]] = longer[i]
    <3>1. ASSUME NEW i \in 1..(n + 1)
          PROVE  more[g[i]] = longer[i]
      <4>1. CASE i = n + 1  BY <1>2, <1>3, <4>1
      <4>2. CASE i # n + 1
        <5>1. i \in 1..n /\ g[i] = f[i]  BY <2>1, <4>2
        <5> QED BY <1>3, <1>5, <5>1
      <4> QED BY <4>1, <4>2
    <3> QED BY <3>1
  <2> HIDE DEF g
  <2> QED BY <1>2, <1>3, <2>2, <2>4, <2>5 DEF Owned
<1> QED BY <1>6, <1>7 DEF more, longer

LEMMA OwnedRead ==
    ASSUME NEW S, NEW events \in Seq(S), NEW writes \in Seq(S), events # <<>>,
           Owned(events, writes)
    PROVE  /\ \E i \in 1..Len(writes) : writes[i] = Head(events)
           /\ Owned(Tail(events), writes)
           /\ \A j \in 1..Len(writes) :
                  writes[j] = Head(events) => Owned(Tail(events), RemoveAt(writes, j))
<1> DEFINE n == Len(events)
           k == Len(writes)
           rest == Tail(events)
<1>1. n \in Nat /\ k \in Nat /\ n >= 1  BY LenProperties, EmptySeq
<1>2. Len(rest) = n - 1 /\ \A i \in 1..(n - 1) : rest[i] = events[i + 1]
  BY HeadTailProperties
<1>3. Head(events) = events[1]  OBVIOUS
<1>4. PICK f \in [1..n -> 1..k] :
          /\ \A i, j \in 1..n : f[i] = f[j] => i = j
          /\ \A i \in 1..n : writes[f[i]] = events[i]
  BY DEF Owned
<1>5. 1 \in 1..n /\ \A i \in 1..(n - 1) : i + 1 \in 1..n /\ i + 1 # 1
  BY <1>1
<1> HIDE DEF n, k, rest
<1>6. \E i \in 1..k : writes[i] = Head(events)
  BY <1>3, <1>4, <1>5
<1>7. Owned(rest, writes)
  <2> DEFINE g == [i \in 1..(n - 1) |-> f[i + 1]]
  <2>1. g \in [1..(n - 1) -> 1..k]  BY <1>5
  <2>2. \A i, j \in 1..(n - 1) : g[i] = g[j] => i = j
    BY <1>1, <1>4, <1>5
  <2>3. \A i \in 1..(n - 1) : writes[g[i]] = rest[i]
    BY <1>2, <1>4, <1>5
  <2> HIDE DEF g
  <2> QED BY <1>2, <2>1, <2>2, <2>3 DEF Owned, k
<1>8. ASSUME NEW j \in 1..k, writes[j] = Head(events)
      PROVE  Owned(rest, RemoveAt(writes, j))
  <2> DEFINE less == RemoveAt(writes, j)
             \* The write e's place stands for: that of the head is free.
             place(i) == IF f[i + 1] = j THEN f[1] ELSE f[i + 1]
             g == [i \in 1..(n - 1) |-> IF place(i) < j THEN place(i) ELSE place(i) - 1]
  <2>1. /\ Len(less) = k - 1
        /\ \A i \in 1..(k - 1) : less[i] = IF i < j THEN writes[i] ELSE writes[i + 1]
    <3>1. \A i \in 1..k : writes[i] \in S  BY ElementOfSeq DEF k
    <3> DEFINE front == SubSeq(writes, 1, j - 1)
               back == SubSeq(writes, j + 1, k)
    <3>2. /\ front \in Seq(S) /\ Len(front) = j - 1
          /\ \A i \in 1..(j - 1) : front[i] = writes[i]
      <4>1. \A i \in 1..(j - 1) : writes[i] \in S  BY <1>1, <3>1
      <4>2. /\ front \in Seq(S) /\ Len(front) = IF 1 <= j - 1 THEN (j - 1) - 1 + 1 ELSE 0
            /\ \A i \in 1..((j - 1) - 1 + 1) : front[i] = writes[1 + i - 1]
        BY <1>1, <4>1, SubSeqProperties
      <4> HIDE DEF front
      <4> QED BY <1>1, <4>2
    <3>3. /\ back \in Seq(S) /\ Len(back) = k - j
          /\ \A i \in 1..(k - j) : back[i] = writes[j + i]
      <4>1. \A i \in (j + 1)..k : writes[i] \in S  BY <1>1, <3>1
      <4>2. /\ back \in Seq(S) /\ Len(back) = IF j + 1 <= k THEN k - (j + 1) + 1 ELSE 0
            /\ \A i \in 1..(k - (j + 1) + 1) : back[i] = writes[(j + 1) + i - 1]
        BY <1>1, <4>1, SubSeqProperties
      <4> HIDE DEF back
      <4> QED BY <1>1, <4>2
    <3>4. less = front \o back  BY DEF RemoveAt, k
    <3> HIDE DEF front, back, less
    <3>5. /\ Len(less) = (j - 1) + (k - j)
          /\ \A i \in 1..((j - 1) + (k - j)) :
                 less[i] = IF i <= j - 1 THEN front[i] ELSE back[i - (j - 1)]
      <4>1. /\ Len(front \o back) = Len(front) + Len(back)
            /\ \A i \in 1..(Len(front) + Len(back)) : (front \o back)[i] =
                   IF i <= Len(front) THEN front[i] ELSE back[i - Len(front)]
        BY <3>2, <3>3, ConcatProperties
      <4> QED BY <3>2, <3>3, <3>4, <4>1
    <3>6. (j - 1) + (k - j) = k - 1  BY <1>1
    <3>7. ASSUME NEW i \in 1..(k - 1)
          PROVE  less[i] = IF i < j THEN writes[i] ELSE writes[i + 1]
      <4>1. CASE i < j
        <5>1. i <= j - 1 /\ i \in 1..(j - 1)  BY <1>1, <4>1
        <5> QED BY <3>2, <3>5, <3>6, <4>1, <5>1
      <4>2. CASE ~(i < j)
        <5>1. ~(i <= j - 1) /\ i - (j - 1) \in 1..(k - j) /\ j + (i - (j - 1)) = i + 1
          BY <1>1, <4>2
        <5> QED BY <3>3, <3>5, <3>6, <4>2, <5>1
      <4> QED BY <4>1, <4>2
    <3> QED BY <3>5, <3>6, <3>7
  <2>2. \A i \in 1..(n - 1) : /\ place(i) \in 1..k /\ place(i) # j
                              /\ writes[place(i)] = rest[i]
    BY <1>2, <1>3, <1>4, <1>5, <1>8
  <2>3. \A i, h \in 1..(n - 1) : place(i) = place(h) => i = h
    BY <1>1, <1>4, <1>5
  <2> HIDE DEF less, place
  <2>4. g \in [1..(n - 1) -> 1..(k - 1)]
    BY <1>1, <2>2
  <2>5. \A i, h \in 1..(n - 1) : g[i] = g[h] => i = h
    <3>1. ASSUME NEW i \in 1..(n - 1), NEW h \in 1..(n - 1), g[i] = g[h]
          PROVE  place(i) = place(h)
      BY <1>1, <2>2, <3>1
    <3> QED BY <2>3, <3>1
  <2>6. \A i \in 1..(n - 1) : less[g[i]] = rest[i]
    <3>1. ASSUME NEW i \in 1..(n - 1)
          PROVE  less[g[i]] = rest[i]
      <4>1. place(i) \in 1..k /\ place(i) # j /\ g[i] \in 1..(k - 1)  BY <2>2, <2>4
      <4>2. CASE place(i) < j
        <5>1. g[i] = place(i)  BY <4>2
        <5> QED BY <2>1, <2>2, <4>1, <4>2, <5>1
      <4>3. CASE ~(place(i) < j)
        <5>1. g[i] = place(i) - 1  BY <4>3
        <5>2. ~(g[i] < j) /\ g[i] + 1 = place(i)
          <6> HIDE DEF g
          <6> QED BY <1>1, <4>1, <4>3, <5>1
        <5> QED BY <2>1, <2>2, <4>1, <5>2
      <4> QED BY <4>2, <4>3
    <3> QED BY <3>1
  <2> HIDE DEF g
  <2>7. Len(rest) = n - 1 /\ Len(less) = k - 1  BY <1>2, <2>1
  <2>8. Owned(rest, less)  BY <2>4, <2>5, <2>6, <2>7 DEF Owned
  <2> QED BY <2>8 DEF less
<1> QED BY <1>6, <1>7, <1>8 DEF rest, k

LEMMA RemovedIsSeq ==
    ASSUME NEW S, NEW q \in Seq(S), NEW j \in 1..Len(q)
    PROVE  RemoveAt(q, j) \in Seq(S)
<1>1. Len(q) \in Nat /\ \A i \in 1..Len(q) : q[i] \in S  BY LenProperties, ElementOfSeq
<1>2. SubSeq(q, 1, j - 1) \in Seq(S)
  <2>1. \A i \in 1..(j - 1) : q[i] \in S  BY <1>1
  <2> QED BY <1>1, <2>1, SubSeqProperties
<1>3. SubSeq(q, j + 1, Len(q)) \in Seq(S)
  <2>1. \A i \in (j + 1)..Len(q) : q[i] \in S  BY <1>1
  <2> QED BY <1>1, <2>1, SubSeqProperties
<1> QED BY <1>2, <1>3, ConcatProperties DEF RemoveAt

-----------------------------------------------------------------------------
(* A panel on its own *)

\* It hears of nothing but its own writes, and shows what is stored.
Alone(s) ==
    /\ bus[s] = <<>> /\ runtime[s] = <<>>
    /\ hydrated[s] => board[s]["collaborative"] = stored[room[s]]
    /\ ownWrites \in [Services -> Seq(Events(Anywhere))]
    /\ Owned(changes[s], ownWrites[s])

LEMMA LoneWrite ==
    ASSUME SurfacesAssumption, Sorted(Anywhere), Sorted(Anywhere)', NEW s, Services = {s},
           NEW k \in Keys, NEW b, write(s, k, b), Alone(s)
    PROVE  /\ ownWrites' \in [Services -> Seq(Events(Anywhere))] /\ Owned(changes'[s], ownWrites'[s])
           /\ stored' = [stored EXCEPT ![k] = b] /\ stored'[k] = b
<1> DEFINE e == [key |-> k, value |-> b]
<1>1. stored' = [stored EXCEPT ![k] = b] /\ stored'[k] = b
  BY DEF write, Sorted, Shelved
<1>2. e \in Events(Anywhere)
  <2>1. b \in Notebook /\ b \in Book(Anywhere[k])  BY <1>1 DEF Sorted, Shelved
  <2> QED BY <2>1 DEF Events
<1>3. s \in Surfaces /\ changes[s] \in Seq(Events(Anywhere))  BY DEF Sorted
<1>4. changes'[s] = changes[s] \/ changes'[s] = Append(changes[s], e)
  BY <1>3 DEF write, Tell, Sorted
<1>5. /\ ownWrites' = [ownWrites EXCEPT ![s] = Append(ownWrites[s], e)]
      /\ ownWrites'[s] = Append(ownWrites[s], e) /\ ownWrites[s] \in Seq(Events(Anywhere))
  BY DEF write, Alone
<1> HIDE DEF e
<1>6. ownWrites' \in [Services -> Seq(Events(Anywhere))]
  <2>1. Append(ownWrites[s], e) \in Seq(Events(Anywhere))  BY <1>2, <1>5, AppendProperties
  <2> QED BY <1>5, <2>1 DEF Alone
<1>7. Owned(changes'[s], ownWrites'[s])
  BY <1>2, <1>3, <1>4, <1>5, OwnedWrite DEF Alone
<1> QED BY <1>1, <1>6, <1>7

LEMMA LoneSave ==
    ASSUME SurfacesAssumption, Sorted(Anywhere), Sorted(Anywhere)', NEW s, Services = {s},
           Alone(s), NEW m \in Modes, NEW b, save(s, m, b), UNCHANGED <<room, hydrated>>,
           board[s][m].strokes \subseteq b.strokes \cup removed'
    PROVE  /\ ownWrites' \in [Services -> Seq(Events(Anywhere))] /\ Owned(changes'[s], ownWrites'[s])
           /\ hydrated'[s] => board'[s]["collaborative"] = stored'[room'[s]]
           /\ StoredKept
<1> DEFINE C == "collaborative"
<1>1. s \in Surfaces /\ room[s] \in Rooms /\ RoomOf(s) = room[s] /\ KeyOf(s, m) \in Keys
  BY KeyOfIs DEF Sorted, RoomOf
<1>2. m = Personal \/ m = C  BY DEF Modes, Personal
<1>3. board' = [board EXCEPT ![s][m] = b]  BY DEF save
<1>4. CASE Waiting(s, m)
  <2>1. UNCHANGED <<stored, ownWrites, changes>>  BY <1>4 DEF save
  <2>2. ~hydrated[s]  BY <1>4 DEF Waiting
  <2> QED BY <2>1, <2>2 DEF Alone, StoredKept
<1>5. CASE ~Waiting(s, m)
  <2>1. write(s, KeyOf(s, m), b)  BY <1>5 DEF save
  <2>2. /\ ownWrites' \in [Services -> Seq(Events(Anywhere))] /\ Owned(changes'[s], ownWrites'[s])
        /\ stored' = [stored EXCEPT ![KeyOf(s, m)] = b] /\ stored'[KeyOf(s, m)] = b
    BY <1>1, <2>1, LoneWrite
  <2>3. CASE m = Personal
    <3>1. KeyOf(s, m) = Personal  BY <2>3 DEF KeyOf
    <3>2. \A r \in Rooms : stored'[r] = stored[r]
      BY <2>2, <3>1, KeysAre DEF Sorted, Shelved
    <3>3. board'[s][C] = board[s][C]
      BY <1>1, <1>3, <2>3 DEF Personal, Sorted, Shelved
    <3> QED BY <1>1, <2>2, <3>2, <3>3 DEF Alone, StoredKept
  <2>4. CASE m = C
    <3>1. KeyOf(s, m) = room[s] /\ hydrated[s]
      BY <1>1, <1>5, <2>4 DEF KeyOf, Waiting, Personal, Sorted, Where
    <3>2. board'[s][C] = b
      BY <1>1, <1>3, <2>4 DEF Sorted, Shelved, Modes
    <3>3. stored[room[s]].strokes \subseteq b.strokes \cup removed'
      BY <2>4, <3>1 DEF Alone
    <3>4. StoredKept
      BY <2>2, <3>1, <3>3 DEF StoredKept, Sorted, Shelved
    <3> QED BY <2>2, <3>1, <3>2, <3>4
  <2> QED BY <1>2, <2>3, <2>4
<1> QED BY <1>4, <1>5

LEMMA LoneEdit ==
    ASSUME SurfacesAssumption, Sorted(Anywhere), Sorted(Anywhere)', NEW s, Services = {s},
           Surfaces = {s}, Alone(s),
           NEW b, NEW c, edit(s, b, c),
           board[s][mode[s]].strokes \subseteq b.strokes \cup removed'
    PROVE  Alone(s)' /\ StoredKept
<1>1. save(s, mode[s], b) /\ UNCHANGED <<room, hydrated>> /\ mode[s] \in Modes
  BY DEF edit, Sorted, Where
<1>2. bus'[s] = bus[s]
  BY DEF edit, broadcastLocal, Tell, Sorted
<1>3. runtime'[s] = runtime[s]
  BY DEF edit, broadcastRuntime, Tell, Sorted
<1>4. /\ ownWrites' \in [Services -> Seq(Events(Anywhere))] /\ Owned(changes'[s], ownWrites'[s])
      /\ hydrated'[s] => board'[s]["collaborative"] = stored'[room'[s]]
      /\ StoredKept
  BY <1>1, LoneSave
<1> QED BY <1>2, <1>3, <1>4 DEF Alone

LEMMA LoneStep ==
    ASSUME SurfacesAssumption, Sorted(Anywhere), Sorted(Anywhere)', NEW s, Services = {s},
           Widgets = {}, Alone(s), [Next]_vars
    PROVE  Alone(s)' /\ StoredKept
<1> DEFINE C == "collaborative"
<1>1. /\ Surfaces = {s} /\ s \in Services /\ room[s] \in Rooms /\ room[s] \in Keys
      /\ mode[s] \in Modes /\ RoomOf(s) = room[s]
  BY KeysAre DEF Sorted, Where, RoomOf
<1>2. ASSUME NEW b, NEW c, edit(s, b, c),
             board[s][mode[s]].strokes \subseteq b.strokes \cup removed'
      PROVE  Alone(s)' /\ StoredKept
  BY <1>1, <1>2, LoneEdit
<1>3. CASE addStroke(s)
  <2> DEFINE b == [strokes |-> board[s][mode[s]].strokes \cup {Len(drawn')}, redo |-> <<>>]
  <2>1. edit(s, b, Put(Len(drawn'))) /\ board[s][mode[s]].strokes \subseteq b.strokes
    BY <1>3 DEF addStroke
  <2> HIDE DEF b
  <2> QED BY <1>2, <2>1
<1>4. CASE \E n \in Strokes : deleteStroke(s, n)
  <2>1. PICK n \in Strokes : deleteStroke(s, n)  BY <1>4
  <2> DEFINE b == [strokes |-> board[s][mode[s]].strokes \ {n},
                   redo |-> Append(board[s][mode[s]].redo, n)]
  <2>2. edit(s, b, Take(n)) /\ board[s][mode[s]].strokes \subseteq b.strokes \cup removed'
    BY <2>1 DEF deleteStroke
  <2> HIDE DEF b
  <2> QED BY <1>2, <2>2
<1>5. CASE redo(s)
  <2> DEFINE b == [strokes |-> board[s][mode[s]].strokes \cup {Last(RedoStack(s))},
                   redo |-> Front(RedoStack(s))]
  <2>1. /\ edit(s, b, Put(Last(RedoStack(s))))
        /\ board[s][mode[s]].strokes \subseteq b.strokes
    BY <1>5 DEF redo
  <2> HIDE DEF b
  <2> QED BY <1>2, <2>1
<1>6. CASE clearAll(s)
  <2> DEFINE b == [strokes |-> {}, redo |-> SetToSeq(board[s][mode[s]].strokes)]
  <2>1. edit(s, b, Wipe) /\ board[s][mode[s]].strokes \subseteq removed'
    BY <1>6 DEF clearAll
  <2> HIDE DEF b
  <2> QED BY <1>2, <2>1
<1>7. CASE RemoteStroke(s)
  <2> DEFINE n == Len(drawn')
  <2>1. /\ save(s, C, Changed(board[s][C], Put(n))) /\ UNCHANGED <<room, hydrated>>
        /\ bus'[s] = bus[s] /\ runtime'[s] = runtime[s]
    BY <1>1, <1>7 DEF RemoteStroke, broadcastLocal, broadcastRuntime, Tell, Sorted
  <2>2. board[s][C].strokes \subseteq Changed(board[s][C], Put(n)).strokes
    <3>1. board[s][C] \in Notebook /\ C \in Modes  BY <1>1 DEF Sorted, Shelved, Modes
    <3>2. Changed(board[s][C], Put(n)) = [board[s][C] EXCEPT !.strokes = @ \cup {n}]
      BY DEF Changed, Put
    <3> QED BY <3>1, <3>2 DEF Notebook
  <2>3. C \in Modes  BY DEF Modes
  <2> HIDE DEF n, C
  <2>4. /\ ownWrites' \in [Services -> Seq(Events(Anywhere))] /\ Owned(changes'[s], ownWrites'[s])
        /\ hydrated'[s] => board'[s]["collaborative"] = stored'[room'[s]]
        /\ StoredKept
    BY <2>1, <2>2, <2>3, LoneSave
  <2> QED BY <2>1, <2>4 DEF Alone
<1>8. CASE \E m \in Modes : setPrivacyMode(s, m)
  <2>1. PICK m \in Modes : setPrivacyMode(s, m)  BY <1>8
  <2>2. Saved(s) = stored  BY <1>1 DEF Saved
  <2>3. /\ UNCHANGED <<room, hydrated, board, stored, ownWrites, bus, runtime>>
        /\ changes'[s] = changes[s] \o SetToSeq({}) \o <<>>
    <3>1. {[key |-> k, value |-> Saved(s)[k]] : k \in {k \in Keys : Saved(s)[k] # stored[k]}} = {}
      BY <2>2
    <3> QED BY <1>1, <2>1, <2>2, <3>1 DEF setPrivacyMode
  <2>4. SetToSeq({}) = <<>>
    <3>1. SetToSeq({}) \in Seq({})  BY SeqOfSet, FS_EmptySet
    <3>2. Len(SetToSeq({})) \in Nat /\ \A i \in 1..Len(SetToSeq({})) : SetToSeq({})[i] \in {}
      BY <3>1, LenProperties, ElementOfSeq
    <3>3. Len(SetToSeq({})) = 0  BY <3>2
    <3> QED BY <3>1, <3>3, EmptySeq
  <2>5. changes[s] \in Seq(Events(Anywhere))  BY <1>1 DEF Sorted
  <2>6. changes'[s] = changes[s]  BY <2>3, <2>4, <2>5, ConcatEmptySeq
  <2> QED BY <2>3, <2>6 DEF Alone, StoredKept
<1>9. CASE OnChange(s)
  <2> DEFINE event == First(changes, s)
  <2>1. /\ changes[s] \in Seq(Events(Anywhere)) /\ changes[s] # <<>>
        /\ changes'[s] = Tail(changes[s]) /\ event = Head(changes[s])
        /\ UNCHANGED <<room, hydrated, stored, bus, runtime>>
    BY <1>1, <1>9 DEF OnChange, Sorted, Taken, First
  <2>2. ownWrites[s] \in Seq(Events(Anywhere)) /\ Owned(changes[s], ownWrites[s])
    BY DEF Alone
  <2>3. /\ \E i \in 1..Len(ownWrites[s]) : ownWrites[s][i] = event
        /\ Owned(changes'[s], ownWrites[s])
        /\ \A j \in 1..Len(ownWrites[s]) :
               ownWrites[s][j] = event => Owned(changes'[s], RemoveAt(ownWrites[s], j))
    BY <2>1, <2>2, OwnedRead
  <2>4. Len(ownWrites[s]) \in Nat  BY <2>2, LenProperties
  <2> HIDE DEF event
  <2>5. OwnWrite(s, event) \in 1..Len(ownWrites[s]) /\ ownWrites[s][OwnWrite(s, event)] = event
    BY <2>3, <2>4, FoundIn DEF OwnWrite
  <2>6. /\ board' = board
        /\ \/ ownWrites' = ownWrites
           \/ ownWrites' = [ownWrites EXCEPT ![s] = RemoveAt(@, OwnWrite(s, event))]
    BY <1>1, <1>9, <2>4, <2>5 DEF OnChange, event
  <2>7. RemoveAt(ownWrites[s], OwnWrite(s, event)) \in Seq(Events(Anywhere))
    BY <2>2, <2>5, RemovedIsSeq
  <2> QED BY <2>1, <2>2, <2>3, <2>5, <2>6, <2>7 DEF Alone, StoredKept
<1>10. CASE \E r \in Rooms : setRoom(s, r)
  <2>1. PICK r \in Rooms : setRoom(s, r)  BY <1>10
  <2>2. hydrated' = [hydrated EXCEPT ![s] = FALSE] /\ UNCHANGED <<bus, runtime>>
    BY <2>1 DEF setRoom
  <2>3. ~hydrated'[s]  BY <1>1, <2>2 DEF Sorted, Where
  <2>4. CASE hydrated[s]
    <3>1. write(s, room[s], board[s][C])  BY <2>1, <2>4 DEF setRoom
    <3>2. /\ ownWrites' \in [Services -> Seq(Events(Anywhere))] /\ Owned(changes'[s], ownWrites'[s])
          /\ stored' = [stored EXCEPT ![room[s]] = board[s][C]]
      BY <1>1, <3>1, LoneWrite
    <3>3. stored' = stored  BY <2>4, <3>2 DEF Alone, Sorted, Shelved
    <3> QED BY <2>2, <2>3, <3>2, <3>3 DEF Alone, StoredKept
  <2>5. CASE ~hydrated[s]
    <3>1. UNCHANGED <<stored, ownWrites, changes>>  BY <2>1, <2>5 DEF setRoom
    <3> QED BY <2>2, <2>3, <3>1 DEF Alone, StoredKept
  <2> QED BY <2>4, <2>5
<1>11. CASE \E load \in loads[s] : Hydrate(s, load)
  <2>1. PICK load : Hydrate(s, load)  BY <1>11
  <2>2. UNCHANGED <<room, bus, runtime>>  BY <2>1 DEF Hydrate
  <2>3. CASE ~IsCurrentRoom(s, load)
    <3>1. UNCHANGED <<hydrated, board, stored, ownWrites, changes>>
      BY <2>1, <2>3 DEF Hydrate
    <3> QED BY <2>2, <3>1 DEF Alone, StoredKept
  <2>4. CASE IsCurrentRoom(s, load)
    <3> DEFINE merged == mergeNotebooks(stored[room[s]], board[s][C])
               b == IF dirty[s] THEN merged ELSE stored[room[s]]
    <3>1. /\ board' = [board EXCEPT ![s][C] = b]
          /\ IF dirty[s] THEN write(s, room[s], b) ELSE UNCHANGED <<stored, ownWrites, changes>>
      BY <2>1, <2>4 DEF Hydrate, IsCurrentRoom
    <3>2. stored[room[s]].strokes \subseteq b.strokes
      BY DEF mergeNotebooks
    <3>3. ~dirty[s] => b = stored[room[s]]  OBVIOUS
    <3> HIDE DEF b
    <3>4. board'[s][C] = b
      BY <1>1, <3>1 DEF Sorted, Shelved, Modes
    <3>5. CASE dirty[s]
      <4>1. /\ ownWrites' \in [Services -> Seq(Events(Anywhere))] /\ Owned(changes'[s], ownWrites'[s])
            /\ stored' = [stored EXCEPT ![room[s]] = b] /\ stored'[room[s]] = b
        BY <1>1, <3>1, <3>5, LoneWrite
      <4>2. StoredKept  BY <3>2, <4>1 DEF StoredKept, Sorted, Shelved
      <4> QED BY <2>2, <3>4, <4>1, <4>2 DEF Alone
    <3>6. CASE ~dirty[s]
      <4>1. UNCHANGED <<stored, ownWrites, changes>>  BY <3>1, <3>6
      <4> QED BY <2>2, <3>3, <3>4, <3>6, <4>1 DEF Alone, StoredKept
    <3> QED BY <3>5, <3>6
  <2> QED BY <2>3, <2>4
<1>12. ~OnBus(s) /\ ~OnRuntimeService(s)
  BY DEF Alone, OnBus, OnRuntimeService
<1>13. CASE UNCHANGED vars
  BY <1>13 DEF vars, Alone, StoredKept
<1> QED BY <1>1, <1>3, <1>4, <1>5, <1>6, <1>7, <1>8, <1>9, <1>10, <1>11, <1>12, <1>13 DEF Next

-----------------------------------------------------------------------------
(* The theorems *)

LEMMA SortedAlways ==
    ASSUME SurfacesAssumption
    PROVE  Spec => []Sorted(Anywhere)
<1>1. Init => Sorted(Anywhere)  BY InitSorts, FamiliesAre
<1>2. Sorted(Anywhere) /\ [Next]_vars => Sorted(Anywhere)'  BY AnywhereStep
<1> QED BY <1>1, <1>2, PTL DEF Spec

\* Whatever surfaces there are, a notebook holds strokes, and what undo took off it.
THEOREM SurfacesTyped ==
    ASSUME SurfacesAssumption
    PROVE  Spec => []TypeOK
<1>1. Sorted(Anywhere) => TypeOK  BY SortedTyped
<1> QED BY <1>1, SortedAlways, PTL

LEMMA OfModeInit ==
    ASSUME SurfacesAssumption, Init
    PROVE  Sorted(OfMode(drawn))
<1>1. PICK F : F = OfMode(drawn)  OBVIOUS
<1> QED BY <1>1, InitSorts, FamiliesAre

\* Where only pages' widgets draw, no personal stroke is ever broadcast, whatever
\* room changes, late reads and messages come between.
THEOREM PersonalNeverLeaves ==
    ASSUME SurfacesAssumption, Drawers \cap Services = {}
    PROVE  Spec => []PersonalStaysPrivate
<1>1. Init => Sorted(OfMode(drawn))  BY OfModeInit
<1>2. Sorted(OfMode(drawn)) /\ [Next]_vars => Sorted(OfMode(drawn))'  BY OfModeStep
<1>3. Sorted(OfMode(drawn)) => PersonalStaysPrivate  BY SortedPrivate
<1> QED BY <1>1, <1>2, <1>3, PTL DEF Spec

LEMMA OfRoomInit ==
    ASSUME SurfacesAssumption, Init
    PROVE  Sorted(OfRoom(drawn))
<1>1. PICK F : F = OfRoom(drawn)  OBVIOUS
<1> QED BY <1>1, InitSorts, FamiliesAre

\* Whatever is read, written and told while rooms change, no stroke comes to the
\* board of another room, in memory or in storage.
THEOREM BoardsBelongToRooms ==
    ASSUME SurfacesAssumption, Guarded
    PROVE  Spec => []OfItsRoom
<1>1. Init => Sorted(OfRoom(drawn))  BY OfRoomInit
<1>2. Sorted(OfRoom(drawn)) /\ [Next]_vars => Sorted(OfRoom(drawn))'  BY OfRoomStep
<1>3. Sorted(OfRoom(drawn)) => OfItsRoom  BY SortedInRoom
<1> QED BY <1>1, <1>2, <1>3, PTL DEF Spec

LEMMA OnItsWayInit ==
    ASSUME Init, MaxMoves = 0
    PROVE  AtHome /\ OnItsWay
BY EmptySeq DEF Init, AtHome, OnItsWay

\* With a service there and no change of room, a stroke drawn on a shared board has
\* reached the room when nothing is on its way any more.
THEOREM SharedStrokesArrive ==
    ASSUME SurfacesAssumption, Services # {}, MaxMoves = 0
    PROVE  Spec => []DrawnIsPublished
<1>1. Init => AtHome /\ OnItsWay  BY OnItsWayInit
<1>2. Sorted(Anywhere) /\ (AtHome /\ OnItsWay) /\ [Next]_vars => (AtHome /\ OnItsWay)'
  BY OnItsWayStep
<1>3. AtHome /\ OnItsWay => DrawnIsPublished  BY OnItsWayPublishes
<1> QED BY <1>1, <1>2, <1>3, SortedAlways, PTL DEF Spec

LEMMA LoneInit ==
    ASSUME SurfacesAssumption, Init, NEW s, Services = {s}
    PROVE  Alone(s)
<1>1. bus[s] = <<>> /\ runtime[s] = <<>> /\ changes[s] = <<>> /\ ownWrites[s] = <<>>
  BY DEF Init, Empty
<1>2. board[s]["collaborative"] = stored[room[s]]
  BY DEF Init, Modes, SurfacesAssumption
<1>3. ownWrites \in [Services -> Seq(Events(Anywhere))]
  BY EmptySeq DEF Init, Empty
<1>4. Owned(<<>>, <<>>)
  <2>1. [i \in {} |-> i] \in [{} -> {}]  OBVIOUS
  <2>2. Len(<<>>) = 0 /\ 1..0 = {}  BY EmptySeq
  <2> QED BY <2>1, <2>2 DEF Owned
<1> QED BY <1>1, <1>2, <1>3, <1>4 DEF Alone

\* A panel on its own never writes over a stored stroke that nobody took off,
\* however room changes, reads and the echoes of its writes interleave.
THEOREM StoredStrokesStay ==
    ASSUME SurfacesAssumption, NEW s, Services = {s}, Widgets = {}
    PROVE  Spec => KeepsStored
<1>1. Init => Alone(s)  BY LoneInit
<1>2. Sorted(Anywhere) /\ Sorted(Anywhere)' /\ Alone(s) /\ [Next]_vars => Alone(s)' /\ StoredKept
  BY LoneStep
<1>3. Sorted(Anywhere) /\ Sorted(Anywhere)' /\ Alone(s) /\ [Next]_vars => Alone(s)' /\ [StoredKept]_vars
  BY <1>2
<1> QED BY <1>1, <1>3, SortedAlways, PTL DEF Spec, KeepsStored
=============================================================================
