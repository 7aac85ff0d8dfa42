------------------------ MODULE MakerWardrobeProofs ------------------------
(***************************************************************************)
(* Theorems about the wardrobe and completion, for any holders, items,     *)
(* Packs, loadouts and Souls, and any plan a Maker can be published with.  *)
(*                                                                         *)
(* A lock and the place it names are written by the same call, and no      *)
(* other call touches an item that is locked or a place that an item       *)
(* wears: that is LocksExact, which is inductive once a locked item is     *)
(* known to have a holder.  A wallet's free completions are bounded by its *)
(* counter, which a completion moves in the transaction it is priced in.   *)
(***************************************************************************)
EXTENDS MakerComplete, TLAPS, FiniteSetTheorems

WardrobeTyped ==
    /\ terms \in Plans
    /\ items \in [Items -> [holder : Users \cup {None}, epoch : Nat, listed : BOOLEAN,
                            lock : Locks \cup {None}]]
    /\ players \in [Players -> Users \cup {None}]
    /\ souls \in [Souls -> Ownerships \cup {None}]
    /\ binding \in [Souls -> Ownerships \cup {None}]
    /\ worn \in [Loadouts -> [Places -> Selections \cup {None}]]

(* What is worn belongs to somebody, and is worn at a place there is.       *)
LockedHeld ==
    \A a \in Items : items[a].lock # None =>
        items[a].holder \in Users /\ items[a].lock.place \in Places

WardrobeInv == WardrobeTyped /\ LockedHeld /\ LocksExact

-----------------------------------------------------------------------------
(* Places, locks and selections. *)

LEMMA ItemTyped ==
    ASSUME WardrobeTyped, NEW a \in Items
    PROVE  /\ items[a].holder \in Users \cup {None} /\ items[a].epoch \in Nat
           /\ items[a].listed \in BOOLEAN /\ items[a].lock \in Locks \cup {None}
           /\ items[a] = [holder |-> items[a].holder, epoch |-> items[a].epoch,
                          listed |-> items[a].listed, lock |-> items[a].lock]
  BY DEF WardrobeTyped

LEMMA PlaceTyped ==
    ASSUME WardrobeTyped, NEW l \in Loadouts, NEW k \in Places
    PROVE  [loadout |-> l, place |-> k] \in Locks /\ [loadout |-> l, place |-> k] # None
<1>1. terms.capacity \in Nat
  BY PlanAssumption DEF WardrobeTyped
<1>2. k \in Parts \X Nat
  BY <1>1 DEF Places
<1> QED BY <1>2, WardrobeAssumption DEF Locks

LEMMA SelectionTyped ==
    ASSUME NEW source \in {"base", "external", "pack"},
           NEW subject \in Items \cup Packs \cup {MakerPass}, NEW epoch \in Nat
    PROVE  Selection(source, subject, epoch) \in Selections /\ Selection(source, subject, epoch) # None
  BY WardrobeAssumption DEF Selection, Selections

(* One place of one loadout is written. *)
LEMMA Written ==
    ASSUME WardrobeTyped, NEW l \in Loadouts, NEW k \in Places,
           NEW s \in Selections \cup {None}, worn' = [worn EXCEPT ![l][k] = s]
    PROVE  /\ worn' \in [Loadouts -> [Places -> Selections \cup {None}]]
           /\ \A m \in Loadouts, i \in Places :
                 worn'[m][i] = IF m = l /\ i = k THEN s ELSE worn[m][i]
  BY DEF WardrobeTyped

(* An item that is worn is locked, so it has a holder, who may write there. *)
LEMMA WornItem ==
    ASSUME WardrobeInv, NEW l \in Loadouts, NEW k \in Places, NEW a \in Items,
           worn[l][k] # None, worn[l][k].subject = a
    PROVE  /\ items[a].lock = [loadout |-> l, place |-> k] /\ items[a].lock # None
           /\ items[a].holder \in Users /\ MayWrite(items[a].holder, l)
           /\ worn[l][k] = Selection(SourceOf(a), a, items[a].epoch) /\ ~ items[a].listed
  BY PlaceTyped DEF WardrobeInv, LocksExact, LockedHeld

LEMMA WornSource ==
    ASSUME WardrobeInv, NEW l \in Loadouts, NEW k \in Places, NEW a \in Items,
           worn[l][k] # None, worn[l][k].subject = a
    PROVE  worn[l][k].source \in {"base", "external"}
<1>1. items[a].lock = [loadout |-> l, place |-> k] /\ worn[l][k] = Selection(SourceOf(a), a, items[a].epoch)
  BY WornItem
<1> QED BY <1>1 DEF Selection, SourceOf

(* Equal variables, equal meaning. *)
LEMMA Untouched ==
    ASSUME WardrobeInv, UNCHANGED <<terms, items, players, souls, binding, worn>>
    PROVE  WardrobeInv'
<1>1. WardrobeTyped' /\ LockedHeld'
  BY DEF WardrobeInv, WardrobeTyped, LockedHeld, Places
<1>2. Places' = Places /\ \A u \in Users, l \in Loadouts : MayWrite(u, l)' <=> MayWrite(u, l)
  BY DEF Places, MayWrite
<1>3. LocksExact'
  BY <1>1, <1>2 DEF WardrobeInv, LocksExact, MayWrite
<1> QED BY <1>1, <1>3 DEF WardrobeInv

-----------------------------------------------------------------------------
(* Items that change hands. *)

(* One item is written that is not locked, or keeps what its lock needs. *)
LEMMA ItemWritten ==
    ASSUME WardrobeInv, NEW a \in Items,
           NEW holder \in Users \cup {None}, NEW epoch \in Nat, NEW listed \in BOOLEAN,
           items' = [items EXCEPT ![a] = [holder |-> holder, epoch |-> epoch, listed |-> listed,
                                          lock |-> items[a].lock]],
           items[a].lock # None =>
              holder = items[a].holder /\ epoch = items[a].epoch /\ listed = FALSE,
           UNCHANGED <<terms, players, souls, binding, worn>>
    PROVE  WardrobeInv'
<1>1. /\ \A b \in Items : b # a => items'[b] = items[b]
      /\ items'[a] = [holder |-> holder, epoch |-> epoch, listed |-> listed, lock |-> items[a].lock]
  BY DEF WardrobeInv, WardrobeTyped
<1>2. WardrobeTyped'
  <2>1. items[a].lock \in Locks \cup {None}
    BY ItemTyped DEF WardrobeInv
  <2>2. items' \in [Items -> [holder : Users \cup {None}, epoch : Nat, listed : BOOLEAN,
                            lock : Locks \cup {None}]]
    BY <2>1 DEF WardrobeInv, WardrobeTyped
  <2> QED BY <2>2 DEF WardrobeInv, WardrobeTyped, Places
<1>3. LockedHeld'
  BY <1>1 DEF WardrobeInv, LockedHeld, Places
<1>4. LocksExact'
  <2> SUFFICES ASSUME NEW l \in Loadouts, NEW k \in Places
      PROVE  /\ \A b \in Items : items'[b].lock = [loadout |-> l, place |-> k]
                                    <=> worn[l][k] # None /\ worn[l][k].subject = b
             /\ worn[l][k] # None /\ worn[l][k].subject \in Items =>
                   LET b == worn[l][k].subject
                   IN /\ worn[l][k] = Selection(SourceOf(b), b, items'[b].epoch)
                      /\ MayWrite(items'[b].holder, l)
                      /\ ~ items'[b].listed
    BY DEF LocksExact, MayWrite, Places
  <2>1. \A b \in Items : items'[b].lock = items[b].lock
    BY <1>1
  <2>2. ASSUME worn[l][k] # None, NEW b \in Items, worn[l][k].subject = b
        PROVE  /\ worn[l][k] = Selection(SourceOf(b), b, items'[b].epoch)
               /\ MayWrite(items'[b].holder, l) /\ ~ items'[b].listed
    <3>1. /\ items[b].lock # None /\ MayWrite(items[b].holder, l) /\ ~ items[b].listed
          /\ worn[l][k] = Selection(SourceOf(b), b, items[b].epoch)
      <4>1. worn[l][k] # None /\ worn[l][k].subject = b
        BY <2>2
      <4>2. items[b].lock # None
        BY <4>1, WornItem
      <4>3. MayWrite(items[b].holder, l)
        BY <4>1, WornItem
      <4>4. ~ items[b].listed
        BY <4>1, WornItem
      <4>5. worn[l][k] = Selection(SourceOf(b), b, items[b].epoch)
        BY <4>1, WornItem
      <4> QED BY <4>2, <4>3, <4>4, <4>5
    <3>2. items'[b].epoch = items[b].epoch /\ items'[b].holder = items[b].holder
          /\ ~ items'[b].listed
      BY <1>1, <3>1
    <3> QED BY <3>1, <3>2
  <2> QED BY <2>1, <2>2 DEF WardrobeInv, LocksExact
<1> QED BY <1>2, <1>3, <1>4 DEF WardrobeInv

LEMMA ItemsMove ==
    ASSUME WardrobeInv,
           NEW a \in Items, NEW u \in Users, NEW to \in Users,
           \/ ClaimItem(u, a) \/ ListItem(u, a) \/ TransferItem(u, a, to)
           \/ MintItem(a, to) \/ SellItem(a, to) \/ ReturnItem(a)
    PROVE  WardrobeInv'
<1>0. /\ items[a].holder \in Users \cup {None} /\ items[a].epoch \in Nat
      /\ items[a].listed \in BOOLEAN
      /\ items[a] = [holder |-> items[a].holder, epoch |-> items[a].epoch,
                     listed |-> items[a].listed, lock |-> items[a].lock]
  BY ItemTyped DEF WardrobeInv
<1>1. UNCHANGED <<terms, players, souls, binding, worn>>
  BY DEF ClaimItem, ListItem, TransferItem, MintItem, SellItem, ReturnItem, goods
<1>2. ASSUME NEW who \in Users, items[a].holder = None, items' = [items EXCEPT ![a].holder = who]
      PROVE  WardrobeInv'
  <2>1. items[a].lock = None
    BY <1>2, WardrobeAssumption DEF WardrobeInv, LockedHeld
  <2>2. items' = [items EXCEPT ![a] = [holder |-> who, epoch |-> items[a].epoch,
                                       listed |-> items[a].listed, lock |-> items[a].lock]]
    <3>1. [items[a] EXCEPT !.holder = who] = [holder |-> who, epoch |-> items[a].epoch,
                                              listed |-> items[a].listed, lock |-> items[a].lock]
      BY <1>0
    <3>2. items' = [items EXCEPT ![a] = [items[a] EXCEPT !.holder = who]]
      BY <1>2
    <3> QED BY <3>1, <3>2
  <2> QED BY <1>0, <1>1, <2>1, <2>2, ItemWritten
<1>3. ASSUME Hand(a, to) PROVE WardrobeInv'
  <2>1. items' = [items EXCEPT ![a] = [holder |-> to, epoch |-> items[a].epoch + 1,
                                       listed |-> FALSE, lock |-> items[a].lock]]
    BY <1>3 DEF Hand
  <2>2. items[a].lock = None /\ items[a].epoch + 1 \in Nat
    BY <1>0, <1>3 DEF Hand
  <2> QED BY <1>1, <2>1, <2>2, ItemWritten
<1>4. ASSUME NEW listed \in BOOLEAN, items' = [items EXCEPT ![a].listed = listed],
             listed => items[a].lock = None
      PROVE  WardrobeInv'
  <2>1. items' = [items EXCEPT ![a] = [holder |-> items[a].holder, epoch |-> items[a].epoch,
                                       listed |-> listed, lock |-> items[a].lock]]
    <3>1. [items[a] EXCEPT !.listed = listed]
             = [holder |-> items[a].holder, epoch |-> items[a].epoch,
                listed |-> listed, lock |-> items[a].lock]
      BY <1>0
    <3>2. items' = [items EXCEPT ![a] = [items[a] EXCEPT !.listed = listed]]
      BY <1>4
    <3> QED BY <3>1, <3>2
  <2>2. items[a].lock # None => listed = FALSE
    BY <1>4
  <2> QED BY <1>0, <1>1, <2>1, <2>2, ItemWritten
<1>5. CASE ClaimItem(u, a)
  BY <1>2, <1>5 DEF ClaimItem
<1>6. CASE ListItem(u, a)
  BY <1>4, <1>6 DEF ListItem
<1>7. CASE TransferItem(u, a, to)
  BY <1>3, <1>7 DEF TransferItem
<1>8. CASE MintItem(a, to)
  BY <1>2, <1>8 DEF MintItem
<1>9. CASE SellItem(a, to)
  BY <1>3, <1>9 DEF SellItem
<1>10. CASE ReturnItem(a)
  BY <1>4, <1>10 DEF ReturnItem
<1> QED BY <1>5, <1>6, <1>7, <1>8, <1>9, <1>10

-----------------------------------------------------------------------------
(* Who may write what. *)

(* Nobody is shut out of a loadout that wears something of theirs. *)
LEMMA StillTheirs ==
    ASSUME WardrobeInv, WardrobeTyped', UNCHANGED <<terms, items, worn>>,
           \A u \in Users, l \in Loadouts : WornAt(l) # {} /\ MayWrite(u, l) => MayWrite(u, l)'
    PROVE  WardrobeInv'
<1>1. LockedHeld'
  BY DEF WardrobeInv, LockedHeld, Places
<1>2. LocksExact'
  <2> SUFFICES ASSUME NEW l \in Loadouts, NEW k \in Places
      PROVE  /\ \A b \in Items : items[b].lock = [loadout |-> l, place |-> k]
                                    <=> worn[l][k] # None /\ worn[l][k].subject = b
             /\ worn[l][k] # None /\ worn[l][k].subject \in Items =>
                   LET b == worn[l][k].subject
                   IN /\ worn[l][k] = Selection(SourceOf(b), b, items[b].epoch)
                      /\ MayWrite(items[b].holder, l)'
                      /\ ~ items[b].listed
    BY DEF LocksExact, Places
  <2>1. ASSUME worn[l][k] # None, NEW b \in Items, worn[l][k].subject = b
        PROVE  MayWrite(items[b].holder, l)'
    <3>1. worn[l][k] # None /\ worn[l][k].subject = b
      BY <2>1
    <3>2. items[b].holder \in Users
      BY <3>1, WornItem
    <3>3. MayWrite(items[b].holder, l)
      BY <3>1, WornItem
    <3>4. PICK u \in Users : u = items[b].holder
      BY <3>2
    <3>5. MayWrite(u, l)
      BY <3>3, <3>4
    <3>6. WornAt(l) # {}
      BY <3>1 DEF WornAt
    <3>7. MayWrite(u, l)'
      BY <3>5, <3>6
    <3>8. u = items'[b].holder
      BY <3>4
    <3> QED BY <3>7, <3>8 DEF MayWrite
  <2> QED BY <2>1 DEF WardrobeInv, LocksExact
<1> QED BY <1>1, <1>2 DEF WardrobeInv

LEMMA LoadoutOpens ==
    ASSUME WardrobeInv, NEW u \in Users, NEW p \in Players, CreateLoadout(u, p)
    PROVE  WardrobeInv'
<1>1. UNCHANGED <<terms, items, worn>>
  BY DEF CreateLoadout, goods
<1>2. WardrobeTyped'
  BY <1>1 DEF CreateLoadout, WardrobeInv, WardrobeTyped, Places
<1>3. \A v \in Users, l \in Loadouts : MayWrite(v, l) => MayWrite(v, l)'
  BY WardrobeAssumption DEF CreateLoadout, MayWrite, WardrobeInv, WardrobeTyped
<1> QED BY <1>1, <1>2, <1>3, StillTheirs

LEMMA EquipmentMoves ==
    ASSUME WardrobeInv, NEW u \in Users, NEW s \in Souls, NEW to \in Users,
           CreateEquipment(u, s) \/ CloseEquipment(u, s) \/ MoveSoul(s, to)
    PROVE  WardrobeInv'
<1> USE DEF WardrobeTyped, goods
<1>1. UNCHANGED <<terms, items, worn>> /\ Places' = Places
  BY DEF CreateEquipment, CloseEquipment, MoveSoul, Places
<1>2. CASE CreateEquipment(u, s)
  <2>1. WardrobeTyped'
    BY <1>1, <1>2 DEF CreateEquipment, WardrobeInv
  <2>2. \A v \in Users, l \in Loadouts : MayWrite(v, l) => MayWrite(v, l)'
    BY <1>2, WardrobeAssumption DEF CreateEquipment, MayWrite, WardrobeInv
  <2> QED BY <1>1, <2>1, <2>2, StillTheirs
<1>3. CASE CloseEquipment(u, s)
  <2>1. WardrobeTyped'
    BY <1>1, <1>3 DEF CloseEquipment, WardrobeInv
  <2>2. \A v \in Users, l \in Loadouts : l # s /\ MayWrite(v, l) => MayWrite(v, l)'
    BY <1>3, WardrobeAssumption DEF CloseEquipment, MayWrite, WardrobeInv
  <2>3. WornAt(s) = {}
    BY <1>3 DEF CloseEquipment
  <2> QED BY <1>1, <2>1, <2>2, <2>3, StillTheirs
<1>4. CASE MoveSoul(s, to)
  <2>1. souls[s].epoch + 1 \in Nat
    BY <1>4 DEF MoveSoul, WardrobeInv, Ownerships
  <2>2. WardrobeTyped'
    BY <1>1, <1>4, <2>1 DEF MoveSoul, WardrobeInv, Ownerships
  <2>3. \A v \in Users, l \in Loadouts : MayWrite(v, l) => MayWrite(v, l)'
    BY <1>4, WardrobeAssumption DEF MoveSoul, MayWrite, WardrobeInv
  <2> QED BY <1>1, <2>2, <2>3, StillTheirs
<1> QED BY <1>2, <1>3, <1>4

-----------------------------------------------------------------------------
(* What is put on and taken off. *)

(* A place that wears no item, before or after, is written. *)
LEMMA PlaceWritten ==
    ASSUME WardrobeInv, NEW l \in Loadouts, NEW k \in Places, NEW s \in Selections \cup {None},
           worn[l][k] # None => worn[l][k].subject \notin Items,
           s # None => s.subject \notin Items,
           worn' = [worn EXCEPT ![l][k] = s],
           UNCHANGED <<terms, items, players, souls, binding>>
    PROVE  WardrobeInv'
<1>1. /\ worn' \in [Loadouts -> [Places -> Selections \cup {None}]]
      /\ \A m \in Loadouts, i \in Places : worn'[m][i] = IF m = l /\ i = k THEN s ELSE worn[m][i]
  BY Written DEF WardrobeInv
<1>2. WardrobeTyped' /\ LockedHeld'
  BY <1>1 DEF WardrobeInv, WardrobeTyped, LockedHeld, Places
<1>3. LocksExact'
  <2> SUFFICES ASSUME NEW m \in Loadouts, NEW i \in Places
      PROVE  /\ \A b \in Items : items[b].lock = [loadout |-> m, place |-> i]
                                    <=> worn'[m][i] # None /\ worn'[m][i].subject = b
             /\ worn'[m][i] # None /\ worn'[m][i].subject \in Items =>
                   LET b == worn'[m][i].subject
                   IN /\ worn'[m][i] = Selection(SourceOf(b), b, items[b].epoch)
                      /\ MayWrite(items[b].holder, m)
                      /\ ~ items[b].listed
    BY DEF LocksExact, Places, MayWrite
  <2>1. CASE m = l /\ i = k
    <3>1. worn'[m][i] = s
      BY <1>1, <2>1
    <3>2. \A b \in Items : items[b].lock # [loadout |-> m, place |-> i]
      BY <2>1 DEF WardrobeInv, LocksExact
    <3> QED BY <3>1, <3>2
  <2>2. CASE ~ (m = l /\ i = k)
    <3>1. worn'[m][i] = worn[m][i]
      BY <1>1, <2>2
    <3> QED BY <3>1 DEF WardrobeInv, LocksExact
  <2> QED BY <2>1, <2>2
<1> QED BY <1>2, <1>3 DEF WardrobeInv

(* The lock of one item is written. *)
LEMMA Locked ==
    ASSUME WardrobeTyped, NEW a \in Items, NEW lock \in Locks \cup {None},
           items' = [items EXCEPT ![a].lock = lock]
    PROVE  /\ items' \in [Items -> [holder : Users \cup {None}, epoch : Nat, listed : BOOLEAN,
                                    lock : Locks \cup {None}]]
           /\ \A b \in Items : b # a => items'[b] = items[b]
           /\ items'[a].lock = lock /\ items'[a].holder = items[a].holder
           /\ items'[a].epoch = items[a].epoch /\ items'[a].listed = items[a].listed
  BY DEF WardrobeTyped

LEMMA PutOn ==
    ASSUME WardrobeInv, NEW u \in Users, NEW l \in Loadouts, NEW k \in Places, NEW a \in Items,
           MayWrite(u, l), FreePlace(l, k), Has(u, a), Lock(l, k, a),
           UNCHANGED <<terms, players, souls, binding>>
    PROVE  WardrobeInv'
<1> DEFINE s == Selection(SourceOf(a), a, items[a].epoch)
           lock == [loadout |-> l, place |-> k]
<1>1. s \in Selections /\ s # None /\ s.subject = a
  BY SelectionTyped, ItemTyped DEF WardrobeInv, SourceOf, Selection
<1>2. lock \in Locks /\ lock # None
  BY PlaceTyped DEF WardrobeInv
<1>3. /\ worn' \in [Loadouts -> [Places -> Selections \cup {None}]]
      /\ \A m \in Loadouts, i \in Places : worn'[m][i] = IF m = l /\ i = k THEN s ELSE worn[m][i]
  BY <1>1, Written DEF WardrobeInv, Lock, Install
<1>4. /\ items' \in [Items -> [holder : Users \cup {None}, epoch : Nat, listed : BOOLEAN,
                                lock : Locks \cup {None}]]
      /\ \A b \in Items : b # a => items'[b] = items[b]
      /\ items'[a].lock = lock /\ items'[a].holder = items[a].holder
      /\ items'[a].epoch = items[a].epoch /\ items'[a].listed = items[a].listed
  BY <1>2, Locked DEF WardrobeInv, Lock
<1>5. /\ items[a].lock = None /\ items[a].holder = u /\ ~ items[a].listed
      /\ worn[l][k] = None
  BY DEF Lock, Has, FreePlace
<1>6. WardrobeTyped'
  BY <1>3, <1>4 DEF WardrobeInv, WardrobeTyped, Places
<1>7. LockedHeld'
  <2>1. Places' = Places /\ lock.place = k
    BY DEF Places
  <2> HIDE DEF lock
  <2> QED BY <1>4, <1>5, <2>1 DEF WardrobeInv, LockedHeld
<1>8. LocksExact'
  <2> HIDE DEF s
  <2> SUFFICES ASSUME NEW m \in Loadouts, NEW i \in Places
      PROVE  /\ \A b \in Items : items'[b].lock = [loadout |-> m, place |-> i]
                                    <=> worn'[m][i] # None /\ worn'[m][i].subject = b
             /\ \A b \in Items : worn'[m][i] # None /\ worn'[m][i].subject = b =>
                      /\ worn'[m][i] = Selection(SourceOf(b), b, items'[b].epoch)
                      /\ MayWrite(items'[b].holder, m)
                      /\ ~ items'[b].listed
    BY DEF LocksExact, Places, MayWrite
  <2>1. CASE m = l /\ i = k
    <3>1. worn'[m][i] = s
      BY <1>3, <2>1
    <3>2. \A b \in Items : items[b].lock # [loadout |-> m, place |-> i]
      BY <1>5, <2>1 DEF WardrobeInv, LocksExact
    <3>3. \A b \in Items : items'[b].lock = [loadout |-> m, place |-> i] <=> b = a
      BY <1>4, <2>1, <3>2
    <3>4. s = Selection(SourceOf(a), a, items'[a].epoch) /\ ~ items'[a].listed
      BY <1>4, <1>5 DEF s
    <3>5. MayWrite(items'[a].holder, m)
      BY <1>4, <1>5, <2>1
    <3> QED BY <1>1, <3>1, <3>3, <3>4, <3>5
  <2>2. CASE ~ (m = l /\ i = k)
    <3>1. worn'[m][i] = worn[m][i]
      BY <1>3, <2>2
    <3>2. items'[a].lock # [loadout |-> m, place |-> i]
      BY <1>4, <2>2
    <3>3. items[a].lock # [loadout |-> m, place |-> i]
      BY <1>5, PlaceTyped DEF WardrobeInv
    <3>4. ~ (worn[m][i] # None /\ worn[m][i].subject = a)
      BY <3>3 DEF WardrobeInv, LocksExact
    <3> QED BY <1>4, <3>1, <3>2, <3>4 DEF WardrobeInv, LocksExact
  <2> QED BY <2>1, <2>2
<1> QED BY <1>6, <1>7, <1>8 DEF WardrobeInv

LEMMA TakeOff ==
    ASSUME WardrobeInv, NEW u \in Users, NEW l \in Loadouts, NEW a \in Items, Release(u, l, a)
    PROVE  WardrobeInv'
<1>1. PICK k : k = items[a].lock.place
  OBVIOUS
<1>2. /\ k \in Places /\ worn[l][k] # None /\ worn[l][k].subject = a
      /\ worn' = [worn EXCEPT ![l][k] = None] /\ items' = [items EXCEPT ![a].lock = None]
      /\ UNCHANGED <<terms, players, souls, binding>>
  BY <1>1 DEF Release, CanRelease, WornAt, ClearPlace, goods
<1>3. /\ worn' \in [Loadouts -> [Places -> Selections \cup {None}]]
      /\ \A m \in Loadouts, i \in Places : worn'[m][i] = IF m = l /\ i = k THEN None ELSE worn[m][i]
  BY <1>2, Written DEF WardrobeInv
<1>4. /\ items' \in [Items -> [holder : Users \cup {None}, epoch : Nat, listed : BOOLEAN,
                                lock : Locks \cup {None}]]
      /\ \A b \in Items : b # a => items'[b] = items[b]
      /\ items'[a].lock = None
  BY <1>2, Locked DEF WardrobeInv
<1>5. items[a].lock = [loadout |-> l, place |-> k]
  BY <1>2 DEF WardrobeInv, LocksExact
<1>6. WardrobeTyped' /\ LockedHeld'
  BY <1>2, <1>3, <1>4 DEF WardrobeInv, WardrobeTyped, LockedHeld, Places
<1>7. LocksExact'
  <2> SUFFICES ASSUME NEW m \in Loadouts, NEW i \in Places
      PROVE  /\ \A b \in Items : items'[b].lock = [loadout |-> m, place |-> i]
                                    <=> worn'[m][i] # None /\ worn'[m][i].subject = b
             /\ \A b \in Items : worn'[m][i] # None /\ worn'[m][i].subject = b =>
                      /\ worn'[m][i] = Selection(SourceOf(b), b, items'[b].epoch)
                      /\ MayWrite(items'[b].holder, m)
                      /\ ~ items'[b].listed
    BY <1>2 DEF LocksExact, Places, MayWrite
  <2>1. items'[a].lock # [loadout |-> m, place |-> i]
    BY <1>4, PlaceTyped DEF WardrobeInv
  <2>2. CASE m = l /\ i = k
    <3>1. worn'[m][i] = None
      BY <1>3, <2>2
    <3>2. \A b \in Items : b # a => items[b].lock # [loadout |-> m, place |-> i]
      BY <1>2, <2>2 DEF WardrobeInv, LocksExact
    <3> QED BY <1>4, <2>1, <3>1, <3>2
  <2>3. CASE ~ (m = l /\ i = k)
    <3>1. worn'[m][i] = worn[m][i]
      BY <1>3, <2>3
    <3>2. items[a].lock # [loadout |-> m, place |-> i]
      BY <1>5, <2>3
    <3>3. ~ (worn[m][i] # None /\ worn[m][i].subject = a)
      BY <3>2 DEF WardrobeInv, LocksExact
    <3> QED BY <1>4, <2>1, <3>1, <3>3 DEF WardrobeInv, LocksExact
  <2> QED BY <2>2, <2>3
<1> QED BY <1>6, <1>7 DEF WardrobeInv

LEMMA StylesMove ==
    ASSUME WardrobeInv, NEW u \in Users, NEW l \in Loadouts, NEW k \in Places,
           SelectBase(u, l, k) \/ Clear(u, l, k) \/ \E p \in Packs : SelectPack(u, l, k, p)
    PROVE  WardrobeInv'
<1> USE DEF goods
<1>1. CASE SelectBase(u, l, k)
  <2> DEFINE s == Selection("base", MakerPass, 0)
  <2>1. s \in Selections /\ s.subject \notin Items
    BY SelectionTyped, WardrobeAssumption DEF Selection
  <2>2. /\ worn[l][k] = None /\ worn' = [worn EXCEPT ![l][k] = s]
        /\ UNCHANGED <<terms, items, players, souls, binding>>
    BY <1>1 DEF SelectBase, CanInstall, FreePlace, Install
  <2> HIDE DEF s
  <2> QED BY <2>1, <2>2, PlaceWritten
<1>2. ASSUME NEW p \in Packs, SelectPack(u, l, k, p) PROVE WardrobeInv'
  <2> DEFINE s == Selection("pack", p, 0)
  <2>1. s \in Selections /\ s.subject \notin Items
    BY SelectionTyped, WardrobeAssumption DEF Selection
  <2>2. /\ worn[l][k] = None /\ worn' = [worn EXCEPT ![l][k] = s]
        /\ UNCHANGED <<terms, items, players, souls, binding>>
    BY <1>2 DEF SelectPack, CanInstall, FreePlace, Install
  <2> HIDE DEF s
  <2> QED BY <2>1, <2>2, PlaceWritten
<1>3. CASE Clear(u, l, k)
  <2>1. /\ worn[l][k] # None /\ worn[l][k].source # "external"
        /\ worn[l][k].source = "base" => worn[l][k].subject = MakerPass
        /\ worn' = [worn EXCEPT ![l][k] = None]
        /\ UNCHANGED <<terms, items, players, souls, binding>>
    BY <1>3 DEF Clear, WornAt, ClearPlace
  <2>2. \A b \in Items : worn[l][k].subject = b => worn[l][k].source \in {"base", "external"}
    BY <2>1, WornSource
  <2>3. worn[l][k].subject \notin Items
    BY <2>1, <2>2, WardrobeAssumption
  <2> QED BY <2>1, <2>3, PlaceWritten
<1> QED BY <1>1, <1>2, <1>3

-----------------------------------------------------------------------------
(* The wardrobe as a whole. *)

LEMMA WardrobeInitially == Init => WardrobeInv
<1> SUFFICES ASSUME Init PROVE WardrobeInv
  OBVIOUS
<1>1. WardrobeTyped
  BY DEF Init, WardrobeInit, WardrobeTyped
<1>2. \A a \in Items : items[a].lock = None
  BY DEF Init, WardrobeInit
<1>3. \A l \in Loadouts, k \in Places : worn[l][k] = None
  BY DEF Init, WardrobeInit
<1>4. LocksExact
  <2> SUFFICES ASSUME NEW l \in Loadouts, NEW k \in Places
      PROVE  [loadout |-> l, place |-> k] # None
    BY <1>2, <1>3 DEF LocksExact
  <2> QED BY <1>1, PlaceTyped
<1> QED BY <1>1, <1>2, <1>4 DEF WardrobeInv, LockedHeld

(* The rest of the wardrobe leaves items and loadouts alone. *)
LEMMA ShopsAside ==
    ASSUME NEW u \in Users, NEW p \in Packs, NEW to, NEW amount,
           \/ SetProduct(to) \/ AdmitProduct(u) \/ RevokeProduct(u)
           \/ SealPack(p) \/ SetPack(p, to) \/ AdmitPack(u, p) \/ RevokePack(u, p)
           \/ TakePackPass(u, p) \/ WithdrawPack(p, amount, to) \/ DepositPack(u, p, amount)
    PROVE  UNCHANGED <<terms, items, players, souls, binding, worn>>
  BY DEF SetProduct, AdmitProduct, RevokeProduct, SealPack, SetPack, AdmitPack, RevokePack,
         TakePackPass, WithdrawPack, DepositPack, controlVars

LEMMA WardrobeStep == WardrobeInv /\ WardrobeNext => WardrobeInv'
<1> SUFFICES ASSUME WardrobeInv, WardrobeNext PROVE WardrobeInv'
  OBVIOUS
<1>1. ASSUME NEW a \in Items, ReturnItem(a) PROVE WardrobeInv'
  BY <1>1, UsersAssumption, ItemsMove
<1>2. ASSUME NEW a \in Items, NEW to \in Users, MintItem(a, to) \/ SellItem(a, to)
      PROVE  WardrobeInv'
  BY <1>2, ItemsMove
<1>3. ASSUME NEW a \in Items, NEW u \in Users, NEW to \in Users,
             ClaimItem(u, a) \/ ListItem(u, a) \/ TransferItem(u, a, to)
      PROVE  WardrobeInv'
  BY <1>3, ItemsMove
<1>4. ASSUME NEW next, SetProduct(next) PROVE WardrobeInv'
  <2>1. UNCHANGED <<terms, items, players, souls, binding, worn>>
    BY <1>4 DEF SetProduct
  <2> QED BY <2>1, Untouched
<1>5. ASSUME NEW u \in Users, AdmitProduct(u) \/ RevokeProduct(u) PROVE WardrobeInv'
  <2>1. UNCHANGED <<terms, items, players, souls, binding, worn>>
    BY <1>5 DEF AdmitProduct, RevokeProduct
  <2> QED BY <2>1, Untouched
<1>6. ASSUME NEW p \in Packs, NEW u \in Users, NEW to, NEW amount,
             \/ SealPack(p) \/ SetPack(p, to) \/ AdmitPack(u, p) \/ RevokePack(u, p)
             \/ TakePackPass(u, p) \/ WithdrawPack(p, amount, to) \/ DepositPack(u, p, amount)
      PROVE  WardrobeInv'
  <2>1. UNCHANGED <<terms, items, players, souls, binding, worn>>
    BY <1>6, ShopsAside
  <2> QED BY <2>1, Untouched
<1>7. ASSUME NEW s \in Souls, NEW to \in Users, MoveSoul(s, to) PROVE WardrobeInv'
  BY <1>7, EquipmentMoves
<1>8. ASSUME NEW u \in Users, NEW l \in Players, CreateLoadout(u, l) PROVE WardrobeInv'
  BY <1>8, LoadoutOpens
<1>9. ASSUME NEW u \in Users, NEW s \in Souls, CreateEquipment(u, s) \/ CloseEquipment(u, s)
      PROVE  WardrobeInv'
  BY <1>9, EquipmentMoves
<1>10. ASSUME NEW u \in Users, NEW l \in Loadouts, NEW a \in Items,
              UnequipExternal(u, l, a) \/ UnequipOwnedBase(u, l, a)
       PROVE  WardrobeInv'
  BY <1>10, TakeOff DEF UnequipExternal, UnequipOwnedBase
<1>11. ASSUME NEW u \in Users, NEW l \in Loadouts, NEW k \in Places,
              SelectBase(u, l, k) \/ Clear(u, l, k) \/ \E p \in Packs : SelectPack(u, l, k, p)
       PROVE  WardrobeInv'
  BY <1>11, StylesMove
<1>12. ASSUME NEW u \in Users, NEW l \in Loadouts, NEW k \in Places, NEW a \in Items,
              EquipOwnedBase(u, l, k, a) \/ EquipExternal(u, l, k, a)
       PROVE  WardrobeInv'
  <2>1. /\ MayWrite(u, l) /\ FreePlace(l, k) /\ Has(u, a) /\ Lock(l, k, a)
        /\ UNCHANGED <<terms, players, souls, binding>>
    BY <1>12 DEF EquipOwnedBase, EquipExternal, CanInstall, Accessible, goods
  <2> QED BY <2>1, PutOn
<1>13. CASE \E u \in Users : \/ AdmitProduct(u) \/ RevokeProduct(u)
                               \/ \E p \in Packs : \/ AdmitPack(u, p) \/ RevokePack(u, p)
                                                   \/ TakePackPass(u, p)
                                                   \/ \E amount \in Gifts : DepositPack(u, p, amount)
  BY <1>5, <1>6, <1>13
<1>14. CASE \E p \in Packs : \/ SealPack(p)
                              \/ \E next \in {Active, Paused, Archived} : SetPack(p, next)
                              \/ \E amount \in Amounts, to \in Payees : WithdrawPack(p, amount, to)
  BY <1>6, <1>14, UsersAssumption
<1> QED BY <1>1, <1>2, <1>3, <1>4, <1>7, <1>8, <1>9, <1>10, <1>11, <1>12, <1>13, <1>14, UsersAssumption
        DEF WardrobeNext

LEMMA BoundSoul ==
    ASSUME WardrobeInv, NEW u \in Users, NEW l \in Players, NEW s \in Souls, Complete(u, l, s)
    PROVE  WardrobeInv'
<1>1. /\ UNCHANGED <<terms, items, worn, players, binding>> /\ souls[s] = None
      /\ souls' = [souls EXCEPT ![s] = [owner |-> u, epoch |-> 0]]
  BY DEF Complete, BindSoul
<1>2. WardrobeTyped'
  BY <1>1 DEF WardrobeInv, WardrobeTyped, Ownerships, Places
<1>3. \A v \in Users, m \in Loadouts : MayWrite(v, m) => MayWrite(v, m)'
  BY <1>1, WardrobeAssumption DEF MayWrite, WardrobeInv, WardrobeTyped
<1> QED BY <1>1, <1>2, <1>3, StillTheirs

LEMMA WardrobeInductive == WardrobeInv /\ [Next]_vars => WardrobeInv'
<1> SUFFICES ASSUME WardrobeInv, [Next]_vars PROVE WardrobeInv'
  OBVIOUS
<1>1. CASE WardrobeNext
  BY <1>1, WardrobeStep
<1>2. ASSUME NEW u \in Users, NEW l \in Players, NEW s \in Souls, Complete(u, l, s)
      PROVE  WardrobeInv'
  BY <1>2, BoundSoul
<1>3. CASE UNCHANGED <<terms, items, players, souls, binding, worn>>
  BY <1>3, Untouched
<1>4. CASE ControlNext /\ UNCHANGED <<wardrobeVars, completeVars>>
  BY <1>3, <1>4 DEF wardrobeVars
<1>5. CASE \E u \in Users, l \in Players : ReadQuote(u, l)
  BY <1>3, <1>5 DEF ReadQuote, wardrobeVars
<1>6. CASE UNCHANGED vars
  BY <1>3, <1>6 DEF vars
<1> QED BY <1>1, <1>2, <1>4, <1>5, <1>6 DEF Next

(* The inductive invariant of the wardrobe. *)
THEOREM Inductive == Spec => []WardrobeInv
BY WardrobeInitially, WardrobeInductive, PTL DEF Spec

(* Whatever is equipped, cleared, closed, listed, sold, transferred or      *)
(* bound, in any number of places, an item is locked to a place exactly     *)
(* when that place wears it, at its present epoch and for its holder.       *)
THEOREM LocksAreExact == Spec => []LocksExact
BY Inductive, PTL DEF WardrobeInv

LEMMA CanTakeOff ==
    ASSUME WardrobeInv, NEW l \in Loadouts, NEW k \in Places, NEW a \in Items,
           worn[l][k] # None, worn[l][k].subject = a
    PROVE  CanRelease(items[a].holder, l, a) /\ WornAsIs(l, a)
<1>1. items[a].lock = [loadout |-> l, place |-> k] /\ items[a].lock # None
  BY WornItem
<1>2. MayWrite(items[a].holder, l) /\ ~ items[a].listed
  BY WornItem
<1>3. worn[l][k] = Selection(SourceOf(a), a, items[a].epoch)
  BY <1>1, <1>2, WornItem
<1>4. k \in WornAt(l) /\ worn[l][k].source = SourceOf(a) /\ worn[l][k].epoch = items[a].epoch
  BY <1>3 DEF WornAt, Selection
<1>5. items[a].lock.loadout = l /\ items[a].lock.place = k
  BY <1>1
<1> QED BY <1>1, <1>2, <1>4, <1>5 DEF CanRelease, WornAsIs, Has

(* In every lifecycle of Maker, product and Packs, under any protocol and   *)
(* whatever became of the Soul, the holder of an item that is worn passes   *)
(* every check of the unequip call.                                         *)
THEOREM AlwaysTakenOff == Spec => []Releasable
<1>1. WardrobeInv => Releasable
  <2> SUFFICES ASSUME WardrobeInv, NEW a \in Items, items[a].lock # None
      PROVE  /\ CanRelease(items[a].holder, items[a].lock.loadout, a)
             /\ WornAsIs(items[a].lock.loadout, a)
    BY DEF Releasable
  <2>1. items[a].lock \in Locks
    BY ItemTyped DEF WardrobeInv
  <2>2. PICK l \in Loadouts, k \in Places :
             items[a].lock = [loadout |-> l, place |-> k]
    BY <2>1 DEF Locks, WardrobeInv, LockedHeld
  <2>3. worn[l][k] # None /\ worn[l][k].subject = a
    BY <2>2 DEF WardrobeInv, LocksExact
  <2>4. CanRelease(items[a].holder, l, a) /\ WornAsIs(l, a)
    BY <2>3, CanTakeOff
  <2> QED BY <2>2, <2>4
<1> QED BY <1>1, Inductive, PTL

-----------------------------------------------------------------------------
(* Completion. *)

(* What wallet u was given free of line x. *)
FreeOf(x, u) == {s \in ReceiptsTo(x, u) : receipts[s].lines[x].gross = 0}

Limited(x) == PricingOf(x).mode \in {QuotaThenPaid, QuotaThenBlock}

QuotaInv ==
    /\ counts \in [Lines -> [total : Nat, by : [Users -> Nat]]]
    /\ DOMAIN receipts = Souls
    /\ IsFiniteSet(Minted)
    /\ \A s \in Souls : souls[s] = None => receipts[s] = None
    /\ \A x \in Lines :
          /\ Cardinality(ReceiptsOf(x)) <= counts[x].total
          /\ PricingOf(x).cap # 0 => counts[x].total <= PricingOf(x).cap
          /\ \A u \in Users :
                /\ Cardinality(FreeOf(x, u)) <= counts[x].by[u]
                /\ Limited(x) => Cardinality(FreeOf(x, u)) <= PricingOf(x).quota
          /\ PricingOf(x).mode = Paid => \A s \in ReceiptsOf(x) : receipts[s].lines[x].gross > 0

LEMMA PricingTyped ==
    ASSUME WardrobeTyped, NEW x
    PROVE  /\ PricingOf(x).price \in Nat /\ PricingOf(x).quota \in Nat /\ PricingOf(x).cap \in Nat
           /\ PricingOf(x).mode \in {Paid, QuotaThenPaid} => PricingOf(x).price > 0
<1>1. PricingOf(x) \in Pricing
  BY PlanAssumption DEF WardrobeTyped, PricingOf
<1> QED BY <1>1 DEF Pricing

LEMMA Finite ==
    ASSUME QuotaInv, NEW x, NEW u
    PROVE  IsFiniteSet(ReceiptsOf(x)) /\ IsFiniteSet(FreeOf(x, u))
<1>1. ReceiptsOf(x) \in SUBSET Minted /\ FreeOf(x, u) \in SUBSET Minted
  BY DEF ReceiptsOf, FreeOf, ReceiptsTo
<1> QED BY <1>1, FS_Subset DEF QuotaInv

(* At most one element is added. *)
LEMMA OneMore ==
    ASSUME NEW S, NEW T, NEW e, IsFiniteSet(S), T \subseteq S \cup {e}
    PROVE  /\ IsFiniteSet(T) /\ Cardinality(T) \in Nat /\ Cardinality(S) \in Nat
           /\ Cardinality(T) <= Cardinality(S) + 1
           /\ T \subseteq S => Cardinality(T) <= Cardinality(S)
<1>1. IsFiniteSet(S \cup {e}) /\ Cardinality(S \cup {e}) <= Cardinality(S) + 1
      /\ Cardinality(S) \in Nat
  BY FS_AddElement, FS_CardinalityType
<1>2. IsFiniteSet(T) /\ Cardinality(T) <= Cardinality(S \cup {e})
  BY <1>1, FS_Subset
<1>3. Cardinality(T) \in Nat /\ Cardinality(S \cup {e}) \in Nat
  BY <1>1, <1>2, FS_CardinalityType
<1>4. T \subseteq S => Cardinality(T) <= Cardinality(S)
  BY FS_Subset
<1> QED BY <1>1, <1>2, <1>3, <1>4

(* Only Packs that are worn are charged for, besides the Maker. *)
LEMMA UsedPacksAre ==
    ASSUME NEW u \in Users, NEW l \in Players, WardrobeTyped, Sealable(u, l)
    PROVE  UsedPacks(l) = {p \in Packs : \E k \in Places : worn[l][k] = Selection("pack", p, 0)}
<1>1. l \in Loadouts
  BY DEF Loadouts
<1>2. ASSUME NEW k \in WornAt(l), worn[l][k].source = "pack"
      PROVE  \E p \in Packs : worn[l][k] = Selection("pack", p, 0)
  <2>1. ~ ProvenBase(l, k)
    BY <1>2 DEF ProvenBase, Selection
  <2>2. ~ ProvenOwnedBase(u, l, k) /\ ~ ProvenExternal(u, l, k)
    <3>1. ASSUME NEW a, StillLocked(l, k, a) PROVE FALSE
      <4>1. worn[l][k].source = SourceOf(a)
        BY <3>1 DEF StillLocked, Selection
      <4> QED BY <1>2, <4>1 DEF SourceOf
    <3> QED BY <3>1 DEF ProvenOwnedBase, ProvenExternal
  <2> QED BY <2>1, <2>2 DEF Sealable, ProvenPack
<1>3. ASSUME NEW p \in Packs, NEW k \in Places, worn[l][k] = Selection("pack", p, 0)
      PROVE  p \in UsedPacks(l)
  <2>1. worn[l][k] # None /\ worn[l][k].source = "pack" /\ worn[l][k].subject = p
    BY <1>3, SelectionTyped DEF Selection
  <2> QED BY <2>1 DEF UsedPacks, WornAt
<1>4. ASSUME NEW p \in UsedPacks(l)
      PROVE  p \in Packs /\ \E k \in Places : worn[l][k] = Selection("pack", p, 0)
  <2>1. PICK k \in WornAt(l) : worn[l][k].source = "pack" /\ worn[l][k].subject = p
    BY DEF UsedPacks
  <2>2. PICK q \in Packs : worn[l][k] = Selection("pack", q, 0)
    BY <1>2, <2>1
  <2>3. q = p /\ k \in Places
    BY <2>1, <2>2 DEF Selection, WornAt
  <2> QED BY <2>2, <2>3
<1> QED BY <1>3, <1>4

LEMMA QuotaInitially == Init => QuotaInv
<1> SUFFICES ASSUME Init PROVE QuotaInv
  OBVIOUS
<1>1. Minted = {} /\ DOMAIN receipts = Souls
  BY DEF Init, Minted
<1>2. \A x, u : ReceiptsOf(x) = {} /\ FreeOf(x, u) = {}
  BY <1>1 DEF ReceiptsOf, FreeOf, ReceiptsTo
<1>3. WardrobeTyped
  BY WardrobeInitially DEF WardrobeInv
<1>4. \A x : PricingOf(x).cap \in Nat /\ PricingOf(x).quota \in Nat
  BY <1>3, PricingTyped
<1>5. counts = [x \in Lines |-> [total |-> 0, by |-> [u \in Users |-> 0]]]
  BY DEF Init
<1>6. \A s \in Souls : souls[s] = None => receipts[s] = None
  BY DEF Init
<1> QED BY <1>1, <1>2, <1>4, <1>5, <1>6, FS_EmptySet DEF QuotaInv

LEMMA QuotaUntouched ==
    ASSUME QuotaInv, UNCHANGED <<terms, counts, receipts>>,
           \A s \in Souls : souls'[s] = None => souls[s] = None
    PROVE  QuotaInv'
<1>1. \A x : PricingOf(x)' = PricingOf(x) /\ ReceiptsOf(x)' = ReceiptsOf(x)
  BY DEF PricingOf, ReceiptsOf, Minted
<1>2. \A x, u : FreeOf(x, u)' = FreeOf(x, u)
  BY <1>1 DEF FreeOf, ReceiptsTo
<1> QED BY <1>1, <1>2 DEF QuotaInv, Minted, Limited

(* A plan is for good, and a Soul only moves. *)
LEMMA Fixed ==
    WardrobeNext => terms' = terms /\ (souls' = souls \/ \E s \in Souls, to \in Users : MoveSoul(s, to))
<1> USE DEF goods
<1>1. ASSUME NEW a, NEW u, NEW to,
             \/ ClaimItem(u, a) \/ ListItem(u, a) \/ TransferItem(u, a, to)
             \/ MintItem(a, to) \/ SellItem(a, to) \/ ReturnItem(a)
      PROVE  terms' = terms /\ souls' = souls
  BY <1>1 DEF ClaimItem, ListItem, TransferItem, MintItem, SellItem, ReturnItem
<1>2. ASSUME NEW next, SetProduct(next) PROVE terms' = terms /\ souls' = souls
  BY <1>2 DEF SetProduct
<1>3. ASSUME NEW u, AdmitProduct(u) \/ RevokeProduct(u) PROVE terms' = terms /\ souls' = souls
  BY <1>3 DEF AdmitProduct, RevokeProduct
<1>4. ASSUME NEW p, NEW u, NEW to, NEW amount,
             \/ SealPack(p) \/ SetPack(p, to) \/ AdmitPack(u, p) \/ RevokePack(u, p)
             \/ TakePackPass(u, p) \/ WithdrawPack(p, amount, to) \/ DepositPack(u, p, amount)
      PROVE  terms' = terms /\ souls' = souls
  BY <1>4 DEF SealPack, SetPack, AdmitPack, RevokePack, TakePackPass, WithdrawPack, DepositPack
<1>5. ASSUME NEW s, NEW to, MoveSoul(s, to) PROVE terms' = terms
  BY <1>5 DEF MoveSoul
<1>6. ASSUME NEW u, NEW l, CreateLoadout(u, l) \/ CreateEquipment(u, l) \/ CloseEquipment(u, l)
      PROVE  terms' = terms /\ souls' = souls
  BY <1>6 DEF CreateLoadout, CreateEquipment, CloseEquipment
<1>7. ASSUME NEW u, NEW l, NEW k, NEW a,
             \/ UnequipExternal(u, l, a) \/ UnequipOwnedBase(u, l, a) \/ Clear(u, l, k)
             \/ EquipOwnedBase(u, l, k, a) \/ EquipExternal(u, l, k, a)
             \/ SelectBase(u, l, k) \/ SelectPack(u, l, k, a)
      PROVE  terms' = terms /\ souls' = souls
  BY <1>7 DEF UnequipExternal, UnequipOwnedBase, Release, Clear, EquipOwnedBase, EquipExternal,
              SelectBase, SelectPack
<1> QED BY <1>1, <1>2, <1>3, <1>4, <1>5, <1>6, <1>7 DEF WardrobeNext

LEMMA SoulsStay ==
    ASSUME WardrobeTyped, WardrobeNext, NEW s \in Souls, souls'[s] = None
    PROVE  souls[s] = None
<1>1. ASSUME NEW r \in Souls, NEW to \in Users, MoveSoul(r, to) PROVE souls[s] = None
  <2>1. souls' = [souls EXCEPT ![r] = [owner |-> to, epoch |-> @.epoch + 1]]
        /\ souls[r] \in Ownerships
    BY <1>1 DEF MoveSoul, WardrobeTyped
  <2>2. [owner |-> to, epoch |-> souls[r].epoch + 1] # None
    BY <2>1, WardrobeAssumption DEF Ownerships
  <2> QED BY <2>1, <2>2 DEF WardrobeTyped
<1> QED BY <1>1, Fixed

(* What a completion charges and writes. *)
LEMMA Completion ==
    ASSUME WardrobeTyped, QuotaInv, NEW u \in Users, NEW l \in Players, NEW s \in Souls,
           Complete(u, l, s)
    PROVE  /\ LinesOf(l) \subseteq Lines /\ terms' = terms
           /\ s \notin Minted
           /\ receipts' = [receipts EXCEPT ![s] =
                 [holder |-> u, lines |-> [x \in LinesOf(l) |-> LineFor(x, u)], recipe |-> worn[l]]]
           /\ counts' = [x \in Lines |-> IF x \notin LinesOf(l) THEN counts[x]
                                          ELSE [total |-> counts[x].total + 1,
                                                by |-> [counts[x].by EXCEPT ![u] = @ + 1]]]
           /\ \A x \in LinesOf(l) : Open(x, counts[x].by[u])
<1>1. UsedPacks(l) \subseteq Packs
  BY UsedPacksAre DEF Complete
<1>2. s \notin Minted
  BY DEF Complete, BindSoul, QuotaInv, Minted
<1> QED BY <1>1, <1>2 DEF Complete, BindSoul, Receipt, Count, Lines, LinesOf

LEMMA QuotaComplete ==
    ASSUME WardrobeTyped, QuotaInv, NEW u \in Users, NEW l \in Players, NEW s \in Souls,
           Complete(u, l, s)
    PROVE  QuotaInv'
<1> DEFINE charged == [x \in LinesOf(l) |-> LineFor(x, u)]
           receipt == [holder |-> u, lines |-> charged, recipe |-> worn[l]]
<1>1. /\ LinesOf(l) \subseteq Lines /\ terms' = terms /\ s \notin Minted
      /\ receipts' = [receipts EXCEPT ![s] = receipt]
      /\ counts' = [x \in Lines |-> IF x \notin LinesOf(l) THEN counts[x]
                                     ELSE [total |-> counts[x].total + 1,
                                           by |-> [counts[x].by EXCEPT ![u] = @ + 1]]]
      /\ \A x \in LinesOf(l) : Open(x, counts[x].by[u])
  BY Completion
<1>2. /\ DOMAIN receipts' = Souls /\ receipts'[s] = receipt
      /\ \A r \in Souls : r # s => receipts'[r] = receipts[r]
  BY <1>1 DEF QuotaInv
<1>3. receipt.holder = u /\ receipt.lines = charged /\ DOMAIN charged = LinesOf(l)
      /\ \A x \in LinesOf(l) : charged[x].gross = PriceFor(x, counts[x].by[u])
  BY DEF LineFor
<1> HIDE DEF charged, receipt
<1>4. Minted' \subseteq Minted \cup {s}
  BY <1>2 DEF Minted
<1>5. IsFiniteSet(Minted')
  BY <1>4, OneMore DEF QuotaInv
<1>6. \A x : PricingOf(x)' = PricingOf(x)
  BY <1>1 DEF PricingOf
<1>7. counts' \in [Lines -> [total : Nat, by : [Users -> Nat]]]
  BY <1>1 DEF QuotaInv
<1>8. \A r \in Souls : souls'[r] = None => receipts'[r] = None
  <2>1. souls' = [souls EXCEPT ![s] = [owner |-> u, epoch |-> 0]]
    BY DEF Complete, BindSoul
  <2>2. souls'[s] # None /\ \A r \in Souls : r # s => souls'[r] = souls[r]
    BY <2>1, WardrobeAssumption DEF WardrobeTyped, Ownerships
  <2> QED BY <1>2, <2>2 DEF QuotaInv
<1>9. ASSUME NEW x \in Lines
      PROVE  /\ Cardinality(ReceiptsOf(x))' <= counts'[x].total
             /\ PricingOf(x).cap # 0 => counts'[x].total <= PricingOf(x).cap
             /\ \A v \in Users :
                   /\ Cardinality(FreeOf(x, v))' <= counts'[x].by[v]
                   /\ Limited(x) => Cardinality(FreeOf(x, v))' <= PricingOf(x).quota
             /\ PricingOf(x).mode = Paid => \A r \in ReceiptsOf(x)' : receipts'[r].lines[x].gross > 0
  <2>1. /\ counts[x].total \in Nat /\ counts[x].by \in [Users -> Nat]
        /\ PricingOf(x).price \in Nat /\ PricingOf(x).quota \in Nat /\ PricingOf(x).cap \in Nat
        /\ PricingOf(x).mode \in {Paid, QuotaThenPaid} => PricingOf(x).price > 0
    BY PricingTyped DEF QuotaInv
  <2>2. CASE x \notin LinesOf(l)
    <3>1. ReceiptsOf(x)' = ReceiptsOf(x)
      BY <1>1, <1>2, <1>3, <2>2 DEF ReceiptsOf, Minted, QuotaInv
    <3>2. \A v : FreeOf(x, v)' = FreeOf(x, v)
      BY <1>1, <1>2, <3>1 DEF FreeOf, ReceiptsTo, ReceiptsOf
    <3>3. counts'[x] = counts[x]
      BY <1>1, <2>2
    <3>4. \A r \in ReceiptsOf(x) : receipts'[r] = receipts[r]
      BY <1>1, <1>2 DEF ReceiptsOf, Minted
    <3> QED BY <3>1, <3>2, <3>3, <3>4 DEF QuotaInv
  <2>3. CASE x \in LinesOf(l)
    <3>1. /\ counts'[x].total = counts[x].total + 1
          /\ \A v \in Users : counts'[x].by[v] = IF v = u THEN counts[x].by[u] + 1 ELSE counts[x].by[v]
      BY <1>1, <2>1, <2>3
    <3>2. ReceiptsOf(x)' \subseteq ReceiptsOf(x) \cup {s}
      BY <1>2, <1>4 DEF ReceiptsOf, Minted
    <3>3. Cardinality(ReceiptsOf(x))' <= Cardinality(ReceiptsOf(x)) + 1
          /\ Cardinality(ReceiptsOf(x)) \in Nat /\ Cardinality(ReceiptsOf(x))' \in Nat
      BY <3>2, Finite, OneMore
    <3>4. PricingOf(x).cap # 0 => counts[x].total + 1 <= PricingOf(x).cap
      BY <1>1, <2>1, <2>3 DEF Open
    <3>5. charged[x].gross = PriceFor(x, counts[x].by[u]) /\ receipts'[s].holder = u
          /\ receipts'[s].lines[x] = charged[x]
      BY <1>2, <1>3, <2>3
    <3>6. ASSUME NEW v \in Users
          PROVE  /\ Cardinality(FreeOf(x, v))' <= counts'[x].by[v]
                 /\ Limited(x) => Cardinality(FreeOf(x, v))' <= PricingOf(x).quota
      <4>1. FreeOf(x, v)' \subseteq FreeOf(x, v) \cup {s}
        BY <1>1, <1>2, <3>2 DEF FreeOf, ReceiptsTo, ReceiptsOf, Minted
      <4>2. /\ Cardinality(FreeOf(x, v))' \in Nat /\ Cardinality(FreeOf(x, v)) \in Nat
            /\ Cardinality(FreeOf(x, v))' <= Cardinality(FreeOf(x, v)) + 1
            /\ FreeOf(x, v)' \subseteq FreeOf(x, v)
                  => Cardinality(FreeOf(x, v))' <= Cardinality(FreeOf(x, v))
        <5>1. IsFiniteSet(FreeOf(x, v))
          BY Finite
        <5> HIDE DEF FreeOf
        <5> QED BY <4>1, <5>1, OneMore
      <4>3. /\ Cardinality(FreeOf(x, v)) <= counts[x].by[v]
            /\ Limited(x) => Cardinality(FreeOf(x, v)) <= PricingOf(x).quota
            /\ counts[x].by[v] \in Nat /\ PricingOf(x).quota \in Nat
        BY <2>1 DEF QuotaInv
      <4>4. CASE v = u /\ charged[x].gross = 0
        <5>1. Limited(x) => counts[x].by[u] < PricingOf(x).quota
          <6>1. ASSUME PricingOf(x).mode = QuotaThenPaid PROVE counts[x].by[u] < PricingOf(x).quota
            <7>1. PricingOf(x).price > 0 /\ PricingOf(x).price \in Nat /\ PricingOf(x).quota \in Nat
              BY <2>1, <6>1
            <7>2. PriceFor(x, counts[x].by[u]) = 0
              BY <3>5, <4>4
            <7>3. ~ (counts[x].by[u] < PricingOf(x).quota) => PriceFor(x, counts[x].by[u]) = PricingOf(x).price
              BY <6>1 DEF PriceFor, QuotaThenPaid, Free, Paid
            <7> QED BY <7>1, <7>2, <7>3
          <6>2. ASSUME PricingOf(x).mode = QuotaThenBlock PROVE counts[x].by[u] < PricingOf(x).quota
            BY <1>1, <2>3, <6>2 DEF Open
          <6> QED BY <6>1, <6>2 DEF Limited
        <5> QED BY <3>1, <4>2, <4>3, <4>4, <5>1
      <4>5. CASE ~ (v = u /\ charged[x].gross = 0)
        <5>1. s \notin FreeOf(x, v)'
          BY <3>5, <4>5 DEF FreeOf, ReceiptsTo
        <5>2. Cardinality(FreeOf(x, v))' <= Cardinality(FreeOf(x, v))
          BY <4>1, <4>2, <5>1
        <5>3. counts'[x].by[v] >= counts[x].by[v]
          BY <3>1, <4>3
        <5> QED BY <3>1, <4>2, <4>3, <5>2, <5>3
      <4> QED BY <4>4, <4>5
    <3>7. ASSUME PricingOf(x).mode = Paid, NEW r \in ReceiptsOf(x)'
          PROVE  receipts'[r].lines[x].gross > 0
      <4>1. CASE r = s
        <5>1. PriceFor(x, counts[x].by[u]) = PricingOf(x).price /\ PricingOf(x).price > 0
          BY <2>1, <3>7 DEF PriceFor, Paid, Free
        <5> QED BY <3>5, <4>1, <5>1
      <4>2. CASE r # s
        <5>1. r \in ReceiptsOf(x) /\ receipts'[r] = receipts[r]
          BY <1>2, <3>2, <4>2 DEF ReceiptsOf, Minted
        <5> QED BY <3>7, <5>1 DEF QuotaInv
      <4> QED BY <4>1, <4>2
    <3>8. Cardinality(ReceiptsOf(x)) <= counts[x].total
      BY DEF QuotaInv
    <3> QED BY <2>1, <3>1, <3>3, <3>4, <3>6, <3>7, <3>8
  <2> QED BY <2>2, <2>3
<1> QED BY <1>2, <1>5, <1>6, <1>7, <1>8, <1>9 DEF QuotaInv, Limited

LEMMA QuotaInductive == WardrobeTyped /\ QuotaInv /\ [Next]_vars => QuotaInv'
<1> SUFFICES ASSUME WardrobeTyped, QuotaInv, [Next]_vars PROVE QuotaInv'
  OBVIOUS
<1>1. CASE ControlNext /\ UNCHANGED <<wardrobeVars, completeVars>>
  BY <1>1, QuotaUntouched DEF wardrobeVars, completeVars
<1>2. CASE WardrobeNext /\ UNCHANGED completeVars
  <2>1. UNCHANGED <<terms, counts, receipts>>
    BY <1>2, Fixed DEF completeVars
  <2>2. \A s \in Souls : souls'[s] = None => souls[s] = None
    BY <1>2, SoulsStay
  <2> QED BY <2>1, <2>2, QuotaUntouched
<1>3. CASE \E u \in Users, l \in Players : ReadQuote(u, l)
  BY <1>3, QuotaUntouched DEF ReadQuote, wardrobeVars
<1>4. ASSUME NEW u \in Users, NEW l \in Players, NEW s \in Souls, Complete(u, l, s)
      PROVE  QuotaInv'
  BY <1>4, QuotaComplete
<1>5. CASE UNCHANGED vars
  BY <1>5, QuotaUntouched DEF vars
<1> QED BY <1>1, <1>2, <1>3, <1>4, <1>5 DEF Next

THEOREM QuotaHolds == Spec => [](WardrobeInv /\ QuotaInv)
<1>1. Init => WardrobeInv /\ QuotaInv
  BY WardrobeInitially, QuotaInitially
<1>2. WardrobeInv /\ QuotaInv /\ [Next]_vars => (WardrobeInv /\ QuotaInv)'
  BY WardrobeInductive, QuotaInductive DEF WardrobeInv
<1> QED BY <1>1, <1>2, PTL DEF Spec

(* Whatever the pages quoted and in whatever order completions land, no     *)
(* wallet gets more of them free than its quota, none past a cap.           *)
THEOREM QuotaStays == Spec => []QuotaKept
<1>1. WardrobeInv /\ QuotaInv => QuotaKept
  <2> SUFFICES ASSUME WardrobeInv, QuotaInv, NEW x \in Lines
      PROVE  /\ PricingOf(x).cap # 0 => Cardinality(ReceiptsOf(x)) <= PricingOf(x).cap
             /\ Limited(x) => \A u \in Users : Cardinality(FreeOf(x, u)) <= PricingOf(x).quota
             /\ PricingOf(x).mode = Paid => \A s \in ReceiptsOf(x) : receipts[s].lines[x].gross > 0
    BY DEF QuotaKept, FreeOf, Limited
  <2>1. PricingOf(x).cap \in Nat /\ counts[x].total \in Nat
    BY PricingTyped DEF WardrobeInv, QuotaInv
  <2>2. Cardinality(ReceiptsOf(x)) \in Nat
    BY Finite, FS_CardinalityType
  <2> QED BY <2>1, <2>2 DEF QuotaInv
<1> QED BY <1>1, QuotaHolds, PTL

(* The coins a page signed are the coins a completion takes, and the Packs  *)
(* they pay are those the recipe uses, or the completion does not happen.   *)
THEOREM CompletedAsQuoted == Spec => CompleteAsQuoted
<1>1. ASSUME WardrobeTyped, QuotaInv, NEW u \in Users, NEW l \in Players, NEW s \in Souls,
             Complete(u, l, s), NEW r \in Souls, receipts'[r] # receipts[r]
      PROVE  ChargedAsQuoted(r)
  <2> DEFINE charged == [x \in LinesOf(l) |-> LineFor(x, u)]
  <2>1. receipts' = [receipts EXCEPT ![s] = [holder |-> u, lines |-> charged, recipe |-> worn[l]]]
    BY <1>1, Completion
  <2>2. r = s /\ receipts'[s] = [holder |-> u, lines |-> charged, recipe |-> worn[l]]
    BY <1>1, <2>1 DEF QuotaInv
  <2>3. quoted[u] = Quote(u, l) /\ Sealable(u, l) /\ Settle(u, charged)
    BY <1>1 DEF Complete
  <2>4. [x \in DOMAIN charged |-> Payment(x, charged[x])] = Quote(u, l)
    BY DEF Quote
  <2>5. cash' = Credit(cash, u, - TotalOf(quoted[u]))
    BY <2>3, <2>4 DEF Settle
  <2>6. DOMAIN quoted[u] = LinesOf(l) /\ DOMAIN charged = LinesOf(l)
    BY <2>3 DEF Quote
  <2>7. UsedPacks(l) = {p \in Packs : \E k \in Places : worn[l][k] = Selection("pack", p, 0)}
    BY <1>1, <2>3, UsedPacksAre
  <2>8. UsedPacks(l) = LinesOf(l) \ {Base}
    BY <2>7, LinesAssumption DEF LinesOf
  <2> QED BY <2>2, <2>5, <2>6, <2>7, <2>8 DEF ChargedAsQuoted
<1>2. ASSUME WardrobeTyped, QuotaInv, [Next]_vars, NEW r \in Souls, receipts'[r] # receipts[r]
      PROVE  ChargedAsQuoted(r)
  <2>1. PICK u \in Users, l \in Players, s \in Souls : Complete(u, l, s)
    BY <1>2 DEF Next, ReadQuote, completeVars, vars
  <2> QED BY <1>1, <1>2, <2>1
<1>3. WardrobeInv /\ QuotaInv /\ [Next]_vars
         => [\A s \in Souls : receipts'[s] # receipts[s] => ChargedAsQuoted(s)]_vars
  BY <1>2 DEF WardrobeInv
<1> QED BY <1>3, QuotaHolds, PTL DEF Spec, CompleteAsQuoted

-----------------------------------------------------------------------------
(* Sums.  A set of subsets of a finite set that is not empty has a least    *)
(* member, and every fact below is that no least set contradicts it.        *)

(* The sum of f over the set S. *)
SumOver(f, S) == MapThenSumSet(LAMBDA x : f[x], S)

(* The element a fold over s takes first. *)
Pick(s) == CHOOSE x \in s : TRUE
(* g holds the sum of f over every subset of S. *)
SumsUp(f, S, g) ==
    g = [s \in SUBSET S |-> IF s = {} THEN 0 ELSE f[Pick(s)] + g[s \ {Pick(s)}]]

LEMMA PickIn == ASSUME NEW s, s # {} PROVE Pick(s) \in s
BY DEF Pick

(* A set of subsets of a finite set has a least one, if it has one at all. *)
LEMMA Minimal ==
    ASSUME NEW S, IsFiniteSet(S), NEW Bad, Bad \subseteq SUBSET S, Bad # {}
    PROVE  \E T \in Bad : \A U \in SUBSET T : U # T => U \notin Bad
<1>1. IsWellFoundedOn(StrictSubsetOrdering(S), FiniteSubsetsOf(S))
  BY FS_StrictSubsetOrderingWellFounded
<1>2. FiniteSubsetsOf(S) = SUBSET S
  BY FS_FiniteSubsetsOfFinite
<1>3. \E T \in Bad : \A U \in Bad : ~ (<<U, T>> \in StrictSubsetOrdering(S))
  <2> HIDE DEF StrictSubsetOrdering
  <2> QED BY <1>1, <1>2, WFMin, Zenon
<1> QED BY <1>3 DEF StrictSubsetOrdering

(* The fold behind MapThenSumSet is one such function. *)
LEMMA SumIs == 
    ASSUME NEW f, NEW S
    PROVE SumOver(f, S) = (CHOOSE g : SumsUp(f, S, g))[S]
BY DEF SumOver, MapThenSumSet, MapThenFoldSet, SumsUp, Pick

(* At most one function sums up f; it does not depend on the set it is for. *)
LEMMA Unique ==
    ASSUME NEW f, NEW S, NEW g, SumsUp(f, S, g), NEW T, NEW h, SumsUp(f, T, h),
           NEW U, IsFiniteSet(U), U \subseteq S, U \subseteq T
    PROVE  g[U] = h[U]
<1> DEFINE Bad == {W \in SUBSET U : g[W] # h[W]}
<1>1. CASE Bad = {}
  BY <1>1
<1>2. CASE Bad # {}
  <2>1. PICK W \in Bad : \A V \in SUBSET W : V # W => V \notin Bad
    <3> HIDE DEF Bad
    <3>1. Bad \subseteq SUBSET U
      BY DEF Bad
    <3> QED BY <1>2, <3>1, Minimal
  <2>2. W \in SUBSET S /\ W \in SUBSET T
    OBVIOUS
  <2>3. g[W] = IF W = {} THEN 0 ELSE f[Pick(W)] + g[W \ {Pick(W)}]
    BY <2>2 DEF SumsUp
  <2>4. h[W] = IF W = {} THEN 0 ELSE f[Pick(W)] + h[W \ {Pick(W)}]
    BY <2>2 DEF SumsUp
  <2>5. W # {}
    BY <2>3, <2>4
  <2>6. W \ {Pick(W)} \in SUBSET W /\ W \ {Pick(W)} # W
    BY <2>5, PickIn
  <2>7. g[W \ {Pick(W)}] = h[W \ {Pick(W)}]
    BY <2>1, <2>6
  <2> QED BY <2>3, <2>4, <2>7
<1> QED BY <1>1, <1>2

(* There is one on every finite set: on a least set without, it would be   *)
(* pieced together from those of the smaller sets.                          *)
LEMMA Exists ==
    ASSUME NEW f, NEW S, IsFiniteSet(S)
    PROVE  \E g : SumsUp(f, S, g)
<1> DEFINE Bad == {T \in SUBSET S : ~ \E g : SumsUp(f, T, g)}
<1>1. SUFFICES ASSUME Bad # {} PROVE FALSE
  OBVIOUS
<1>2. PICK T \in Bad : \A U \in SUBSET T : U # T => U \notin Bad
  <2> HIDE DEF Bad
  <2>1. Bad \subseteq SUBSET S
    BY DEF Bad
  <2> QED BY <1>1, <2>1, Minimal
<1>3. IsFiniteSet(T) /\ \A U \in SUBSET T : IsFiniteSet(U)
  BY FS_Subset
<1> DEFINE Sub(U) == CHOOSE g : SumsUp(f, U, g)
           G == [s \in SUBSET T |-> IF s = {} THEN 0
                                    ELSE f[Pick(s)] + Sub(s \ {Pick(s)})[s \ {Pick(s)}]]
<1>4. \A U \in SUBSET T : U # T => SumsUp(f, U, Sub(U))
  BY <1>2
<1>5. ASSUME NEW s \in SUBSET T, s # {}
      PROVE  G[s \ {Pick(s)}] = Sub(s \ {Pick(s)})[s \ {Pick(s)}]
  <2> DEFINE r == s \ {Pick(s)}
  <2>1. r \in SUBSET T /\ r # T
    BY <1>5, PickIn
  <2>2. SumsUp(f, r, Sub(r))
    BY <1>4, <2>1
  <2>3. Sub(r)[r] = IF r = {} THEN 0 ELSE f[Pick(r)] + Sub(r)[r \ {Pick(r)}]
    <3> HIDE DEF Sub, r
    <3> QED BY <2>2 DEF SumsUp
  <2>4. ASSUME r # {} PROVE Sub(r)[r \ {Pick(r)}] = Sub(r \ {Pick(r)})[r \ {Pick(r)}]
    <3> DEFINE q == r \ {Pick(r)}
    <3>1. q \in SUBSET T /\ q # T /\ q \subseteq r
      BY <2>1, <2>4, PickIn
    <3>2. SumsUp(f, q, Sub(q)) /\ IsFiniteSet(q)
      BY <1>3, <1>4, <3>1
    <3> HIDE DEF Sub, q, r
    <3>3. Sub(r)[q] = Sub(q)[q]
      BY <2>2, <3>1, <3>2, Unique
    <3> QED BY <3>3 DEF q
  <2>5. G[r] = IF r = {} THEN 0 ELSE f[Pick(r)] + Sub(r \ {Pick(r)})[r \ {Pick(r)}]
    <3> HIDE DEF Sub, r
    <3> QED BY <2>1
  <2> HIDE DEF Sub, G, r
  <2>6. G[r] = Sub(r)[r]
    BY <2>3, <2>4, <2>5
  <2> QED BY <2>6 DEF r
<1>6. SumsUp(f, T, G)
  <2>1. G = [s \in SUBSET T |-> IF s = {} THEN 0 ELSE f[Pick(s)] + G[s \ {Pick(s)}]]
    <3> DEFINE H == [s \in SUBSET T |-> IF s = {} THEN 0 ELSE f[Pick(s)] + G[s \ {Pick(s)}]]
    <3>1. \A s \in SUBSET T : G[s] = H[s]
      <4> TAKE s \in SUBSET T
      <4>1. CASE s = {}
        BY <4>1
      <4>2. CASE s # {}
        <5>1. G[s] = f[Pick(s)] + Sub(s \ {Pick(s)})[s \ {Pick(s)}]
          <6> HIDE DEF Sub
          <6> QED BY <4>2
        <5>2. H[s] = f[Pick(s)] + G[s \ {Pick(s)}]
          <6> HIDE DEF G
          <6> QED BY <4>2
        <5> HIDE DEF Sub, G, H
        <5> QED BY <1>5, <4>2, <5>1, <5>2
      <4> QED BY <4>1, <4>2
    <3>2. DOMAIN G = SUBSET T /\ DOMAIN H = SUBSET T
      OBVIOUS
    <3> QED BY <3>1, <3>2
  <2> HIDE DEF G
  <2> QED BY <2>1 DEF SumsUp
<1> HIDE DEF G
<1> QED BY <1>6

(* So a sum is what its recursive definition says. *)
LEMMA SumUnfolds ==
    ASSUME NEW f, NEW S, IsFiniteSet(S)
    PROVE  /\ S = {} => SumOver(f, S) = 0
           /\ S # {} => SumOver(f, S) = f[Pick(S)] + SumOver(f, S \ {Pick(S)})
<1> DEFINE Sub(U) == CHOOSE g : SumsUp(f, U, g)
           r == S \ {Pick(S)}
<1>1. IsFiniteSet(r) /\ r \subseteq S
  BY FS_Subset
<1>2. SumsUp(f, S, Sub(S)) /\ SumsUp(f, r, Sub(r))
  BY <1>1, Exists
<1>3. Sub(S)[r] = Sub(r)[r]
  <2> HIDE DEF Sub, r
  <2> QED BY <1>1, <1>2, Unique
<1>4. SumOver(f, S) = Sub(S)[S] /\ SumOver(f, r) = Sub(r)[r]
  BY SumIs
<1>5. Sub(S)[S] = IF S = {} THEN 0 ELSE f[Pick(S)] + Sub(S)[S \ {Pick(S)}]
  <2> HIDE DEF Sub, r
  <2> QED BY <1>2 DEF SumsUp
<1> HIDE DEF Sub
<1> QED BY <1>3, <1>4, <1>5

LEMMA SumEmpty == ASSUME NEW f PROVE SumOver(f, {}) = 0
BY SumUnfolds, FS_EmptySet

(* Sums of integers are integers, of natural numbers natural. *)
LEMMA SumIsInt ==
    ASSUME NEW f, NEW S, IsFiniteSet(S), \A x \in S : f[x] \in Int
    PROVE  SumOver(f, S) \in Int /\ ((\A x \in S : f[x] \in Nat) => SumOver(f, S) \in Nat)
<1> DEFINE Bad == {T \in SUBSET S :
                     ~ (/\ SumOver(f, T) \in Int
                        /\ (\A x \in S : f[x] \in Nat) => SumOver(f, T) \in Nat)}
<1>1. SUFFICES ASSUME Bad # {} PROVE FALSE
  OBVIOUS
<1>2. PICK T \in Bad : \A U \in SUBSET T : U # T => U \notin Bad
  <2> HIDE DEF Bad
  <2>1. Bad \subseteq SUBSET S
    BY DEF Bad
  <2> QED BY <1>1, <2>1, Minimal
<1>3. T \in SUBSET S /\ IsFiniteSet(T)
  BY FS_Subset
<1>4. T # {}
  BY SumEmpty
<1>5. SumOver(f, T) = f[Pick(T)] + SumOver(f, T \ {Pick(T)})
  BY <1>3, <1>4, SumUnfolds
<1>6. Pick(T) \in T
  BY <1>4, PickIn
<1>7. T \ {Pick(T)} \in SUBSET T /\ T \ {Pick(T)} # T /\ T \ {Pick(T)} \in SUBSET S
  BY <1>3, <1>6
<1>8. T \ {Pick(T)} \notin Bad
  BY <1>2, <1>7
<1>9. f[Pick(T)] \in Int /\ ((\A x \in S : f[x] \in Nat) => f[Pick(T)] \in Nat)
  BY <1>3, <1>6
<1> QED BY <1>5, <1>7, <1>8, <1>9

(* Whichever element the fold would take first, any other may be taken.     *)
LEMMA SumRemove ==
    ASSUME NEW f, NEW S, IsFiniteSet(S), \A x \in S : f[x] \in Int, NEW e \in S
    PROVE  SumOver(f, S) = f[e] + SumOver(f, S \ {e})
<1> DEFINE Bad == {T \in SUBSET S : \E x \in T : SumOver(f, T) # f[x] + SumOver(f, T \ {x})}
<1>1. SUFFICES ASSUME Bad # {} PROVE FALSE
  OBVIOUS
<1>2. PICK T \in Bad : \A U \in SUBSET T : U # T => U \notin Bad
  <2> HIDE DEF Bad
  <2>1. Bad \subseteq SUBSET S
    BY DEF Bad
  <2> QED BY <1>1, <2>1, Minimal
<1>3. PICK x \in T : SumOver(f, T) # f[x] + SumOver(f, T \ {x})
  OBVIOUS
<1>4. T \in SUBSET S /\ \A U \in SUBSET T : IsFiniteSet(U)
  BY FS_Subset
<1>5. PICK p : p = Pick(T)
  OBVIOUS
<1>6. p \in T /\ SumOver(f, T) = f[p] + SumOver(f, T \ {p})
  BY <1>4, <1>5, PickIn, SumUnfolds
<1>7. p # x
  BY <1>3, <1>6
<1>8. SumOver(f, T \ {p}) = f[x] + SumOver(f, (T \ {p}) \ {x})
  <2>1. T \ {p} \notin Bad /\ T \ {p} \in SUBSET S /\ x \in T \ {p}
    BY <1>2, <1>4, <1>6, <1>7
  <2> QED BY <2>1
<1>9. SumOver(f, T \ {x}) = f[p] + SumOver(f, (T \ {x}) \ {p})
  <2>1. T \ {x} \notin Bad /\ T \ {x} \in SUBSET S /\ p \in T \ {x}
    BY <1>2, <1>4, <1>6, <1>7
  <2> QED BY <2>1
<1>10. (T \ {p}) \ {x} = (T \ {x}) \ {p}
  OBVIOUS
<1>11. PICK n \in Int, a \in Int, b \in Int :
             n = SumOver(f, (T \ {x}) \ {p}) /\ a = f[x] /\ b = f[p]
  BY <1>4, <1>6, SumIsInt
<1>12. SumOver(f, T) = b + (a + n) /\ SumOver(f, T \ {x}) = b + n
  BY <1>6, <1>8, <1>9, <1>10, <1>11
<1>13. SumOver(f, T) # a + (b + n)
  BY <1>3, <1>11, <1>12
<1> QED BY <1>11, <1>12, <1>13

LEMMA SumAdd ==
    ASSUME NEW f, NEW S, IsFiniteSet(S), NEW e, e \notin S,
           \A x \in S \cup {e} : f[x] \in Int
    PROVE  SumOver(f, S \cup {e}) = SumOver(f, S) + f[e]
<1>1. IsFiniteSet(S \cup {e}) /\ (S \cup {e}) \ {e} = S
  BY FS_AddElement
<1>2. SumOver(f, S \cup {e}) = f[e] + SumOver(f, (S \cup {e}) \ {e})
  BY <1>1, SumRemove
<1>3. PICK n \in Int, a \in Int : n = SumOver(f, S) /\ a = f[e]
  BY SumIsInt
<1>4. SumOver(f, S \cup {e}) = a + n
  BY <1>1, <1>2, <1>3
<1> QED BY <1>3, <1>4

(* Sums add up element by element. *)
LEMMA SumPlus ==
    ASSUME NEW S, IsFiniteSet(S), NEW f, NEW g, NEW h,
           \A x \in S : f[x] \in Int /\ g[x] \in Int /\ h[x] = f[x] + g[x]
    PROVE  SumOver(h, S) = SumOver(f, S) + SumOver(g, S)
<1> DEFINE Bad == {T \in SUBSET S : SumOver(h, T) # SumOver(f, T) + SumOver(g, T)}
<1>1. SUFFICES ASSUME Bad # {} PROVE FALSE
  OBVIOUS
<1>2. PICK T \in Bad : \A U \in SUBSET T : U # T => U \notin Bad
  <2> HIDE DEF Bad
  <2>1. Bad \subseteq SUBSET S
    BY DEF Bad
  <2> QED BY <1>1, <2>1, Minimal
<1>3. T \in SUBSET S /\ IsFiniteSet(T)
  BY FS_Subset
<1>4. T # {}
  <2>1. SumOver(f, {}) = 0 /\ SumOver(g, {}) = 0 /\ SumOver(h, {}) = 0
    BY SumEmpty
  <2>2. SumOver(h, {}) = SumOver(f, {}) + SumOver(g, {})
    BY <2>1
  <2>3. SumOver(h, T) # SumOver(f, T) + SumOver(g, T)
    OBVIOUS
  <2> HIDE DEF Bad
  <2> QED BY <2>2, <2>3, Zenon
<1>5. PICK p : p = Pick(T)
  OBVIOUS
<1>6. /\ p \in T /\ SumOver(h, T) = h[p] + SumOver(h, T \ {p})
      /\ SumOver(f, T) = f[p] + SumOver(f, T \ {p})
      /\ SumOver(g, T) = g[p] + SumOver(g, T \ {p})
  BY <1>3, <1>4, <1>5, PickIn, SumUnfolds
<1>7. T \ {p} \notin Bad /\ T \ {p} \in SUBSET S /\ IsFiniteSet(T \ {p})
  BY <1>2, <1>3, <1>6, FS_Subset
<1>8. SumOver(h, T \ {p}) = SumOver(f, T \ {p}) + SumOver(g, T \ {p})
  BY <1>7
<1>9. /\ SumOver(f, T \ {p}) \in Int /\ SumOver(g, T \ {p}) \in Int
      /\ f[p] \in Int /\ g[p] \in Int /\ h[p] = f[p] + g[p]
  BY <1>6, <1>7, SumIsInt
<1> QED BY <1>6, <1>8, <1>9

(* Elements that count for nothing may be left out. *)
LEMMA SumWithin ==
    ASSUME NEW S, IsFiniteSet(S), NEW T, T \subseteq S, NEW f, NEW g,
           \A x \in T : f[x] = g[x] /\ f[x] \in Int, \A x \in S \ T : f[x] = 0
    PROVE  SumOver(f, S) = SumOver(g, T)
<1> DEFINE Bad == {U \in SUBSET S : SumOver(f, U) # SumOver(g, U \cap T)}
<1>0. S \cap T = T
  OBVIOUS
<1>1. SUFFICES ASSUME Bad # {} PROVE FALSE
  BY <1>0
<1>2. PICK U \in Bad : \A V \in SUBSET U : V # U => V \notin Bad
  <2> HIDE DEF Bad
  <2>1. Bad \subseteq SUBSET S
    BY DEF Bad
  <2> QED BY <1>1, <2>1, Minimal
<1>3. U \in SUBSET S /\ IsFiniteSet(U) /\ IsFiniteSet(U \cap T)
  BY FS_Subset
<1>4. U # {}
  BY SumEmpty
<1>5. PICK p : p = Pick(U)
  OBVIOUS
<1>6. p \in U /\ SumOver(f, U) = f[p] + SumOver(f, U \ {p})
  BY <1>3, <1>4, <1>5, PickIn, SumUnfolds
<1>7. SumOver(f, U \ {p}) = SumOver(g, (U \ {p}) \cap T)
  BY <1>2, <1>3, <1>6
<1>8. IsFiniteSet(U \ {p}) /\ SumOver(f, U \ {p}) \in Int
  BY <1>3, FS_Subset, SumIsInt
<1>9. CASE p \in T
  <2>1. SumOver(g, U \cap T) = g[p] + SumOver(g, (U \cap T) \ {p})
    BY <1>3, <1>6, <1>9, SumRemove
  <2>2. (U \cap T) \ {p} = (U \ {p}) \cap T
    OBVIOUS
  <2> QED BY <1>6, <1>7, <1>9, <2>1, <2>2
<1>10. CASE p \notin T
  <2>1. (U \ {p}) \cap T = U \cap T /\ f[p] = 0
    BY <1>3, <1>6, <1>10
  <2> QED BY <1>6, <1>7, <1>8, <2>1
<1> QED BY <1>9, <1>10

LEMMA SumSame ==
    ASSUME NEW S, IsFiniteSet(S), NEW f, NEW g, \A x \in S : f[x] = g[x] /\ f[x] \in Int
    PROVE  SumOver(f, S) = SumOver(g, S)
BY SumWithin

(* One element changes by d. *)
LEMMA SumChange ==
    ASSUME NEW S, IsFiniteSet(S), NEW f, NEW g, NEW e \in S, NEW d \in Int,
           \A x \in S : f[x] \in Int /\ g[x] = IF x = e THEN f[x] + d ELSE f[x]
    PROVE  SumOver(g, S) = SumOver(f, S) + d
<1>1. IsFiniteSet(S \ {e})
  BY FS_RemoveElement
<1>2. PICK n \in Int, a \in Int : n = SumOver(f, S \ {e}) /\ a = f[e]
  BY <1>1, SumIsInt
<1>3. SumOver(f, S) = a + n
  BY <1>2, SumRemove
<1>4. SumOver(g, S \ {e}) = n
  BY <1>1, <1>2, SumSame
<1>5. SumOver(g, S) = (a + d) + n
  <2>1. \A x \in S : g[x] \in Int
    OBVIOUS
  <2>2. SumOver(g, S) = g[e] + SumOver(g, S \ {e})
    BY <2>1, SumRemove
  <2> QED BY <1>2, <1>4, <2>2
<1> QED BY <1>2, <1>3, <1>5

LEMMA TotalIs ==
    ASSUME NEW f, NEW S, DOMAIN f = S
    PROVE  TotalOf(f) = SumOver(f, S)
BY DEF TotalOf, SumOver

-----------------------------------------------------------------------------
(* Shares of a price, and what a number of passes was sold for. *)

LEMMA ShareBelow ==
    ASSUME NEW gross \in Nat
    PROVE  /\ Share(gross) \in Nat /\ Share(gross) <= gross
           /\ ShareOf(gross) \in Nat /\ ShareOf(gross) <= gross
<1>1. PrimaryBps \in Nat /\ PrimaryBps <= 10000
  BY PriceAssumption
<1>2. PICK n \in Nat : n = gross * PrimaryBps
  BY <1>1
<1>3. n <= 10000 * gross
  <2>1. \A b \in Nat, g \in Nat : b <= 10000 => g * b <= 10000 * g
    OBVIOUS
  <2> QED BY <1>1, <1>2, <2>1
<1>4. n \div 10000 \in Nat /\ n \div 10000 <= gross
  BY <1>3
<1> QED BY <1>2, <1>4 DEF Share, ShareOf

LEMMA SoldTyped ==
    ASSUME NEW holders, holders \subseteq Users, NEW price \in Nat
    PROVE  Sold(holders, price) \in Int
<1>1. Cardinality(holders) \in Nat
  BY FiniteAssumption, FS_Subset, FS_CardinalityType
<1>2. price - ShareOf(price) \in Int
  BY ShareBelow
<1>3. \A n \in Nat, c \in Int : n * c \in Int
  OBVIOUS
<1> QED BY <1>1, <1>2, <1>3 DEF Sold

LEMMA SoldMore ==
    ASSUME NEW holders, holders \subseteq Users, NEW price \in Nat,
           NEW u \in Users, u \notin holders
    PROVE  /\ Sold(holders, price) \in Int
           /\ Sold(holders \cup {u}, price) = Sold(holders, price) + (price - ShareOf(price))
<1>1. IsFiniteSet(holders)
  BY FiniteAssumption, FS_Subset
<1>2. Cardinality(holders) \in Nat /\ Cardinality(holders \cup {u}) = Cardinality(holders) + 1
  BY <1>1, FS_AddElement, FS_CardinalityType
<1>3. price - ShareOf(price) \in Int
  BY ShareBelow
<1>4. \A n \in Nat, c \in Int : n * c \in Int /\ (n + 1) * c = n * c + c
  OBVIOUS
<1> QED BY <1>2, <1>3, <1>4 DEF Sold

-----------------------------------------------------------------------------
(* Money. *)

MoneyTyped ==
    /\ protocol \in [enabled : BOOLEAN, revision : Nat, revenue : Nat, direct : Nat]
    /\ root \in [lifecycle : Lifecycles, owner : Users, epoch : Nat, price : Nat]
    /\ treasury \in Treasuries /\ tills \in [Packs -> Treasuries]
    /\ passes \subseteq Users /\ packPasses \in [Packs -> SUBSET Users]
    /\ cash \in [Users -> Nat]

InTills(pouches) == TotalOf([p \in Packs |-> pouches[p].revenue])

(* What a treasury collected, direct deposits aside. *)
ByPayments(pot) == pot.collected - pot.direct

LEMMA TillTyped ==
    ASSUME NEW pot \in Treasuries
    PROVE  /\ pot.revenue \in Nat /\ pot.collected \in Nat
           /\ pot.withdrawn \in Nat /\ pot.direct \in Nat
           /\ ByPayments(pot) \in Int
           /\ pot.revenue = pot.revenue + 0
           /\ ByPayments(pot) = ByPayments(pot) + 0
           /\ pot.collected = ByPayments(pot) + pot.direct
BY DEF Treasuries, ByPayments

(* Setting two fields of a treasury leaves the other two.                  *)
LEMMA TillFields ==
    ASSUME NEW pot \in Treasuries, NEW r, NEW x
    PROVE  /\ [pot EXCEPT !.revenue = r, !.collected = x] =
                 [revenue |-> r, collected |-> x,
                  withdrawn |-> pot.withdrawn, direct |-> pot.direct]
           /\ [pot EXCEPT !.revenue = r, !.withdrawn = x] =
                 [revenue |-> r, collected |-> pot.collected,
                  withdrawn |-> x, direct |-> pot.direct]
<1> DEFINE came == [pot EXCEPT !.revenue = r, !.collected = x]
           left == [pot EXCEPT !.revenue = r, !.withdrawn = x]
           Fields == {"revenue", "collected", "withdrawn", "direct"}
<1>1. /\ came = [f \in Fields |-> came[f]]
      /\ left = [f \in Fields |-> left[f]]
  BY DEF Treasuries
<1>2. came.revenue = r /\ came.collected = x
      /\ came.withdrawn = pot.withdrawn /\ came.direct = pot.direct
  BY DEF Treasuries
<1>3. left.revenue = r /\ left.collected = pot.collected
      /\ left.withdrawn = x /\ left.direct = pot.direct
  BY DEF Treasuries
<1> HIDE DEF came, left
<1>4. came = [revenue |-> r, collected |-> x,
              withdrawn |-> pot.withdrawn, direct |-> pot.direct]
  BY <1>1, <1>2
<1>5. left = [revenue |-> r, collected |-> pot.collected,
              withdrawn |-> x, direct |-> pot.direct]
  BY <1>1, <1>3
<1> QED BY <1>4, <1>5 DEF came, left

(* A payment counts, a direct deposit and a withdrawal change no more than  *)
(* what there is to take.                                                   *)
LEMMA TillBooks ==
    ASSUME NEW pot \in Treasuries, NEW amount \in Nat
    PROVE  /\ Deposited(pot, amount) \in Treasuries
           /\ Deposited(pot, amount).revenue = pot.revenue + amount
           /\ ByPayments(Deposited(pot, amount)) = ByPayments(pot) + amount
           /\ DepositedDirectly(pot, amount) \in Treasuries
           /\ DepositedDirectly(pot, amount).revenue = pot.revenue + amount
           /\ ByPayments(DepositedDirectly(pot, amount)) = ByPayments(pot) + 0
           /\ amount <= pot.revenue => Drawn(pot, amount) \in Treasuries
           /\ Drawn(pot, amount).revenue = pot.revenue + (- amount)
           /\ ByPayments(Drawn(pot, amount)) = ByPayments(pot) + 0
<1>1. PICK r \in Nat, c \in Nat, w \in Nat, d \in Nat :
        r = pot.revenue /\ c = pot.collected /\ w = pot.withdrawn /\ d = pot.direct
  BY TillTyped
<1>2. Deposited(pot, amount) =
         [revenue |-> r + amount, collected |-> c + amount, withdrawn |-> w, direct |-> d]
  BY <1>1, TillFields DEF Deposited
<1>3. DepositedDirectly(pot, amount) =
         [revenue |-> r + amount, collected |-> c + amount, withdrawn |-> w,
          direct |-> d + amount]
  BY <1>1, <1>2 DEF DepositedDirectly
<1>4. Drawn(pot, amount) =
         [revenue |-> r - amount, collected |-> c, withdrawn |-> w + amount, direct |-> d]
  <2>1. Drawn(pot, amount) =
           [revenue |-> pot.revenue - amount, collected |-> pot.collected,
            withdrawn |-> pot.withdrawn + amount, direct |-> pot.direct]
    BY TillFields DEF Drawn
  <2> QED BY <1>1, <2>1
<1>5. /\ r + amount \in Nat /\ c + amount \in Nat /\ w + amount \in Nat /\ d + amount \in Nat
      /\ amount <= r => r - amount \in Nat
      /\ r - amount = r + (- amount)
      /\ (c + amount) - d = (c - d) + amount
      /\ (c + amount) - (d + amount) = (c - d) + 0
      /\ c - d = (c - d) + 0
  OBVIOUS
<1>6. ByPayments(pot) = c - d
  BY <1>1 DEF ByPayments
<1>7. /\ Deposited(pot, amount) \in Treasuries
      /\ DepositedDirectly(pot, amount) \in Treasuries
      /\ amount <= r => Drawn(pot, amount) \in Treasuries
  BY <1>2, <1>3, <1>4, <1>5 DEF Treasuries
<1>8. /\ ByPayments(Deposited(pot, amount)) = (c + amount) - d
      /\ ByPayments(DepositedDirectly(pot, amount)) = (c + amount) - (d + amount)
      /\ ByPayments(Drawn(pot, amount)) = c - d
  BY <1>2, <1>3, <1>4 DEF ByPayments
<1>9. /\ Deposited(pot, amount).revenue = r + amount
      /\ DepositedDirectly(pot, amount).revenue = r + amount
      /\ Drawn(pot, amount).revenue = r - amount
  BY <1>2, <1>3, <1>4
<1> QED BY <1>1, <1>5, <1>6, <1>7, <1>8, <1>9

(* A wallet is credited, or charged. *)
LEMMA CashMoves ==
    ASSUME MoneyTyped, NEW u \in Users, NEW d \in Int, cash' = Credit(cash, u, d)
    PROVE  TotalOf(cash') = TotalOf(cash) + d
<1>1. DOMAIN cash = Users /\ DOMAIN cash' = Users
  BY DEF MoneyTyped, Credit
<1>2. \A x \in Users : cash[x] \in Int /\ cash'[x] = IF x = u THEN cash[x] + d ELSE cash[x]
  BY DEF MoneyTyped, Credit
<1>3. SumOver(cash', Users) = SumOver(cash, Users) + d
  BY <1>2, FiniteAssumption, SumChange
<1> QED BY <1>1, <1>3, TotalIs

(* So is one Pack's treasury. *)
LEMMA TillMoves ==
    ASSUME MoneyTyped, NEW p \in Packs, NEW d \in Int,
           \A q \in Packs : tills'[q].revenue = IF q = p THEN tills[p].revenue + d ELSE tills[q].revenue
    PROVE  InTills(tills') = InTills(tills) + d
<1> DEFINE f == [q \in Packs |-> tills[q].revenue]
           g == [q \in Packs |-> tills'[q].revenue]
<1>1. \A q \in Packs : f[q] \in Int /\ g[q] = IF q = p THEN f[q] + d ELSE f[q]
  BY DEF MoneyTyped, Treasuries
<1>2. DOMAIN f = Packs /\ DOMAIN g = Packs
  OBVIOUS
<1>3. InTills(tills) = TotalOf(f) /\ InTills(tills') = TotalOf(g)
  BY DEF InTills
<1> HIDE DEF f, g
<1>4. SumOver(g, Packs) = SumOver(f, Packs) + d
  BY <1>1, FiniteAssumption, SumChange
<1> QED BY <1>2, <1>3, <1>4, TotalIs

LEMMA AmountsTyped ==
    ASSUME MoneyTyped
    PROVE  TotalOf(cash) \in Int /\ InTills(tills) \in Int
<1> DEFINE f == [q \in Packs |-> tills[q].revenue]
<1>1. (\A q \in Packs : f[q] \in Int) /\ DOMAIN f = Packs /\ InTills(tills) = TotalOf(f)
  BY DEF MoneyTyped, Treasuries, InTills
<1> HIDE DEF f
<1>2. (\A u \in Users : cash[u] \in Int) /\ DOMAIN cash = Users
  BY DEF MoneyTyped
<1>3. SumOver(f, Packs) \in Int /\ SumOver(cash, Users) \in Int
  BY <1>1, <1>2, FiniteAssumption, SumIsInt
<1>4. TotalOf(f) = SumOver(f, Packs) /\ TotalOf(cash) = SumOver(cash, Users)
  BY <1>1, <1>2, TotalIs
<1> QED BY <1>1, <1>3, <1>4

(* What leaves one place comes to another. *)
LEMMA CoinsMove ==
    ASSUME MoneyTyped, MoneyTyped', CoinsKept,
           NEW c \in Int, TotalOf(cash') = TotalOf(cash) + c,
           NEW t \in Int, InTills(tills') = InTills(tills) + t,
           NEW m \in Int, treasury'.revenue = treasury.revenue + m,
           NEW n \in Int, protocol'.revenue = protocol.revenue + n,
           c + t + m + n = 0
    PROVE  CoinsKept'
<1>1. PICK a \in Int, b \in Int, d \in Int, e \in Int :
           a = TotalOf(cash) /\ b = InTills(tills) /\ d = treasury.revenue /\ e = protocol.revenue
  <2>1. TotalOf(cash) \in Int /\ InTills(tills) \in Int
    BY AmountsTyped
  <2>2. treasury.revenue \in Int /\ protocol.revenue \in Int
    <3>1. treasury.revenue \in Nat /\ protocol.revenue \in Nat
      BY TillTyped DEF MoneyTyped
    <3> QED BY <3>1
  <2> QED BY <2>1, <2>2
<1>2. a + e + d + b = TotalOf([u \in Users |-> Purse])
  BY <1>1 DEF CoinsKept, InTills
<1>3. /\ TotalOf(cash') = a + c /\ InTills(tills') = b + t
      /\ treasury'.revenue = d + m /\ protocol'.revenue = e + n
  BY <1>1
<1>4. (a + c) + (e + n) + (d + m) + (b + t) = a + e + d + b
  OBVIOUS
<1>5. TotalOf(cash') + protocol'.revenue + treasury'.revenue + InTills(tills')
         = TotalOf([u \in Users |-> Purse])
  BY <1>2, <1>3, <1>4
<1> QED BY <1>5 DEF CoinsKept, InTills

(* Calls that neither mint nor charge. *)

(* What receipts say, as long as there are no new ones. *)
LEMMA SameReceipts ==
    ASSUME receipts' = receipts
    PROVE  /\ \A x : Earned(x)' = Earned(x) /\ ReceiptsOf(x)' = ReceiptsOf(x)
           /\ \A x, u : ReceiptsTo(x, u)' = ReceiptsTo(x, u)
  BY DEF Earned, ReceiptsTo, ReceiptsOf, Minted

(* Ordinals of a wallet run from zero, one to each of its receipts. *)
Ordinals(x, u) == {receipts[s].lines[x].ordinal : s \in ReceiptsTo(x, u)}
NumberedInv ==
    \A x \in Lines :
        /\ counts[x].total = Cardinality(ReceiptsOf(x))
        /\ \A u \in Users : /\ counts[x].by[u] = Cardinality(ReceiptsTo(x, u))
                            /\ Ordinals(x, u) = {n \in Nat : n < counts[x].by[u]}

(* A receipt charges lines there are, in natural amounts. *)
ReceiptsTyped ==
    \A s \in Minted : /\ DOMAIN receipts[s].lines \subseteq Lines
                      /\ \A x \in DOMAIN receipts[s].lines : receipts[s].lines[x].gross \in Nat

(* What payments brought is what receipts and passes say. *)
CollectedInv ==
    /\ ByPayments(treasury) = Earned(Base) + Sold(passes, root.price)
    /\ \A p \in Packs :
          ByPayments(tills[p])
              = Earned(p) + (IF terms.access = Paid THEN Sold(packPasses[p], terms.price) ELSE 0)

BooksInv == MoneyTyped /\ ReceiptsTyped /\ NumberedInv /\ CollectedInv /\ CoinsKept

LEMMA NumbersStay ==
    ASSUME ReceiptsTyped, NumberedInv, UNCHANGED <<counts, receipts>>
    PROVE  ReceiptsTyped' /\ NumberedInv'
<1>1. \A x, u : ReceiptsOf(x)' = ReceiptsOf(x) /\ ReceiptsTo(x, u)' = ReceiptsTo(x, u)
                   /\ Ordinals(x, u)' = Ordinals(x, u)
  BY SameReceipts DEF Ordinals
<1>2. Minted' = Minted
  BY DEF Minted
<1> QED BY <1>1, <1>2 DEF ReceiptsTyped, NumberedInv

(* No money moves and no pass is issued. *)
LEMMA BooksUntouched ==
    ASSUME BooksInv, MoneyTyped',
           UNCHANGED <<treasury, passes, packPasses, tills, cash, terms, counts, receipts>>,
           root'.price = root.price, protocol'.revenue = protocol.revenue
    PROVE  BooksInv'
<1>1. ReceiptsTyped' /\ NumberedInv'
  BY NumbersStay DEF BooksInv
<1>2. CollectedInv'
  BY SameReceipts DEF BooksInv, CollectedInv
<1>3. CoinsKept'
  BY DEF BooksInv, CoinsKept
<1> QED BY <1>1, <1>2, <1>3 DEF BooksInv

LEMMA EarnedTyped ==
    ASSUME ReceiptsTyped, NEW x
    PROVE  /\ IsFiniteSet(ReceiptsOf(x))
           /\ \A s \in ReceiptsOf(x) : Residual(receipts[s].lines[x]) \in Nat
           /\ Earned(x) = SumOver([s \in ReceiptsOf(x) |-> Residual(receipts[s].lines[x])], ReceiptsOf(x))
           /\ Earned(x) \in Int
<1> DEFINE f == [s \in ReceiptsOf(x) |-> Residual(receipts[s].lines[x])]
<1>1. IsFiniteSet(ReceiptsOf(x))
  <2>1. ReceiptsOf(x) \in SUBSET Souls
    BY DEF ReceiptsOf, Minted
  <2> QED BY <2>1, FiniteAssumption, FS_Subset
<1>2. \A s \in ReceiptsOf(x) : receipts[s].lines[x].gross \in Nat
  BY DEF ReceiptsTyped, ReceiptsOf
<1>3. \A s \in ReceiptsOf(x) : Residual(receipts[s].lines[x]) \in Nat
  BY <1>2, ShareBelow DEF Residual
<1>4. (\A s \in ReceiptsOf(x) : f[s] \in Int) /\ DOMAIN f = ReceiptsOf(x) /\ Earned(x) = TotalOf(f)
  BY <1>3 DEF Earned
<1> HIDE DEF f
<1>5. SumOver(f, ReceiptsOf(x)) \in Int
  BY <1>1, <1>4, SumIsInt
<1>6. Earned(x) = SumOver(f, ReceiptsOf(x))
  BY <1>4, TotalIs
<1> QED BY <1>1, <1>3, <1>5, <1>6 DEF f

(* Passes are issued, or treasuries drawn on or given to; what payments     *)
(* brought agrees.                                                         *)
LEMMA BooksMove ==
    ASSUME BooksInv, terms.price \in Nat, MoneyTyped', CoinsKept',
           UNCHANGED <<counts, receipts, terms>>, root'.price = root.price,
           NEW m \in Int, ByPayments(treasury') = ByPayments(treasury) + m,
           Sold(passes', root.price) = Sold(passes, root.price) + m,
           \A p \in Packs : \E k \in Int :
              /\ ByPayments(tills'[p]) = ByPayments(tills[p]) + k
              /\ terms.access = Paid =>
                    Sold(packPasses'[p], terms.price) = Sold(packPasses[p], terms.price) + k
              /\ terms.access # Paid => k = 0
    PROVE  BooksInv'
<1>1. ReceiptsTyped' /\ NumberedInv'
  BY NumbersStay DEF BooksInv
<1>2. \A x : Earned(x)' = Earned(x) /\ Earned(x) \in Int
  BY SameReceipts, EarnedTyped DEF BooksInv
<1>3. ByPayments(treasury') = Earned(Base)' + Sold(passes', root'.price)
  <2>1. ByPayments(treasury) = Earned(Base) + Sold(passes, root.price)
    BY DEF BooksInv, CollectedInv
  <2>2. PICK a \in Int, b \in Int : a = Earned(Base) /\ b = Sold(passes, root.price)
    BY <1>2, SoldTyped DEF BooksInv, MoneyTyped
  <2>3. ByPayments(treasury') = (a + b) + m
    BY <2>1, <2>2
  <2>4. Earned(Base)' = a /\ Sold(passes', root'.price) = b + m
    BY <1>2, <2>2
  <2> QED BY <2>2, <2>3, <2>4
<1>4. ASSUME NEW p \in Packs
      PROVE  ByPayments(tills'[p])
                = Earned(p)' + (IF terms'.access = Paid THEN Sold(packPasses'[p], terms'.price) ELSE 0)
  <2>1. PICK k \in Int :
              /\ ByPayments(tills'[p]) = ByPayments(tills[p]) + k
              /\ terms.access = Paid =>
                    Sold(packPasses'[p], terms.price) = Sold(packPasses[p], terms.price) + k
              /\ terms.access # Paid => k = 0
    OBVIOUS
  <2>2. ByPayments(tills[p]) = Earned(p) + (IF terms.access = Paid THEN Sold(packPasses[p], terms.price) ELSE 0)
    BY DEF BooksInv, CollectedInv
  <2>3. PICK a \in Int, b \in Int : a = Earned(p) /\ b = Sold(packPasses[p], terms.price)
    BY <1>2, SoldTyped DEF BooksInv, MoneyTyped
  <2>4. Earned(p)' = a /\ terms' = terms
    BY <1>2, <2>3
  <2>5. CASE terms.access = Paid
    <3>1. ByPayments(tills'[p]) = (a + b) + k /\ Sold(packPasses'[p], terms.price) = b + k
      BY <2>1, <2>2, <2>3, <2>5
    <3> QED BY <2>4, <2>5, <3>1
  <2>6. CASE terms.access # Paid
    <3>1. ByPayments(tills'[p]) = (a + 0) + k /\ k = 0
      BY <2>1, <2>2, <2>3, <2>6
    <3> QED BY <2>4, <2>6, <3>1
  <2> QED BY <2>5, <2>6
<1> QED BY <1>1, <1>3, <1>4 DEF BooksInv, CollectedInv

(* The Maker's own calls. *)
LEMMA ControlBooks ==
    ASSUME BooksInv, terms.price \in Nat, ControlNext, UNCHANGED <<wardrobeVars, completeVars>>
    PROVE  BooksInv'
<1>1. /\ UNCHANGED <<terms, packPasses, tills, counts, receipts>> /\ MoneyTyped /\ CoinsKept
      /\ InTills(tills') = InTills(tills) + 0
      /\ InTills(tills) \in Int /\ TotalOf(cash) \in Int /\ root.price \in Nat
      /\ \A p \in Packs : ByPayments(tills[p]) \in Int
      /\ Sold(passes, root.price) \in Int
      /\ \A p \in Packs : Sold(packPasses[p], terms.price) \in Int
  <2>1. UNCHANGED <<terms, packPasses, tills, counts, receipts>> /\ MoneyTyped /\ CoinsKept
    BY DEF BooksInv, wardrobeVars, completeVars
  <2>2. InTills(tills) \in Int /\ TotalOf(cash) \in Int
    BY <2>1, AmountsTyped
  <2>3. InTills(tills') = InTills(tills) + 0
    BY <2>1, <2>2
  <2>4. (\A p \in Packs : ByPayments(tills[p]) \in Int) /\ root.price \in Nat
    BY <2>1, TillTyped DEF MoneyTyped
  <2>5. Sold(passes, root.price) \in Int /\ \A p \in Packs : Sold(packPasses[p], terms.price) \in Int
    BY <2>1, <2>4, SoldTyped DEF MoneyTyped
  <2> QED BY <2>1, <2>2, <2>3, <2>4, <2>5
<1>2. \A p \in Packs : \E k \in Int :
              /\ ByPayments(tills'[p]) = ByPayments(tills[p]) + k
              /\ terms.access = Paid =>
                    Sold(packPasses'[p], terms.price) = Sold(packPasses[p], terms.price) + k
              /\ terms.access # Paid => k = 0
  <2> SUFFICES ASSUME NEW p \in Packs
      PROVE  /\ ByPayments(tills'[p]) = ByPayments(tills[p]) + 0
             /\ Sold(packPasses'[p], terms.price) = Sold(packPasses[p], terms.price) + 0
    OBVIOUS
  <2> QED BY <1>1
<1>3. ASSUME MoneyTyped', UNCHANGED <<treasury, passes, cash>>, root'.price = root.price,
             protocol'.revenue = protocol.revenue
      PROVE  BooksInv'
  BY <1>1, <1>3, BooksUntouched
<1>4. ASSUME NEW next \in Lifecycles, root' = [root EXCEPT !.lifecycle = next],
              UNCHANGED <<protocol, treasury, passes, cash>>
       PROVE  BooksInv'
  <2>1. root' \in [lifecycle : Lifecycles, owner : Users, epoch : Nat, price : Nat]
        /\ root'.price = root.price
    BY <1>1, <1>4 DEF MoneyTyped
  <2>2. MoneyTyped'
    BY <1>1, <1>4, <2>1 DEF MoneyTyped
  <2> QED BY <1>3, <1>4, <2>1, <2>2
<1>5. ASSUME NEW u \in Users, Activate(u) \/ Resume(u) PROVE BooksInv'
  <2>1. Active \in Lifecycles
    BY DEF Lifecycles
  <2> QED BY <1>4, <1>5, <2>1 DEF Activate, Resume
<1>6. ASSUME NEW u \in Users, NEW next \in {Paused, Archived}, Stop(u, next) PROVE BooksInv'
  <2>1. next \in Lifecycles
    BY DEF Lifecycles
  <2> QED BY <1>4, <1>6, <2>1 DEF Stop
<1>7. ASSUME NEW u \in Users, NEW to \in Users, TransferControl(u, to) PROVE BooksInv'
  <2>1. /\ root' = [root EXCEPT !.owner = to, !.epoch = @ + 1]
        /\ UNCHANGED <<protocol, treasury, passes, cash>>
    BY <1>7 DEF TransferControl, Rotate
  <2>2. root' \in [lifecycle : Lifecycles, owner : Users, epoch : Nat, price : Nat]
        /\ root'.price = root.price
    <3>1. /\ root.lifecycle \in Lifecycles /\ root.epoch \in Nat /\ root.price \in Nat
          /\ root' = [lifecycle |-> root.lifecycle, owner |-> to,
                      epoch |-> root.epoch + 1, price |-> root.price]
      BY <1>1, <2>1 DEF MoneyTyped
    <3> QED BY <3>1
  <2>3. MoneyTyped'
    BY <1>1, <2>1, <2>2 DEF MoneyTyped
  <2> QED BY <1>3, <2>1, <2>2, <2>3
<1>8. CASE ToggleProtocol
  <2>1. /\ protocol' = [protocol EXCEPT !.enabled = ~@, !.revision = @ + 1]
        /\ UNCHANGED <<root, treasury, passes, cash>>
    BY <1>8 DEF ToggleProtocol
  <2>2. protocol' \in [enabled : BOOLEAN, revision : Nat, revenue : Nat, direct : Nat]
        /\ protocol'.revenue = protocol.revenue
    <3>1. /\ protocol.enabled \in BOOLEAN /\ protocol.revision \in Nat
          /\ protocol.revenue \in Nat /\ protocol.direct \in Nat
          /\ protocol' = [enabled |-> ~ protocol.enabled, revision |-> protocol.revision + 1,
                          revenue |-> protocol.revenue, direct |-> protocol.direct]
      BY <1>1, <2>1 DEF MoneyTyped
    <3> QED BY <3>1
  <2>3. MoneyTyped' /\ root'.price = root.price
    BY <1>1, <2>1, <2>2 DEF MoneyTyped
  <2> QED BY <1>3, <2>1, <2>2, <2>3
<1>9. ASSUME NEW u \in Users, ClaimFreeAccess(u) PROVE BooksInv'
  <2>1. /\ UNCHANGED <<protocol, root, treasury, cash>> /\ root.price = 0
        /\ u \notin passes /\ passes' = passes \cup {u}
    BY <1>9 DEF ClaimFreeAccess
  <2>2. MoneyTyped'
    BY <1>1, <2>1 DEF MoneyTyped
  <2>3. CoinsKept'
    BY <1>1, <2>1 DEF CoinsKept
  <2>4. ShareOf(0) = 0
    BY DEF ShareOf
  <2>5. Sold(passes', root.price) = Sold(passes, root.price) + (root.price - ShareOf(root.price))
    BY <1>1, <2>1, SoldMore DEF MoneyTyped
  <2>6. Sold(passes', root.price) = Sold(passes, root.price) + 0
    BY <2>1, <2>4, <2>5
  <2>7. ByPayments(treasury') = ByPayments(treasury) + 0
    BY <1>1, <2>1, TillTyped DEF MoneyTyped
  <2>8. UNCHANGED <<counts, receipts, terms>> /\ root'.price = root.price
    BY <1>1, <2>1
  <2> QED BY <1>1, <1>2, <2>2, <2>3, <2>6, <2>7, <2>8, BooksMove
<1>10. ASSUME NEW u \in Users, PurchaseAccess(u) PROVE BooksInv'
  <2>1. PICK price \in Nat, share \in Nat : price = root.price /\ share = Share(root.price) /\ share <= price
    BY <1>1, ShareBelow
  <2>2. /\ price > 0 /\ cash[u] >= price /\ u \notin passes /\ passes' = passes \cup {u}
        /\ protocol' = [protocol EXCEPT !.revenue = @ + share]
        /\ cash' = Credit(cash, u, - price) /\ UNCHANGED root
        /\ treasury' = Deposited(treasury, price - share)
        /\ price - share \in Nat /\ - price \in Int
    BY <1>10, <2>1 DEF PurchaseAccess, Deposit, Share
  <2>3. /\ protocol'.revenue = protocol.revenue + share
        /\ protocol' \in [enabled : BOOLEAN, revision : Nat, revenue : Nat, direct : Nat]
    BY <1>1, <2>2 DEF MoneyTyped
  <2>4. /\ treasury'.revenue = treasury.revenue + (price - share)
        /\ ByPayments(treasury') = ByPayments(treasury) + (price - share) /\ treasury' \in Treasuries
    BY <1>1, <2>2, TillBooks DEF MoneyTyped
  <2>5. cash' \in [Users -> Nat]
    BY <1>1, <2>2 DEF MoneyTyped, Credit
  <2>6. MoneyTyped'
    BY <1>1, <2>2, <2>3, <2>4, <2>5 DEF MoneyTyped
  <2>7. TotalOf(cash') = TotalOf(cash) + (- price)
    BY <1>1, <2>2, CashMoves
  <2>8. (- price) + 0 + (price - share) + share = 0
    OBVIOUS
  <2>9. CoinsKept'
    BY <1>1, <2>3, <2>4, <2>6, <2>7, <2>8, CoinsMove
  <2>10. ShareOf(price) = share
    BY <2>1, <2>2 DEF ShareOf
  <2>11. Sold(passes', root.price) = Sold(passes, root.price) + (price - share)
    BY <1>1, <2>1, <2>2, <2>10, SoldMore DEF MoneyTyped
  <2>12. UNCHANGED <<counts, receipts, terms>> /\ root'.price = root.price
    BY <1>1, <2>2
  <2>13. PICK m \in Int : m = price - share
    BY <2>2
  <2>14. /\ ByPayments(treasury') = ByPayments(treasury) + m
         /\ Sold(passes', root.price) = Sold(passes, root.price) + m
    BY <2>4, <2>11, <2>13
  <2> QED BY <1>2, <2>6, <2>9, <2>12, <2>14, BooksMove
<1>11. ASSUME NEW u \in Users, NEW amount \in Amounts, NEW to \in Payees, WithdrawMaker(u, amount, to)
      PROVE  BooksInv'
  <2>1. amount \in Nat /\ to \in Users
    BY AmountAssumption
  <2>2. /\ amount <= treasury.revenue /\ cash' = Credit(cash, to, amount)
        /\ treasury' = Drawn(treasury, amount)
        /\ UNCHANGED <<protocol, root, passes>>
    BY <1>11 DEF WithdrawMaker
  <2>3. /\ treasury'.revenue = treasury.revenue + (- amount)
        /\ ByPayments(treasury') = ByPayments(treasury) + 0 /\ treasury' \in Treasuries
    BY <1>1, <2>1, <2>2, TillBooks DEF MoneyTyped
  <2>4. MoneyTyped'
    BY <1>1, <2>1, <2>2, <2>3 DEF MoneyTyped, Credit
  <2>5. TotalOf(cash') = TotalOf(cash) + amount
    BY <1>1, <2>1, <2>2, CashMoves
  <2>6. protocol'.revenue = protocol.revenue + 0
    BY <1>1, <2>2 DEF MoneyTyped
  <2>7. amount + 0 + (- amount) + 0 = 0
    BY <2>1
  <2>8. CoinsKept'
    BY <1>1, <2>1, <2>3, <2>4, <2>5, <2>6, <2>7, CoinsMove
  <2>9. Sold(passes', root.price) = Sold(passes, root.price) + 0
    BY <1>1, <2>2
  <2> QED BY <1>1, <1>2, <2>2, <2>3, <2>4, <2>8, <2>9, BooksMove
<1>12. ASSUME NEW amount \in Amounts, NEW to \in Payees, WithdrawProtocol(amount, to)
      PROVE  BooksInv'
  <2>1. amount \in Nat /\ to \in Users
    BY AmountAssumption
  <2>2. /\ amount <= protocol.revenue /\ cash' = Credit(cash, to, amount)
        /\ protocol' = [protocol EXCEPT !.revenue = @ - amount]
        /\ UNCHANGED <<root, treasury, passes>>
    BY <1>12 DEF WithdrawProtocol
  <2>3. /\ protocol'.revenue = protocol.revenue + (- amount)
        /\ protocol' \in [enabled : BOOLEAN, revision : Nat, revenue : Nat, direct : Nat]
    BY <1>1, <2>1, <2>2 DEF MoneyTyped
  <2>4. MoneyTyped'
    BY <1>1, <2>1, <2>2, <2>3 DEF MoneyTyped, Credit
  <2>5. TotalOf(cash') = TotalOf(cash) + amount
    BY <1>1, <2>1, <2>2, CashMoves
  <2>6. treasury'.revenue = treasury.revenue + 0 /\ ByPayments(treasury') = ByPayments(treasury) + 0
    BY <1>1, <2>2, TillTyped DEF MoneyTyped
  <2>7. amount + 0 + 0 + (- amount) = 0
    BY <2>1
  <2>8. CoinsKept'
    BY <1>1, <2>1, <2>3, <2>4, <2>5, <2>6, <2>7, CoinsMove
  <2>9. Sold(passes', root.price) = Sold(passes, root.price) + 0
    BY <1>1, <2>2
  <2> QED BY <1>1, <1>2, <2>2, <2>4, <2>6, <2>8, <2>9, BooksMove
<1>13. ASSUME NEW u \in Users, NEW amount \in Gifts, DepositMaker(u, amount) PROVE BooksInv'
  <2>1. amount \in Nat /\ - amount \in Int
    BY AmountAssumption
  <2>2. /\ cash[u] >= amount /\ cash' = Credit(cash, u, - amount)
        /\ treasury' = DepositedDirectly(treasury, amount)
        /\ UNCHANGED <<protocol, root, passes>>
    BY <1>13 DEF DepositMaker
  <2>3. /\ treasury'.revenue = treasury.revenue + amount
        /\ ByPayments(treasury') = ByPayments(treasury) + 0 /\ treasury' \in Treasuries
    BY <1>1, <2>1, <2>2, TillBooks DEF MoneyTyped
  <2>4. MoneyTyped'
    BY <1>1, <2>1, <2>2, <2>3 DEF MoneyTyped, Credit
  <2>5. TotalOf(cash') = TotalOf(cash) + (- amount)
    BY <1>1, <2>1, <2>2, CashMoves
  <2>6. protocol'.revenue = protocol.revenue + 0
    BY <1>1, <2>2 DEF MoneyTyped
  <2>7. (- amount) + 0 + amount + 0 = 0
    BY <2>1
  <2>8. CoinsKept'
    BY <1>1, <2>1, <2>3, <2>4, <2>5, <2>6, <2>7, CoinsMove
  <2>9. Sold(passes', root.price) = Sold(passes, root.price) + 0
    BY <1>1, <2>2
  <2> QED BY <1>1, <1>2, <2>2, <2>3, <2>4, <2>8, <2>9, BooksMove
<1>14. ASSUME NEW u \in Users, NEW amount \in Gifts, DepositProtocol(u, amount) PROVE BooksInv'
  <2>1. amount \in Nat /\ - amount \in Int
    BY AmountAssumption
  <2>2. /\ cash[u] >= amount /\ cash' = Credit(cash, u, - amount)
        /\ protocol' = [protocol EXCEPT !.revenue = @ + amount, !.direct = @ + amount]
        /\ UNCHANGED <<root, treasury, passes>>
    BY <1>14 DEF DepositProtocol
  <2>3. /\ protocol'.revenue = protocol.revenue + amount
        /\ protocol' \in [enabled : BOOLEAN, revision : Nat, revenue : Nat, direct : Nat]
    <3>1. /\ protocol.revenue + amount \in Nat /\ protocol.direct + amount \in Nat
          /\ protocol \in [enabled : BOOLEAN, revision : Nat, revenue : Nat, direct : Nat]
      BY <1>1, <2>1 DEF MoneyTyped
    <3>2. PICK r \in Nat, d \in Nat :
             r = protocol.revenue + amount /\ protocol' = [protocol EXCEPT !.revenue = r, !.direct = d]
      BY <2>2, <3>1
    <3> QED BY <3>1, <3>2
  <2>4. MoneyTyped'
    BY <1>1, <2>1, <2>2, <2>3 DEF MoneyTyped, Credit
  <2>5. TotalOf(cash') = TotalOf(cash) + (- amount)
    BY <1>1, <2>1, <2>2, CashMoves
  <2>6. treasury'.revenue = treasury.revenue + 0 /\ ByPayments(treasury') = ByPayments(treasury) + 0
    BY <1>1, <2>2, TillTyped DEF MoneyTyped
  <2>7. (- amount) + 0 + 0 + amount = 0
    BY <2>1
  <2>8. CoinsKept'
    BY <1>1, <2>1, <2>3, <2>4, <2>5, <2>6, <2>7, CoinsMove
  <2>9. Sold(passes', root.price) = Sold(passes, root.price) + 0
    BY <1>1, <2>2
  <2> QED BY <1>1, <1>2, <2>2, <2>4, <2>6, <2>8, <2>9, BooksMove
<1> QED BY <1>9, <1>10, <1>11, <1>12, <1>8, <1>5, <1>6, <1>7, <1>13, <1>14 DEF ControlNext

(* In the wardrobe, only Packs are paid for. *)
LEMMA OnlyPacksPaid ==
    ASSUME WardrobeNext
    PROVE  \/ UNCHANGED <<protocol, root, treasury, passes, cash, packPasses, tills>>
           \/ \E u \in Users, p \in Packs : TakePackPass(u, p)
           \/ \E p \in Packs, amount \in Amounts, to \in Payees : WithdrawPack(p, amount, to)
           \/ \E u \in Users, p \in Packs, amount \in Gifts : DepositPack(u, p, amount)
<1> DEFINE still == UNCHANGED <<protocol, root, treasury, passes, cash, packPasses, tills>>
<1> USE DEF goods, controlVars
<1>1. ASSUME NEW a, NEW u, NEW to,
             \/ ClaimItem(u, a) \/ ListItem(u, a) \/ TransferItem(u, a, to)
             \/ MintItem(a, to) \/ SellItem(a, to) \/ ReturnItem(a)
      PROVE  still
  BY <1>1 DEF ClaimItem, ListItem, TransferItem, MintItem, SellItem, ReturnItem
<1>2. ASSUME NEW next, SetProduct(next) PROVE still
  BY <1>2 DEF SetProduct
<1>3. ASSUME NEW u, AdmitProduct(u) \/ RevokeProduct(u) PROVE still
  BY <1>3 DEF AdmitProduct, RevokeProduct
<1>4. ASSUME NEW p, NEW u, NEW to,
             \/ SealPack(p) \/ SetPack(p, to) \/ AdmitPack(u, p) \/ RevokePack(u, p)
      PROVE  still
  BY <1>4 DEF SealPack, SetPack, AdmitPack, RevokePack
<1>5. ASSUME NEW s, NEW to, MoveSoul(s, to) PROVE still
  BY <1>5 DEF MoveSoul
<1>6. ASSUME NEW u, NEW l, CreateLoadout(u, l) \/ CreateEquipment(u, l) \/ CloseEquipment(u, l)
      PROVE  still
  BY <1>6 DEF CreateLoadout, CreateEquipment, CloseEquipment
<1>7. ASSUME NEW u, NEW l, NEW k, NEW a,
             \/ UnequipExternal(u, l, a) \/ UnequipOwnedBase(u, l, a) \/ Clear(u, l, k)
             \/ EquipOwnedBase(u, l, k, a) \/ EquipExternal(u, l, k, a)
             \/ SelectBase(u, l, k) \/ SelectPack(u, l, k, a)
      PROVE  still
  BY <1>7 DEF UnequipExternal, UnequipOwnedBase, Release, Clear, EquipOwnedBase, EquipExternal,
              SelectBase, SelectPack
<1>8. SUFFICES ASSUME ~ \E u \in Users, p \in Packs : TakePackPass(u, p),
                      ~ \E p \in Packs, amount \in Amounts, to \in Payees : WithdrawPack(p, amount, to),
                      ~ \E u \in Users, p \in Packs, amount \in Gifts : DepositPack(u, p, amount)
               PROVE  still
  OBVIOUS
<1> HIDE DEF still, goods, controlVars
<1> QED BY <1>8, <1>1, <1>2, <1>3, <1>4, <1>5, <1>6, <1>7 DEF WardrobeNext

(* A pass to a Pack that is bought, given or included. *)
LEMMA PassBooks ==
    ASSUME BooksInv, terms \in Plans, NEW u \in Users, NEW p \in Packs, TakePackPass(u, p),
           UNCHANGED completeVars
    PROVE  BooksInv'
<1>1. /\ UNCHANGED <<root, treasury, passes, terms, counts, receipts>> /\ MoneyTyped /\ CoinsKept
      /\ u \notin packPasses[p] /\ packPasses' = [packPasses EXCEPT ![p] = @ \cup {u}]
  BY DEF TakePackPass, NewPackPass, BooksInv, completeVars
<1>2. /\ terms.price \in Nat /\ treasury \in Treasuries
      /\ \A q \in Packs : tills[q] \in Treasuries
      /\ \A q \in Packs : packPasses[q] \subseteq Users
  BY <1>1, PlanAssumption DEF MoneyTyped
<1>3. packPasses' \in [Packs -> SUBSET Users]
  BY <1>1 DEF MoneyTyped
<1>4. Sold(passes', root.price) = Sold(passes, root.price) + 0
  <2>1. Sold(passes, root.price) \in Int
    BY <1>1, SoldTyped DEF MoneyTyped
  <2> QED BY <1>1, <2>1
<1>5. PICK k \in Int : k = terms.price - ShareOf(terms.price)
  BY <1>2, ShareBelow
<1>6. \A q \in Packs :
         /\ Sold(packPasses[q], terms.price) \in Int
         /\ Sold(packPasses'[q], terms.price)
               = Sold(packPasses[q], terms.price) + (IF q = p THEN k ELSE 0)
  <2> SUFFICES ASSUME NEW q \in Packs
      PROVE  /\ Sold(packPasses[q], terms.price) \in Int
             /\ Sold(packPasses'[q], terms.price)
                   = Sold(packPasses[q], terms.price) + (IF q = p THEN k ELSE 0)
    OBVIOUS
  <2>1. Sold(packPasses[q], terms.price) \in Int
    BY <1>2, SoldTyped
  <2>2. CASE q = p
    <3>1. packPasses'[q] = packPasses[q] \cup {u} /\ u \notin packPasses[q]
      BY <1>1, <2>2 DEF MoneyTyped
    <3>2. Sold(packPasses[q] \cup {u}, terms.price)
             = Sold(packPasses[q], terms.price) + (terms.price - ShareOf(terms.price))
      BY <1>2, <3>1, SoldMore
    <3> QED BY <1>5, <2>1, <2>2, <3>1, <3>2
  <2>3. CASE q # p
    <3>1. packPasses'[q] = packPasses[q]
      BY <1>1, <2>3 DEF MoneyTyped
    <3> QED BY <2>1, <2>3, <3>1
  <2> QED BY <2>2, <2>3
<1>7. ByPayments(treasury') = ByPayments(treasury) + 0 /\ root'.price = root.price
  BY <1>1, <1>2, TillTyped
<1>8. CASE terms.access # Paid
  <2>1. UNCHANGED <<protocol, cash, tills>>
    BY <1>8 DEF TakePackPass
  <2>2. MoneyTyped' /\ CoinsKept'
    BY <1>1, <1>3, <2>1 DEF MoneyTyped, CoinsKept
  <2>3. \A q \in Packs : \E n \in Int :
           /\ ByPayments(tills'[q]) = ByPayments(tills[q]) + n
           /\ terms.access = Paid =>
                 Sold(packPasses'[q], terms.price) = Sold(packPasses[q], terms.price) + n
           /\ terms.access # Paid => n = 0
    <3> SUFFICES ASSUME NEW q \in Packs
        PROVE  \E n \in Int : /\ ByPayments(tills'[q]) = ByPayments(tills[q]) + n
                              /\ terms.access = Paid =>
                                   Sold(packPasses'[q], terms.price) = Sold(packPasses[q], terms.price) + n
                              /\ terms.access # Paid => n = 0
      OBVIOUS
    <3>1. ByPayments(tills'[q]) = ByPayments(tills[q]) + 0
      BY <1>2, <2>1, TillTyped
    <3> QED BY <1>8, <3>1
  <2>4. UNCHANGED <<counts, receipts, terms>> /\ terms.price \in Nat
    BY <1>1, <1>2
  <2> QED BY <1>4, <1>7, <2>2, <2>3, <2>4, BooksMove
<1>9. CASE terms.access = Paid
  <2>1. PICK price \in Nat, share \in Nat : price = terms.price /\ share = Share(terms.price) /\ share <= price
    BY <1>2, ShareBelow
  <2>2. /\ price > 0 /\ cash[u] >= price /\ cash' = Credit(cash, u, - price)
        /\ protocol' = [protocol EXCEPT !.revenue = @ + share]
        /\ tills' = [tills EXCEPT ![p] = Deposited(@, price - share)]
        /\ - price \in Int /\ price - share \in Nat
    BY <1>9, <2>1 DEF TakePackPass, Shareable, Free, Included, Paid
  <2>3. k = price - share
    BY <1>5, <2>1, <2>2 DEF ShareOf
  <2>4. protocol'.revenue = protocol.revenue + share
        /\ protocol' \in [enabled : BOOLEAN, revision : Nat, revenue : Nat, direct : Nat]
    BY <1>1, <2>2 DEF MoneyTyped
  <2>5. cash' \in [Users -> Nat]
    BY <1>1, <2>2 DEF MoneyTyped, Credit
  <2>6. /\ tills'[p] \in Treasuries /\ tills'[p].revenue = tills[p].revenue + k
        /\ ByPayments(tills'[p]) = ByPayments(tills[p]) + k
        /\ \A q \in Packs : q # p => tills'[q] = tills[q]
        /\ DOMAIN tills' = Packs /\ tills' = [q \in Packs |-> tills'[q]]
    <3>1. /\ tills' = [tills EXCEPT ![p] = Deposited(@, k)] /\ k \in Nat /\ DOMAIN tills = Packs
      BY <1>1, <2>2, <2>3 DEF MoneyTyped
    <3>2. tills'[p] = Deposited(tills[p], k)
      BY <3>1
    <3>4. tills'[p] \in Treasuries
      BY <1>2, <3>1, <3>2, TillBooks
    <3>5. \A q \in Packs : q # p => tills'[q] = tills[q]
      BY <3>1
    <3>6. DOMAIN tills' = Packs /\ tills' = [q \in Packs |-> tills'[q]]
      BY <3>1
    <3>7. tills'[p].revenue = tills[p].revenue + k /\ ByPayments(tills'[p]) = ByPayments(tills[p]) + k
      BY <1>2, <3>1, <3>2, TillBooks
    <3> QED BY <3>4, <3>5, <3>6, <3>7
  <2>7. tills' \in [Packs -> Treasuries]
    BY <1>2, <2>6
  <2>8. MoneyTyped'
    BY <1>1, <1>3, <2>4, <2>5, <2>7 DEF MoneyTyped
  <2>9. TotalOf(cash') = TotalOf(cash) + (- price)
    BY <1>1, <2>2, CashMoves
  <2>10. \A q \in Packs : tills'[q].revenue = IF q = p THEN tills[p].revenue + k ELSE tills[q].revenue
    BY <2>6
  <2>11. InTills(tills') = InTills(tills) + k
    BY <1>1, <2>10, TillMoves
  <2>12. (- price) + k + 0 + share = 0
    BY <2>3
  <2>13. treasury'.revenue = treasury.revenue + 0
    BY <1>1, <1>2, TillTyped
  <2>14. CoinsKept'
    <3>1. PICK paid \in Int : paid = - price
      BY <2>2
    <3>2. MoneyTyped /\ MoneyTyped' /\ CoinsKept /\ k \in Int /\ share \in Int
      BY <1>1, <1>5, <2>8
    <3>3. /\ TotalOf(cash') = TotalOf(cash) + paid /\ InTills(tills') = InTills(tills) + k
          /\ treasury'.revenue = treasury.revenue + 0 /\ protocol'.revenue = protocol.revenue + share
          /\ paid + k + 0 + share = 0
      BY <2>4, <2>9, <2>11, <2>12, <2>13, <3>1
    <3> QED BY <3>1, <3>2, <3>3, CoinsMove
  <2>15. \A q \in Packs : \E n \in Int :
           /\ ByPayments(tills'[q]) = ByPayments(tills[q]) + n
           /\ terms.access = Paid =>
                 Sold(packPasses'[q], terms.price) = Sold(packPasses[q], terms.price) + n
           /\ terms.access # Paid => n = 0
    <3> SUFFICES ASSUME NEW q \in Packs
        PROVE  \E n \in Int : /\ ByPayments(tills'[q]) = ByPayments(tills[q]) + n
                              /\ terms.access = Paid =>
                                   Sold(packPasses'[q], terms.price) = Sold(packPasses[q], terms.price) + n
                              /\ terms.access # Paid => n = 0
      OBVIOUS
    <3>1. CASE q = p
      BY <1>6, <1>9, <2>6, <3>1
    <3>2. CASE q # p
      <4>1. ByPayments(tills'[q]) = ByPayments(tills[q]) + 0
        BY <1>2, <2>6, <3>2, TillTyped
      <4>2. Sold(packPasses'[q], terms.price) = Sold(packPasses[q], terms.price) + 0
        BY <1>6, <3>2
      <4> QED BY <1>9, <4>1, <4>2
    <3> QED BY <3>1, <3>2
  <2>16. UNCHANGED <<counts, receipts, terms>> /\ terms.price \in Nat
    BY <1>1, <1>2
  <2> QED BY <1>4, <1>7, <2>8, <2>14, <2>15, <2>16, BooksMove
<1> QED BY <1>8, <1>9

(* Coins go between a wallet and one Pack's treasury, and no payment counts. *)
LEMMA TillTransfer ==
    ASSUME BooksInv, terms \in Plans, NEW p \in Packs, NEW pot \in Treasuries,
           tills' = [tills EXCEPT ![p] = pot], ByPayments(pot) = ByPayments(tills[p]) + 0,
           NEW d \in Int, pot.revenue = tills[p].revenue + d,
           NEW u \in Users, NEW c \in Int, cash' = Credit(cash, u, c), cash[u] + c \in Nat,
           c + d = 0,
           UNCHANGED <<protocol, root, treasury, passes, terms, packPasses, counts, receipts>>
    PROVE  BooksInv'
<1>1. MoneyTyped /\ CoinsKept
  BY DEF BooksInv
<1>2. /\ terms.price \in Nat /\ treasury \in Treasuries
      /\ protocol.revenue \in Nat /\ root.price \in Nat
      /\ \A q \in Packs : tills[q] \in Treasuries
      /\ \A q \in Packs : packPasses[q] \subseteq Users
  BY <1>1, PlanAssumption DEF MoneyTyped
<1>3. /\ tills'[p] = pot /\ \A q \in Packs : q # p => tills'[q] = tills[q]
      /\ tills' = [q \in Packs |-> tills'[q]]
  BY <1>1 DEF MoneyTyped
<1>4. cash' \in [Users -> Nat]
  BY <1>1 DEF MoneyTyped, Credit
<1>5. MoneyTyped'
  <2>1. tills' \in [Packs -> Treasuries]
    BY <1>2, <1>3
  <2> QED BY <1>1, <1>4, <2>1 DEF MoneyTyped
<1>6. TotalOf(cash') = TotalOf(cash) + c
  BY <1>1, CashMoves
<1>7. \A q \in Packs : tills'[q].revenue = IF q = p THEN tills[p].revenue + d ELSE tills[q].revenue
  BY <1>3
<1>8. InTills(tills') = InTills(tills) + d
  BY <1>1, <1>7, TillMoves
<1>9. CoinsKept'
  <2>1. treasury'.revenue = treasury.revenue + 0 /\ protocol'.revenue = protocol.revenue + 0
    BY <1>2, TillTyped
  <2>2. c + d + 0 + 0 = 0
    OBVIOUS
  <2>3. 0 \in Int /\ c \in Int /\ d \in Int
    OBVIOUS
  <2>4. MoneyTyped /\ MoneyTyped' /\ CoinsKept
    BY <1>1, <1>5
  <2> QED BY <1>6, <1>8, <2>1, <2>2, <2>3, <2>4, CoinsMove
<1>10. /\ ByPayments(treasury') = ByPayments(treasury) + 0 /\ root'.price = root.price
       /\ Sold(passes', root.price) = Sold(passes, root.price) + 0
  <2>1. Sold(passes, root.price) \in Int
    BY <1>1, <1>2, SoldTyped DEF MoneyTyped
  <2> QED BY <1>2, <2>1, TillTyped
<1>11. \A q \in Packs : \E n \in Int :
         /\ ByPayments(tills'[q]) = ByPayments(tills[q]) + n
         /\ terms.access = Paid =>
               Sold(packPasses'[q], terms.price) = Sold(packPasses[q], terms.price) + n
         /\ terms.access # Paid => n = 0
  <2> SUFFICES ASSUME NEW q \in Packs
      PROVE  \E n \in Int : /\ ByPayments(tills'[q]) = ByPayments(tills[q]) + n
                            /\ terms.access = Paid =>
                                 Sold(packPasses'[q], terms.price) = Sold(packPasses[q], terms.price) + n
                            /\ terms.access # Paid => n = 0
    OBVIOUS
  <2>1. Sold(packPasses[q], terms.price) \in Int /\ ByPayments(tills[q]) = ByPayments(tills[q]) + 0
    BY <1>2, SoldTyped, TillTyped
  <2>2. ByPayments(tills'[q]) = ByPayments(tills[q]) + 0
    BY <1>3, <2>1
  <2>3. Sold(packPasses'[q], terms.price) = Sold(packPasses[q], terms.price) + 0
    BY <2>1
  <2> QED BY <2>2, <2>3
<1> QED BY <1>2, <1>5, <1>9, <1>10, <1>11, BooksMove

(* A Pack's holder takes what the Pack collected. *)
LEMMA WithdrawBooks ==
    ASSUME BooksInv, terms \in Plans, NEW p \in Packs, NEW amount \in Amounts, NEW to \in Payees,
           WithdrawPack(p, amount, to), UNCHANGED completeVars
    PROVE  BooksInv'
<1>1. amount \in Nat /\ - amount \in Int /\ amount \in Int /\ to \in Users
  BY AmountAssumption
<1>2. /\ UNCHANGED <<protocol, root, treasury, passes, terms, packPasses, counts, receipts>>
      /\ tills[p] \in Treasuries /\ cash \in [Users -> Nat]
      /\ amount <= tills[p].revenue /\ cash' = Credit(cash, to, amount)
      /\ tills' = [tills EXCEPT ![p] = Drawn(tills[p], amount)]
  BY DEF WithdrawPack, BooksInv, MoneyTyped, completeVars
<1>3. /\ Drawn(tills[p], amount) \in Treasuries
      /\ Drawn(tills[p], amount).revenue = tills[p].revenue + (- amount)
      /\ ByPayments(Drawn(tills[p], amount)) = ByPayments(tills[p]) + 0
  BY <1>1, <1>2, TillBooks
<1>4. cash[to] + amount \in Nat /\ amount + (- amount) = 0
  BY <1>1, <1>2
<1> QED BY <1>1, <1>2, <1>3, <1>4, TillTransfer

(* Anyone puts a coin into a Pack's treasury. *)
LEMMA DepositBooks ==
    ASSUME BooksInv, terms \in Plans, NEW u \in Users, NEW p \in Packs, NEW amount \in Gifts,
           DepositPack(u, p, amount), UNCHANGED completeVars
    PROVE  BooksInv'
<1>1. amount \in Nat /\ - amount \in Int /\ amount \in Int
  BY AmountAssumption
<1>2. /\ UNCHANGED <<protocol, root, treasury, passes, terms, packPasses, counts, receipts>>
      /\ tills[p] \in Treasuries /\ cash \in [Users -> Nat]
      /\ cash[u] >= amount /\ cash' = Credit(cash, u, - amount)
      /\ tills' = [tills EXCEPT ![p] = DepositedDirectly(tills[p], amount)]
  BY DEF DepositPack, BooksInv, MoneyTyped, completeVars
<1>3. /\ DepositedDirectly(tills[p], amount) \in Treasuries
      /\ DepositedDirectly(tills[p], amount).revenue = tills[p].revenue + amount
      /\ ByPayments(DepositedDirectly(tills[p], amount)) = ByPayments(tills[p]) + 0
  BY <1>1, <1>2, TillBooks
<1>4. cash[u] + (- amount) \in Nat /\ (- amount) + amount = 0
  BY <1>1, <1>2
<1> QED BY <1>1, <1>2, <1>3, <1>4, TillTransfer

LEMMA WardrobeBooks ==
    ASSUME BooksInv, terms \in Plans, WardrobeNext, UNCHANGED completeVars
    PROVE  BooksInv'
<1>1. CASE UNCHANGED <<protocol, root, treasury, passes, cash, packPasses, tills>>
  <2>1. terms' = terms
    BY Fixed
  <2>2. MoneyTyped'
    BY <1>1 DEF BooksInv, MoneyTyped
  <2> QED BY <1>1, <2>1, <2>2, BooksUntouched DEF completeVars
<1> QED BY <1>1, OnlyPacksPaid, PassBooks, WithdrawBooks, DepositBooks

LEMMA BooksInitially == Init => BooksInv
<1> SUFFICES ASSUME Init PROVE BooksInv
  OBVIOUS
<1>1. /\ protocol = [enabled |-> TRUE, revision |-> Genesis, revenue |-> 0, direct |-> 0]
      /\ \E price \in Prices :
            root = [lifecycle |-> Draft, owner |-> Creator, epoch |-> 0, price |-> price]
      /\ treasury = NoRevenue /\ passes = {}
      /\ cash = [u \in Users |-> Purse]
  BY DEF Init, ControlInit
<1>2. /\ packPasses = [p \in Packs |-> {}] /\ terms \in Plans
      /\ tills = [p \in Packs |-> NoRevenue]
  BY DEF Init, WardrobeInit
<1>3. /\ counts = [x \in Lines |-> [total |-> 0, by |-> [u \in Users |-> 0]]]
      /\ Minted = {}
  BY DEF Init, Minted
<1>4. MoneyTyped
  <2>1. root \in [lifecycle : Lifecycles, owner : Users, epoch : Nat, price : Nat]
    BY <1>1, PriceAssumption, UsersAssumption DEF Lifecycles
  <2>2. protocol \in [enabled : BOOLEAN, revision : Nat, revenue : Nat, direct : Nat]
    BY <1>1 DEF Genesis
  <2>3. treasury \in Treasuries /\ tills \in [Packs -> Treasuries]
    BY <1>1, <1>2 DEF Treasuries, NoRevenue
  <2>4. passes \subseteq Users /\ packPasses \in [Packs -> SUBSET Users] /\ cash \in [Users -> Nat]
    BY <1>1, <1>2, AmountAssumption
  <2> QED BY <2>1, <2>2, <2>3, <2>4 DEF MoneyTyped
<1>5. \A x, u : ReceiptsOf(x) = {} /\ ReceiptsTo(x, u) = {}
  BY <1>3 DEF ReceiptsOf, ReceiptsTo
<1>6. ReceiptsTyped
  BY <1>3 DEF ReceiptsTyped
<1>7. NumberedInv
  <2>1. \A x, u : Ordinals(x, u) = {}
    BY <1>5 DEF Ordinals
  <2>2. {n \in Nat : n < 0} = {}
    OBVIOUS
  <2> QED BY <1>3, <1>5, <2>1, <2>2, FS_EmptySet DEF NumberedInv
<1>8. \A x : Earned(x) = 0
  <2> SUFFICES ASSUME NEW x PROVE Earned(x) = 0
    OBVIOUS
  <2>1. Earned(x) = SumOver([s \in ReceiptsOf(x) |-> Residual(receipts[s].lines[x])], ReceiptsOf(x))
    BY <1>6, EarnedTyped
  <2> QED BY <1>5, <2>1, SumEmpty
<1>9. \A price \in Nat : Sold({}, price) = 0
  <2> SUFFICES ASSUME NEW price \in Nat PROVE Sold({}, price) = 0
    OBVIOUS
  <2>1. PICK c \in Int : c = price - ShareOf(price)
    BY ShareBelow
  <2>2. Sold({}, price) = 0 * c
    BY <2>1, FS_EmptySet DEF Sold
  <2> QED BY <2>2
<1>10. CollectedInv
  <2>1. root.price \in Nat /\ terms.price \in Nat
    BY <1>2, <1>4, PlanAssumption DEF MoneyTyped
  <2>2. ByPayments(treasury) = 0 /\ \A p \in Packs : ByPayments(tills[p]) = 0 /\ packPasses[p] = {}
    BY <1>1, <1>2 DEF ByPayments, NoRevenue
  <2>3. Sold(passes, root.price) = 0 /\ \A p \in Packs : Sold(packPasses[p], terms.price) = 0
    BY <1>1, <1>9, <2>1, <2>2
  <2> QED BY <1>8, <2>2, <2>3 DEF CollectedInv
<1>11. InTills(tills) = 0
  <2> DEFINE f == [p \in Packs |-> tills[p].revenue]
  <2>1. DOMAIN f = Packs /\ (\A p \in Packs : f[p] = 0) /\ InTills(tills) = TotalOf(f)
    BY <1>2 DEF InTills, NoRevenue
  <2> HIDE DEF f
  <2>2. SumOver(f, Packs) = SumOver(f, {})
    BY <2>1, FiniteAssumption, SumWithin
  <2> QED BY <2>1, <2>2, SumEmpty, TotalIs
<1>12. CoinsKept
  <2>1. PICK a \in Int : a = TotalOf(cash)
    BY <1>4, AmountsTyped
  <2>2. protocol.revenue = 0 /\ treasury.revenue = 0
    BY <1>1 DEF NoRevenue
  <2>3. TotalOf([u \in Users |-> Purse]) = a
    BY <1>1, <2>1
  <2> QED BY <1>11, <2>1, <2>2, <2>3 DEF CoinsKept, InTills
<1> QED BY <1>4, <1>6, <1>7, <1>10, <1>12 DEF BooksInv

(* A completion adds its receipt, and nothing else, to what receipts say.   *)
LEMMA ReceiptAdded ==
    ASSUME WardrobeTyped, QuotaInv, NEW u \in Users, NEW l \in Players, NEW s \in Souls,
           Complete(u, l, s)
    PROVE  LET charged == [x \in LinesOf(l) |-> LineFor(x, u)]
           IN /\ s \notin Minted /\ Minted' = Minted \cup {s}
              /\ receipts'[s].holder = u /\ receipts'[s].lines = charged
              /\ \A r \in Minted : receipts'[r] = receipts[r]
              /\ \A x : ReceiptsOf(x)' = IF x \in LinesOf(l) THEN ReceiptsOf(x) \cup {s} ELSE ReceiptsOf(x)
              /\ \A x, v : ReceiptsTo(x, v)' = IF x \in LinesOf(l) /\ v = u
                                               THEN ReceiptsTo(x, v) \cup {s} ELSE ReceiptsTo(x, v)
              /\ \A x \in LinesOf(l) : charged[x].gross \in Nat /\ charged[x].ordinal = counts[x].by[u]
<1> DEFINE charged == [x \in LinesOf(l) |-> LineFor(x, u)]
           receipt == [holder |-> u, lines |-> charged, recipe |-> worn[l]]
<1>1. LinesOf(l) \subseteq Lines /\ s \notin Minted /\ receipts' = [receipts EXCEPT ![s] = receipt]
  BY Completion
<1>2. \A x \in LinesOf(l) : /\ charged[x] = [ordinal |-> counts[x].by[u], gross |-> PriceFor(x, counts[x].by[u])]
                            /\ counts[x].by[u] \in Nat /\ PriceFor(x, counts[x].by[u]) \in Nat
  <2>1. \A x \in LinesOf(l) : counts[x].by[u] \in Nat
    BY <1>1 DEF QuotaInv
  <2>2. \A x \in LinesOf(l) : PriceFor(x, counts[x].by[u]) \in Nat
    BY PricingTyped DEF PriceFor
  <2> QED BY <2>1, <2>2 DEF LineFor
<1>3. charged \in Charges(LinesOf(l))
  <2>1. \A x \in LinesOf(l) : charged[x] \in [ordinal : Nat, gross : Nat]
    BY <1>2
  <2> QED BY <2>1 DEF Charges
<1>4. worn[l] \in [Parts \X (1..terms.capacity) -> Selections \cup {None}] /\ terms \in Plans
  BY DEF WardrobeTyped, Places, Loadouts
<1>5. receipt # None
  <2>1. receipt \in [holder : Users, lines : Charges(LinesOf(l)),
                     recipe : [Parts \X (1..terms.capacity) -> Selections \cup {None}]]
    BY <1>3, <1>4
  <2>2. LinesOf(l) \in SUBSET Lines
    BY <1>1
  <2> HIDE DEF receipt, charged
  <2> QED BY <1>4, <2>1, <2>2, ReceiptAssumption
<1>6. receipt.holder = u /\ receipt.lines = charged /\ DOMAIN charged = LinesOf(l)
  OBVIOUS
<1> HIDE DEF receipt
<1>7. receipts'[s] = receipt /\ \A r \in Souls : r # s => receipts'[r] = receipts[r]
  BY <1>1 DEF QuotaInv
<1>8. Minted' = Minted \cup {s} /\ \A r \in Minted : receipts'[r] = receipts[r]
  BY <1>1, <1>5, <1>7 DEF Minted
<1>9. \A x : ReceiptsOf(x)' = IF x \in LinesOf(l) THEN ReceiptsOf(x) \cup {s} ELSE ReceiptsOf(x)
  <2> SUFFICES ASSUME NEW x, NEW r
      PROVE  r \in ReceiptsOf(x)' <=> r \in ReceiptsOf(x) \/ (r = s /\ x \in LinesOf(l))
    OBVIOUS
  <2> HIDE DEF charged
  <2>1. r \in ReceiptsOf(x)' <=> r \in Minted' /\ x \in DOMAIN receipts'[r].lines
    BY DEF ReceiptsOf
  <2>2. r \in ReceiptsOf(x) <=> r \in Minted /\ x \in DOMAIN receipts[r].lines
    BY DEF ReceiptsOf
  <2> QED BY <1>1, <1>6, <1>7, <1>8, <2>1, <2>2
<1>10. \A x, v : ReceiptsTo(x, v)' = IF x \in LinesOf(l) /\ v = u
                                     THEN ReceiptsTo(x, v) \cup {s} ELSE ReceiptsTo(x, v)
  <2> SUFFICES ASSUME NEW x, NEW v, NEW r
      PROVE  r \in ReceiptsTo(x, v)' <=> r \in ReceiptsTo(x, v) \/ (r = s /\ x \in LinesOf(l) /\ v = u)
    OBVIOUS
  <2> HIDE DEF charged
  <2>1. r \in ReceiptsTo(x, v)' <=> r \in ReceiptsOf(x)' /\ receipts'[r].holder = v
    BY DEF ReceiptsTo
  <2>2. r \in ReceiptsTo(x, v) <=> r \in ReceiptsOf(x) /\ receipts[r].holder = v
    BY DEF ReceiptsTo
  <2>3. r \in ReceiptsOf(x) => r # s /\ receipts'[r] = receipts[r]
    BY <1>1, <1>8 DEF ReceiptsOf
  <2> QED BY <1>6, <1>7, <1>9, <2>1, <2>2, <2>3
<1>11. \A x \in LinesOf(l) : charged[x].gross \in Nat /\ charged[x].ordinal = counts[x].by[u]
  BY <1>2
<1> HIDE DEF charged
<1>12. /\ s \notin Minted /\ Minted' = Minted \cup {s}
       /\ receipts'[s].holder = u /\ receipts'[s].lines = charged
       /\ \A r \in Minted : receipts'[r] = receipts[r]
  BY <1>1, <1>6, <1>7, <1>8
<1> QED BY <1>9, <1>10, <1>11, <1>12 DEF charged

(* The next ordinal is the holder's counter, which moves on by one. *)
LEMMA CompleteNumbers ==
    ASSUME BooksInv, WardrobeTyped, QuotaInv, NEW u \in Users, NEW l \in Players, NEW s \in Souls,
           Complete(u, l, s)
    PROVE  ReceiptsTyped' /\ NumberedInv'
<1> DEFINE charged == [x \in LinesOf(l) |-> LineFor(x, u)]
<1>1. /\ s \notin Minted /\ Minted' = Minted \cup {s}
      /\ receipts'[s].holder = u /\ receipts'[s].lines = charged
      /\ \A r \in Minted : receipts'[r] = receipts[r]
      /\ \A x : ReceiptsOf(x)' = IF x \in LinesOf(l) THEN ReceiptsOf(x) \cup {s} ELSE ReceiptsOf(x)
      /\ \A x, v : ReceiptsTo(x, v)' = IF x \in LinesOf(l) /\ v = u
                                       THEN ReceiptsTo(x, v) \cup {s} ELSE ReceiptsTo(x, v)
      /\ \A x \in LinesOf(l) : charged[x].gross \in Nat /\ charged[x].ordinal = counts[x].by[u]
  BY ReceiptAdded
<1>2. DOMAIN charged = LinesOf(l)
  OBVIOUS
<1>3. /\ LinesOf(l) \subseteq Lines
      /\ counts' = [x \in Lines |-> IF x \notin LinesOf(l) THEN counts[x]
                                     ELSE [total |-> counts[x].total + 1,
                                           by |-> [counts[x].by EXCEPT ![u] = @ + 1]]]
  BY Completion
<1> HIDE DEF charged
<1>4. ReceiptsTyped'
  <2>1. ASSUME NEW r \in Minted', r # s
        PROVE  /\ DOMAIN receipts'[r].lines \subseteq Lines
               /\ \A x \in DOMAIN receipts'[r].lines : receipts'[r].lines[x].gross \in Nat
    BY <1>1, <2>1 DEF BooksInv, ReceiptsTyped
  <2>2. /\ DOMAIN receipts'[s].lines \subseteq Lines
        /\ \A x \in DOMAIN receipts'[s].lines : receipts'[s].lines[x].gross \in Nat
    BY <1>1, <1>2, <1>3
  <2> QED BY <2>1, <2>2 DEF ReceiptsTyped
<1>5. ASSUME NEW x \in Lines, NEW v \in Users
      PROVE  /\ counts'[x].total = Cardinality(ReceiptsOf(x)')
             /\ counts'[x].by[v] = Cardinality(ReceiptsTo(x, v)')
             /\ Ordinals(x, v)' = {n \in Nat : n < counts'[x].by[v]}
  <2>1. /\ counts[x].total = Cardinality(ReceiptsOf(x))
        /\ counts[x].by[v] = Cardinality(ReceiptsTo(x, v))
        /\ Ordinals(x, v) = {n \in Nat : n < counts[x].by[v]}
    BY DEF BooksInv, NumberedInv
  <2>2. counts[x].total \in Nat /\ counts[x].by \in [Users -> Nat]
    BY DEF QuotaInv
  <2>3. s \notin ReceiptsOf(x) /\ s \notin ReceiptsTo(x, v)
    BY <1>1 DEF ReceiptsOf, ReceiptsTo
  <2>4. IsFiniteSet(ReceiptsOf(x)) /\ IsFiniteSet(ReceiptsTo(x, v))
    <3>1. ReceiptsOf(x) \in SUBSET Souls /\ ReceiptsTo(x, v) \in SUBSET Souls
      BY DEF ReceiptsTo, ReceiptsOf, Minted
    <3> QED BY <3>1, FiniteAssumption, FS_Subset
  <2>5. \A r \in ReceiptsTo(x, v) : receipts'[r] = receipts[r]
    BY <1>1 DEF ReceiptsTo, ReceiptsOf
  <2>6. counts'[x].total = Cardinality(ReceiptsOf(x)')
    <3>1. CASE x \in LinesOf(l)
      <4>1. counts'[x].total = counts[x].total + 1
        BY <1>3, <3>1
      <4>2. Cardinality(ReceiptsOf(x) \cup {s}) = Cardinality(ReceiptsOf(x)) + 1
        BY <2>3, <2>4, FS_AddElement
      <4> QED BY <1>1, <2>1, <3>1, <4>1, <4>2
    <3>2. CASE x \notin LinesOf(l)
      BY <1>1, <1>3, <2>1, <3>2
    <3> QED BY <3>1, <3>2
  <2>7. CASE x \in LinesOf(l) /\ v = u
    <3>1. counts'[x].by[v] = counts[x].by[v] + 1
      <4>1. counts'[x].by = [counts[x].by EXCEPT ![u] = @ + 1]
        BY <1>3, <2>7
      <4> QED BY <2>2, <2>7, <4>1
    <3>2. ReceiptsTo(x, v)' = ReceiptsTo(x, v) \cup {s}
      BY <1>1, <2>7
    <3>3. Cardinality(ReceiptsTo(x, v) \cup {s}) = Cardinality(ReceiptsTo(x, v)) + 1
      BY <2>3, <2>4, FS_AddElement
    <3>4. receipts'[s].lines[x].ordinal = counts[x].by[v]
      BY <1>1, <2>7
    <3>5. Ordinals(x, v)' = Ordinals(x, v) \cup {counts[x].by[v]}
      BY <2>5, <3>2, <3>4 DEF Ordinals
    <3>6. PICK c \in Nat : c = counts[x].by[v]
      BY <2>2
    <3>7. {n \in Nat : n < c} \cup {c} = {n \in Nat : n < c + 1}
      OBVIOUS
    <3> QED BY <2>1, <2>6, <3>1, <3>2, <3>3, <3>5, <3>6, <3>7
  <2>8. CASE ~ (x \in LinesOf(l) /\ v = u)
    <3>1. ReceiptsTo(x, v)' = ReceiptsTo(x, v)
      BY <1>1, <2>8
    <3>2. counts'[x].by[v] = counts[x].by[v]
      <4>1. CASE x \in LinesOf(l)
        <5>1. counts'[x].by = [counts[x].by EXCEPT ![u] = @ + 1] /\ v # u
          BY <1>3, <2>8, <4>1
        <5> QED BY <2>2, <5>1
      <4>2. CASE x \notin LinesOf(l)
        BY <1>3, <4>2
      <4> QED BY <4>1, <4>2
    <3>3. Ordinals(x, v)' = Ordinals(x, v)
      BY <2>5, <3>1 DEF Ordinals
    <3> QED BY <2>1, <2>6, <3>1, <3>2, <3>3
  <2> QED BY <2>7, <2>8
<1> QED BY <1>4, <1>5, UsersAssumption DEF NumberedInv

(* Each line earns what it was charged over the protocol's share. *)
LEMMA CompleteEarns ==
    ASSUME BooksInv, WardrobeTyped, QuotaInv, NEW u \in Users, NEW l \in Players, NEW s \in Souls,
           Complete(u, l, s), NEW x
    PROVE  /\ Earned(x) \in Int
           /\ x \in LinesOf(l) => Earned(x)' = Earned(x) + Residual(LineFor(x, u))
           /\ x \notin LinesOf(l) => Earned(x)' = Earned(x)
<1> DEFINE R == ReceiptsOf(x)
           Q == ReceiptsOf(x)'
           f == [r \in R |-> Residual(receipts[r].lines[x])]
           g == [r \in Q |-> Residual(receipts'[r].lines[x])]
<1>1. /\ s \notin R /\ \A r \in R : receipts'[r] = receipts[r]
      /\ Q = IF x \in LinesOf(l) THEN R \cup {s} ELSE R
      /\ x \in LinesOf(l) => /\ receipts'[s].lines[x] = LineFor(x, u)
                             /\ LineFor(x, u).gross \in Nat
  <2> DEFINE charged == [y \in LinesOf(l) |-> LineFor(y, u)]
  <2>1. /\ s \notin Minted /\ receipts'[s].lines = charged
        /\ \A r \in Minted : receipts'[r] = receipts[r]
        /\ \A y : ReceiptsOf(y)' = IF y \in LinesOf(l) THEN ReceiptsOf(y) \cup {s} ELSE ReceiptsOf(y)
        /\ \A y \in LinesOf(l) : charged[y].gross \in Nat
    BY ReceiptAdded
  <2>2. x \in LinesOf(l) => charged[x] = LineFor(x, u)
    OBVIOUS
  <2>3. R \subseteq Minted
    BY DEF ReceiptsOf
  <2> HIDE DEF charged
  <2> QED BY <2>1, <2>2, <2>3
<1>2. /\ IsFiniteSet(R) /\ \A r \in R : Residual(receipts[r].lines[x]) \in Nat
      /\ Earned(x) = SumOver(f, R) /\ Earned(x) \in Int
  BY EarnedTyped DEF BooksInv
<1>3. Earned(x)' = TotalOf(g) /\ DOMAIN g = Q
  BY DEF Earned
<1>4. \A r \in R : f[r] \in Int /\ g[r] = f[r]
  BY <1>1, <1>2
<1>5. x \in LinesOf(l) => /\ g[s] = Residual(LineFor(x, u))
                          /\ Residual(LineFor(x, u)) \in Int
  BY <1>1, ShareBelow DEF Residual
<1> HIDE DEF R, Q, f, g
<1>6. Earned(x)' = SumOver(g, Q)
  BY <1>3, TotalIs
<1>7. SumOver(f, R) = SumOver(g, R)
  BY <1>2, <1>4, SumSame
<1>8. CASE x \in LinesOf(l)
  <2>1. SumOver(g, R \cup {s}) = SumOver(g, R) + g[s]
    <3>1. \A r \in R \cup {s} : g[r] \in Int
      BY <1>4, <1>5, <1>8
    <3> QED BY <1>1, <1>2, <3>1, SumAdd
  <2> QED BY <1>1, <1>2, <1>5, <1>6, <1>7, <1>8, <2>1
<1>9. CASE x \notin LinesOf(l)
  BY <1>1, <1>2, <1>6, <1>7, <1>9
<1> QED BY <1>2, <1>8, <1>9

(* What the holder pays goes to the Maker, the Packs and the protocol. *)
LEMMA CompletePays ==
    ASSUME BooksInv, WardrobeTyped, QuotaInv, NEW u \in Users, NEW l \in Players, NEW s \in Souls,
           Complete(u, l, s)
    PROVE  /\ MoneyTyped' /\ CoinsKept'
           /\ ByPayments(treasury') = ByPayments(treasury) + Residual(LineFor(Base, u))
           /\ \A p \in Packs : ByPayments(tills'[p])
                 = ByPayments(tills[p]) + (IF p \in LinesOf(l) THEN Residual(LineFor(p, u)) ELSE 0)
<1> DEFINE charged == [x \in LinesOf(l) |-> LineFor(x, u)]
           L == LinesOf(l)
           fixed == terms.fixed
           pay == [x \in L |-> Payment(x, charged[x])]
           gross == [x \in L |-> charged[x].gross]
           share == [x \in L |-> ShareOf(charged[x].gross)]
           rest == [x \in L |-> Residual(charged[x])]
           due == [p \in Packs |-> IF p \in L THEN rest[p] ELSE 0]
           before == [p \in Packs |-> tills[p].revenue]
           after == [p \in Packs |-> tills'[p].revenue]
<1>1. /\ L \subseteq Lines /\ Base \in L /\ IsFiniteSet(L)
      /\ \A x \in L : charged[x] = LineFor(x, u) /\ charged[x].gross \in Nat
  <2>1. L \subseteq Lines
    BY Completion
  <2>2. IsFiniteSet(Lines)
    BY FiniteAssumption, FS_AddElement, FS_Union, FS_Singleton DEF Lines
  <2>3. \A x \in L : charged[x] = LineFor(x, u)
    OBVIOUS
  <2>4. \A x \in L : charged[x].gross \in Nat
    BY ReceiptAdded
  <2> QED BY <2>1, <2>2, <2>3, <2>4, FS_Subset DEF LinesOf
<1>2. \A x \in L : /\ gross[x] \in Nat /\ share[x] \in Nat /\ rest[x] \in Nat
                   /\ gross[x] = share[x] + rest[x] /\ rest[x] = Residual(LineFor(x, u))
                   /\ pay[x] = IF x = Base THEN gross[x] + fixed ELSE gross[x]
                   /\ charged[x].gross = 0 => rest[x] = 0
  <2> SUFFICES ASSUME NEW x \in L
      PROVE  /\ gross[x] \in Nat /\ share[x] \in Nat /\ rest[x] \in Nat
             /\ gross[x] = share[x] + rest[x] /\ rest[x] = Residual(LineFor(x, u))
             /\ pay[x] = IF x = Base THEN gross[x] + fixed ELSE gross[x]
             /\ charged[x].gross = 0 => rest[x] = 0
    OBVIOUS
  <2>1. /\ gross[x] = charged[x].gross /\ share[x] = ShareOf(charged[x].gross)
        /\ rest[x] = Residual(charged[x]) /\ pay[x] = Payment(x, charged[x])
        /\ charged[x] = LineFor(x, u) /\ charged[x].gross \in Nat
    BY <1>1
  <2> HIDE DEF charged, gross, share, rest, pay, L
  <2>2. PICK n \in Nat : n = charged[x].gross
    BY <2>1
  <2>3. PICK m \in Nat : m = ShareOf(n) /\ m <= n
    BY ShareBelow
  <2>4. rest[x] = n - m /\ share[x] = m /\ gross[x] = n
    BY <2>1, <2>2, <2>3 DEF Residual
  <2>5. pay[x] = IF x = Base THEN gross[x] + fixed ELSE gross[x]
    <3>1. Payment(x, charged[x]) = n + (IF x = Base THEN fixed ELSE 0)
      BY <2>2 DEF Payment
    <3> QED BY <2>1, <2>4, <3>1
  <2>6. gross[x] \in Nat /\ share[x] \in Nat /\ rest[x] \in Nat /\ gross[x] = share[x] + rest[x]
    BY <2>2, <2>3, <2>4
  <2>7. charged[x].gross = 0 => rest[x] = 0
    BY <2>2, <2>3, <2>4
  <2>8. rest[x] = Residual(LineFor(x, u))
    BY <2>1
  <2> QED BY <2>5, <2>6, <2>7, <2>8
<1>3. fixed \in Nat /\ terms.price \in Nat
  BY PlanAssumption DEF WardrobeTyped
<1>4. /\ MoneyTyped /\ CoinsKept /\ UNCHANGED <<root, passes, terms, packPasses>>
      /\ cash[u] >= TotalOf(pay) /\ cash' = Credit(cash, u, - TotalOf(pay))
      /\ protocol' = [protocol EXCEPT !.revenue = @ + TotalOf(share) + fixed]
      /\ IF rest[Base] > 0 THEN Deposit(rest[Base]) ELSE UNCHANGED treasury
      /\ tills' = [p \in Packs |-> IF p \in L /\ charged[p].gross > 0
                                   THEN Deposited(tills[p], Residual(charged[p])) ELSE tills[p]]
  <2>1. Settle(u, charged) /\ UNCHANGED <<root, passes, terms, packPasses>>
    BY DEF Complete
  <2>2. MoneyTyped /\ CoinsKept
    BY DEF BooksInv
  <2>3. DOMAIN charged = L /\ rest[Base] = Residual(charged[Base])
    BY <1>1
  <2> HIDE DEF charged, L
  <2> QED BY <2>1, <2>2, <2>3 DEF Settle, SettlePacks
<1>5. /\ DOMAIN pay = L /\ DOMAIN share = L /\ DOMAIN before = Packs /\ DOMAIN after = Packs
      /\ InTills(tills) = TotalOf(before) /\ InTills(tills') = TotalOf(after)
  BY DEF InTills
<1>6. \A p \in Packs : /\ due[p] = IF p \in L THEN rest[p] ELSE 0
                       /\ due[p] = IF p \in L THEN Residual(LineFor(p, u)) ELSE 0
                       /\ due[p] \in Nat
                       /\ before[p] = tills[p].revenue /\ after[p] = tills'[p].revenue
                       /\ p \in L => rest[p] = Residual(charged[p])
  BY <1>2
<1> HIDE DEF charged, L, fixed, pay, gross, share, rest, due, before, after
<1>7. \A p \in Packs : /\ tills'[p] \in Treasuries /\ tills'[p].revenue = tills[p].revenue + due[p]
                       /\ ByPayments(tills'[p]) = ByPayments(tills[p]) + due[p]
                       /\ tills[p].revenue \in Nat
  <2> SUFFICES ASSUME NEW p \in Packs
      PROVE  /\ tills'[p] \in Treasuries /\ tills'[p].revenue = tills[p].revenue + due[p]
             /\ ByPayments(tills'[p]) = ByPayments(tills[p]) + due[p]
             /\ tills[p].revenue \in Nat
    OBVIOUS
  <2>1. /\ tills[p] \in Treasuries /\ tills[p].revenue \in Nat
        /\ tills[p].revenue = tills[p].revenue + 0
        /\ ByPayments(tills[p]) = ByPayments(tills[p]) + 0
    BY <1>4, TillTyped DEF MoneyTyped
  <2>2. CASE p \in L /\ charged[p].gross > 0
    <3>1. tills'[p] = Deposited(tills[p], due[p]) /\ due[p] \in Nat
      BY <1>4, <1>6, <2>2
    <3>2. /\ Deposited(tills[p], due[p]) \in Treasuries
          /\ Deposited(tills[p], due[p]).revenue = tills[p].revenue + due[p]
          /\ ByPayments(Deposited(tills[p], due[p])) = ByPayments(tills[p]) + due[p]
      BY <2>1, <3>1, TillBooks
    <3> QED BY <2>1, <3>1, <3>2
  <2>3. CASE ~ (p \in L /\ charged[p].gross > 0)
    <3>1. tills'[p] = tills[p]
      BY <1>4, <2>3
    <3>2. due[p] = 0
      BY <1>1, <1>2, <1>6, <2>3
    <3> QED BY <2>1, <3>1, <3>2
  <2> QED BY <2>2, <2>3
<1>8. /\ treasury' \in Treasuries /\ treasury'.revenue = treasury.revenue + rest[Base]
      /\ ByPayments(treasury') = ByPayments(treasury) + rest[Base]
  <2>1. /\ treasury \in Treasuries /\ rest[Base] \in Nat
        /\ treasury.revenue = treasury.revenue + 0
        /\ ByPayments(treasury) = ByPayments(treasury) + 0
    BY <1>1, <1>2, <1>4, TillTyped DEF MoneyTyped
  <2>2. CASE rest[Base] > 0
    <3>1. treasury' = Deposited(treasury, rest[Base])
      BY <1>4, <2>2 DEF Deposit
    <3> QED BY <2>1, <3>1, TillBooks
  <2>3. CASE ~ (rest[Base] > 0)
    <3>1. treasury' = treasury /\ rest[Base] = 0
      BY <1>4, <2>1, <2>3
    <3> QED BY <2>1, <3>1
  <2> QED BY <2>2, <2>3
<1>9. /\ SumOver(gross, L) \in Nat /\ SumOver(share, L) \in Nat /\ SumOver(rest, L) \in Nat
      /\ SumOver(rest, L \ {Base}) \in Nat
  <2>1. /\ \A x \in L : gross[x] \in Int /\ gross[x] \in Nat
        /\ \A x \in L : share[x] \in Int /\ share[x] \in Nat
        /\ \A x \in L : rest[x] \in Int /\ rest[x] \in Nat
        /\ \A x \in L \ {Base} : rest[x] \in Int /\ rest[x] \in Nat
    BY <1>2
  <2>2. IsFiniteSet(L \ {Base})
    BY <1>1, FS_Subset
  <2> QED BY <1>1, <2>1, <2>2, SumIsInt
<1>10. TotalOf(pay) = SumOver(gross, L) + fixed
  <2>1. \A x \in L : gross[x] \in Int /\ pay[x] = IF x = Base THEN gross[x] + fixed ELSE gross[x]
    BY <1>2
  <2>2. fixed \in Int /\ Base \in L /\ IsFiniteSet(L)
    BY <1>1, <1>3
  <2>3. SumOver(pay, L) = SumOver(gross, L) + fixed
    BY <2>1, <2>2, SumChange
  <2> QED BY <1>5, <2>3, TotalIs
<1>11. SumOver(gross, L) = SumOver(share, L) + SumOver(rest, L)
  <2>1. \A x \in L : share[x] \in Int /\ rest[x] \in Int /\ gross[x] = share[x] + rest[x]
    BY <1>2
  <2> QED BY <1>1, <2>1, SumPlus
<1>12. SumOver(rest, L) = rest[Base] + SumOver(rest, L \ {Base})
  <2>1. \A x \in L : rest[x] \in Int
    BY <1>2
  <2> QED BY <1>1, <2>1, SumRemove
<1>13. InTills(tills') = InTills(tills) + SumOver(rest, L \ {Base})
  <2>1. IsFiniteSet(Packs) /\ L \ {Base} \subseteq Packs
    BY <1>1, FiniteAssumption DEF Lines
  <2>2. \A p \in Packs : before[p] \in Int /\ due[p] \in Int /\ after[p] = before[p] + due[p]
    BY <1>6, <1>7
  <2>3. SumOver(after, Packs) = SumOver(before, Packs) + SumOver(due, Packs)
    BY <2>1, <2>2, SumPlus
  <2>4. (\A x \in L \ {Base} : due[x] = rest[x] /\ due[x] \in Int)
        /\ \A x \in Packs \ (L \ {Base}) : due[x] = 0
    BY <1>6, <2>1, LinesAssumption
  <2>5. SumOver(due, Packs) = SumOver(rest, L \ {Base})
    BY <2>1, <2>4, SumWithin
  <2> QED BY <1>5, <2>3, <2>5, TotalIs
<1>14. PICK total \in Nat, shares \in Nat, base \in Nat, others \in Nat :
          /\ total = TotalOf(pay) /\ shares = SumOver(share, L)
          /\ base = rest[Base] /\ others = SumOver(rest, L \ {Base})
  <2>1. rest[Base] \in Nat /\ TotalOf(pay) \in Nat
    BY <1>1, <1>2, <1>3, <1>9, <1>10
  <2> QED BY <1>9, <2>1
<1>15. total = (shares + (base + others)) + fixed
  BY <1>10, <1>11, <1>12, <1>14
<1>16. TotalOf(share) = shares
  BY <1>5, <1>14, TotalIs
<1>17. /\ protocol'.revenue = protocol.revenue + (shares + fixed)
       /\ protocol' \in [enabled : BOOLEAN, revision : Nat, revenue : Nat, direct : Nat]
  <2>1. /\ protocol.enabled \in BOOLEAN /\ protocol.revision \in Nat
        /\ protocol.revenue \in Nat /\ protocol.direct \in Nat
        /\ protocol' = [enabled |-> protocol.enabled, revision |-> protocol.revision,
                        revenue |-> protocol.revenue + shares + fixed, direct |-> protocol.direct]
    BY <1>4, <1>16 DEF MoneyTyped
  <2> QED BY <1>3, <2>1
<1>18. cash' \in [Users -> Nat]
  <2>1. cash[u] >= total /\ cash' = Credit(cash, u, - total) /\ cash \in [Users -> Nat]
    BY <1>4, <1>14 DEF MoneyTyped
  <2> QED BY <2>1 DEF Credit
<1>19. MoneyTyped'
  <2>1. tills' = [p \in Packs |-> tills'[p]]
    BY <1>4
  <2>2. tills' \in [Packs -> Treasuries]
    BY <1>7, <2>1
  <2>3. root' = root /\ passes' = passes /\ packPasses' = packPasses
    BY <1>4
  <2> QED BY <1>4, <1>8, <1>17, <1>18, <2>2, <2>3 DEF MoneyTyped
<1>20. CoinsKept'
  <2>1. PICK paid \in Int, kept \in Int : paid = - total /\ kept = shares + fixed
    BY <1>3
  <2>2. TotalOf(cash') = TotalOf(cash) + paid
    BY <1>4, <1>14, <2>1, CashMoves
  <2>3. /\ InTills(tills') = InTills(tills) + others /\ treasury'.revenue = treasury.revenue + base
        /\ protocol'.revenue = protocol.revenue + kept
        /\ paid + others + base + kept = 0
        /\ others \in Int /\ base \in Int
    BY <1>3, <1>8, <1>13, <1>14, <1>15, <1>17, <2>1
  <2>4. MoneyTyped /\ MoneyTyped' /\ CoinsKept
    BY <1>4, <1>19
  <2> QED BY <2>1, <2>2, <2>3, <2>4, CoinsMove
<1>21. ByPayments(treasury') = ByPayments(treasury) + Residual(LineFor(Base, u))
  BY <1>1, <1>2, <1>8
<1>22. \A p \in Packs : ByPayments(tills'[p])
           = ByPayments(tills[p]) + (IF p \in LinesOf(l) THEN Residual(LineFor(p, u)) ELSE 0)
  BY <1>6, <1>7 DEF L
<1> QED BY <1>19, <1>20, <1>21, <1>22

LEMMA CompleteBooks ==
    ASSUME BooksInv, WardrobeTyped, QuotaInv, NEW u \in Users, NEW l \in Players, NEW s \in Souls,
           Complete(u, l, s)
    PROVE  BooksInv'
<1>1. ReceiptsTyped' /\ NumberedInv'
  BY CompleteNumbers
<1>2. MoneyTyped' /\ CoinsKept'
  BY CompletePays
<1>3. UNCHANGED <<root, passes, terms, packPasses>> /\ MoneyTyped
  BY DEF Complete, BooksInv
<1>4. \A p \in Packs : ByPayments(tills[p]) \in Int
  BY <1>3, TillTyped DEF MoneyTyped
<1>5. terms.price \in Nat /\ root.price \in Nat
  BY <1>3, PlanAssumption DEF WardrobeTyped, MoneyTyped
<1>6. \A x \in LinesOf(l) : Residual(LineFor(x, u)) \in Int
  <2>1. \A x \in LinesOf(l) : LineFor(x, u).gross \in Nat
    BY ReceiptAdded
  <2> QED BY <2>1, ShareBelow DEF Residual
<1>7. ByPayments(treasury') = Earned(Base)' + Sold(passes', root'.price)
  <2>1. Base \in LinesOf(l)
    BY DEF LinesOf
  <2>2. ByPayments(treasury) = Earned(Base) + Sold(passes, root.price)
    BY DEF BooksInv, CollectedInv
  <2>3. PICK a \in Int, b \in Int, d \in Int :
            a = Earned(Base) /\ b = Sold(passes, root.price) /\ d = Residual(LineFor(Base, u))
    BY <1>3, <1>5, <1>6, <2>1, CompleteEarns, SoldTyped DEF MoneyTyped
  <2>4. Earned(Base)' = a + d
    BY <2>1, <2>3, CompleteEarns
  <2>5. ByPayments(treasury') = (a + b) + d
    BY <2>2, <2>3, CompletePays
  <2>6. Sold(passes', root'.price) = b
    BY <1>3, <2>3
  <2> QED BY <2>4, <2>5, <2>6
<1>8. ASSUME NEW p \in Packs
      PROVE  ByPayments(tills'[p])
                = Earned(p)' + (IF terms'.access = Paid THEN Sold(packPasses'[p], terms'.price) ELSE 0)
  <2>1. PICK sold \in Int : sold = IF terms.access = Paid THEN Sold(packPasses[p], terms.price) ELSE 0
    <3>1. Sold(packPasses[p], terms.price) \in Int
      BY <1>3, <1>5, SoldTyped DEF MoneyTyped
    <3> QED BY <3>1
  <2>2. ByPayments(tills[p]) = Earned(p) + sold
    BY <2>1 DEF BooksInv, CollectedInv
  <2>3. (IF terms'.access = Paid THEN Sold(packPasses'[p], terms'.price) ELSE 0) = sold
    BY <1>3, <2>1
  <2>4. PICK d \in Int : /\ d = IF p \in LinesOf(l) THEN Residual(LineFor(p, u)) ELSE 0
    BY <1>6
  <2>5. PICK a \in Int : a = Earned(p)
    BY CompleteEarns
  <2>6. ByPayments(tills'[p]) = (a + sold) + d
    BY <2>2, <2>4, <2>5, CompletePays
  <2>7. Earned(p)' = a + d
    BY <2>4, <2>5, CompleteEarns
  <2> QED BY <2>3, <2>6, <2>7
<1> QED BY <1>1, <1>2, <1>7, <1>8 DEF BooksInv, CollectedInv

LEMMA BooksInductive == BooksInv /\ WardrobeTyped /\ QuotaInv /\ [Next]_vars => BooksInv'
<1> SUFFICES ASSUME BooksInv, WardrobeTyped, QuotaInv, [Next]_vars PROVE BooksInv'
  OBVIOUS
<1>1. terms \in Plans /\ terms.price \in Nat
  BY PlanAssumption DEF WardrobeTyped
<1>2. CASE ControlNext /\ UNCHANGED <<wardrobeVars, completeVars>>
  BY <1>1, <1>2, ControlBooks
<1>3. CASE WardrobeNext /\ UNCHANGED completeVars
  BY <1>1, <1>3, WardrobeBooks
<1>4. ASSUME UNCHANGED <<controlVars, wardrobeVars, counts, receipts>> PROVE BooksInv'
  <2>1. UNCHANGED <<protocol, root, treasury, passes, packPasses, tills, cash, terms, counts, receipts>>
    BY <1>4 DEF controlVars, wardrobeVars
  <2>2. MoneyTyped'
    BY <2>1 DEF BooksInv, MoneyTyped
  <2> QED BY <2>1, <2>2, BooksUntouched
<1>5. CASE \E u \in Users, l \in Players : ReadQuote(u, l)
  BY <1>4, <1>5 DEF ReadQuote
<1>6. ASSUME NEW u \in Users, NEW l \in Players, NEW s \in Souls, Complete(u, l, s)
      PROVE  BooksInv'
  BY <1>6, CompleteBooks
<1>7. CASE UNCHANGED vars
  BY <1>4, <1>7 DEF vars, controlVars, wardrobeVars
<1> QED BY <1>2, <1>3, <1>5, <1>6, <1>7 DEF Next

(* Whatever is sold, given, completed and withdrawn, in any order: each     *)
(* wallet's completions of a line are numbered without a gap, the counters  *)
(* are the receipts there are, the Maker and each Pack collected what       *)
(* receipts and passes say was paid and, above that, nothing but direct     *)
(* deposits, and no coin is made or lost.                                   *)
THEOREM ReceiptsAreTrue == Spec => []ReceiptsAgree
<1>1. Init => BooksInv
  BY BooksInitially
<1>2. BooksInv /\ WardrobeInv /\ QuotaInv /\ [Next]_vars => BooksInv'
  BY BooksInductive DEF WardrobeInv
<1>3. BooksInv => ReceiptsAgree
  <2> SUFFICES ASSUME BooksInv PROVE ReceiptsAgree
    OBVIOUS
  <2>1. Collected
    <3>1. treasury \in Treasuries /\ \A p \in Packs : tills[p] \in Treasuries
      BY DEF BooksInv, MoneyTyped
    <3>2. /\ treasury.collected = ByPayments(treasury) + treasury.direct
          /\ \A p \in Packs : tills[p].collected = ByPayments(tills[p]) + tills[p].direct
      BY <3>1, TillTyped
    <3> QED BY <3>2 DEF BooksInv, CollectedInv, Collected
  <2>2. ASSUME NEW x \in Lines, NEW u \in Users
        PROVE  {receipts[s].lines[x].ordinal : s \in ReceiptsTo(x, u)}
                  = {n \in 0..Cardinality(Souls) : n < counts[x].by[u]}
    <3>1. counts[x].by[u] = Cardinality(ReceiptsTo(x, u))
          /\ Ordinals(x, u) = {n \in Nat : n < counts[x].by[u]}
      BY DEF BooksInv, NumberedInv
    <3>2. ReceiptsTo(x, u) \in SUBSET Souls
      BY DEF ReceiptsTo, ReceiptsOf, Minted
    <3>3. PICK c \in Nat, b \in Nat : b = Cardinality(ReceiptsTo(x, u)) /\ c = Cardinality(Souls) /\ b <= c
      BY <3>2, FiniteAssumption, FS_Subset, FS_CardinalityType
    <3>4. {n \in Nat : n < b} = {n \in 0..c : n < b}
      BY <3>3
    <3> QED BY <3>1, <3>3, <3>4 DEF Ordinals
  <2> QED BY <2>1, <2>2 DEF BooksInv, NumberedInv, ReceiptsAgree, Numbered
<1> QED BY <1>1, <1>2, <1>3, QuotaHolds, PTL DEF Spec

=============================================================================
