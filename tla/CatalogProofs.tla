---------------------------- MODULE CatalogProofs ----------------------------
(***************************************************************************)
(* For any providers' quotes and results, any interleaving of their        *)
(* transactions and any faults: a label has one canonical row, the first   *)
(* name stays, and what is read of an event hangs together.  Two results   *)
(* are about the providers too: if match keys tell clubs apart, so do the  *)
(* links, and if reports are true as far as they go, so are the outcomes.  *)
(*                                                                         *)
(* What a transaction has written is not in the tables yet, so the         *)
(* invariant compares it with the committed rows (Continues), with what    *)
(* the other transactions have written (Apart: the unique index), and      *)
(* with the links it has found so far (SoFar).                             *)
(***************************************************************************)
EXTENDS Catalog, FiniteSetTheorems, WellFoundedInduction, TLAPS

IsRow(r) ==
    /\ r = Entity(r.kind, r.id, r.sport, r.key, r.name, r.country)
    /\ r.name # None
    /\ \/ /\ r.kind = "sport" /\ r.id = <<"sport", r.sport>> /\ r.key = <<r.sport>>
          /\ None # r.id
       \/ /\ r.kind \in {"league", "team"}
          /\ r.id[2] \in Nat /\ r.id = <<r.kind, r.id[2]>>

Known(rows, id, identity) == \E r \in rows : r.id = id /\ Identity(r) = identity
HasSport(rows, r) == Known(rows, <<"sport", r.sport>>, <<"sport", r.sport, <<r.sport>>>>)

OneEach(rows) ==
    \A r, s \in rows : Identity(r) = Identity(s) \/ r.id = s.id => r = s

Continues(w, r) ==
    /\ Identity(w) = Identity(r) <=> w.id = r.id
    /\ w.id = r.id => w.name = r.name /\ (w.country = r.country \/ r.country = None)

Steps == {"sport", "league", "home", "away", "line"}

Sides == {"league", "home", "away"}

\* A label that is not there has no link, another one that of its row.
Linked(rows, link, want) == IF want = None THEN link = None ELSE Known(rows, link, want)

LinksFound(rows, links, wants) ==
    /\ Known(rows, <<"sport", links.sport>>, wants.sport)
    /\ Linked(rows, links.league, wants.league)
    /\ Linked(rows, links.home, wants.home)
    /\ Linked(rows, links.away, wants.away)

SoFar(t, rows) ==
    /\ t.step \in {"sport", "league"} => t.links.league = None
    /\ t.step \in {"sport", "league", "home"} => t.links.home = None
    /\ t.step # "line" => t.links.away = None
    /\ t.step # "sport" => Known(rows, <<"sport", t.links.sport>>, t.event.wants.sport)
    /\ t.step \notin {"sport", "league"} => Linked(rows, t.links.league, t.event.wants.league)
    /\ t.step \in {"away", "line"} => Linked(rows, t.links.home, t.event.wants.home)
    /\ t.step = "line" => Linked(rows, t.links.away, t.event.wants.away)

TxState(t, rows) ==
    /\ t = [event |-> t.event, step |-> t.step, wrote |-> t.wrote,
            maps |-> t.maps, links |-> t.links]
    /\ t.step \in Steps
    /\ t.links = [sport |-> t.links.sport, league |-> t.links.league,
                  home |-> t.links.home, away |-> t.links.away]
    /\ IsFiniteSet(t.wrote)
    /\ \A w \in t.wrote : IsRow(w) /\ HasSport(rows \union t.wrote, w)
    /\ OneEach(t.wrote)
    /\ \A w \in t.wrote, r \in rows : Continues(w, r)
    /\ SoFar(t, rows \union t.wrote)

Apart ==
    \A p, q \in Providers : p # q =>
        \A w \in Wrote(p), v \in Wrote(q) : Identity(w) # Identity(v) /\ w.id # v.id

CurrentState(c) ==
    /\ c = [eventId |-> c.eventId, odds |-> c.odds, updatedAt |-> c.updatedAt,
            links |-> c.links, commenceTime |-> c.commenceTime, outcome |-> c.outcome]
    /\ \E h \in history : h.eventId = c.eventId /\ h.updatedAt = c.updatedAt
                                 /\ h.links = c.links /\ h.odds = c.odds
    /\ \E p \in Providers : \E event \in Events[p] :
           event.eventId = c.eventId /\ LinksFound(entities, c.links, event.wants)

CInv ==
    /\ IsFiniteSet(entities)
    /\ \A r \in entities : IsRow(r) /\ HasSport(entities, r)
    /\ OneEach(entities)
    /\ tx = [p \in Providers |-> tx[p]]
    /\ \A p \in Providers :
           tx[p] # None => tx[p].event \in Events[p] /\ TxState(tx[p], entities)
    /\ Apart
    /\ \A c \in current : CurrentState(c)

-----------------------------------------------------------------------------
(* What the payloads ask for                                               *)

\* The rows that recording an event asks for.
IsEvent(event) ==
    \E slug :
        /\ event.wants.sport = <<"sport", slug, <<slug>>>>
        /\ None \notin {<<"sport", slug>>, SportTitle(slug)}
        /\ \A side \in Sides :
               \/ event.wants[side] = None
               \/ /\ event.name[side] # None
                  /\ \E kind \in {"league", "team"} : \E key : event.wants[side] = <<kind, slug, key>>

LEMMA EventsAreEvents ==
    ASSUME NEW p \in Providers, NEW event \in Events[p] PROVE IsEvent(event)
<1>1. PICK raw \in Payloads[p] : EventOf(raw) # None /\ event = Resolving(EventOf(raw))
  BY DEF Events
<1> DEFINE e == EventOf(raw)
           slug == SlugifySport(e.sport, e.group)
<1>2. /\ event.wants.sport = <<"sport", slug, <<slug>>>>
      /\ event.wants["league"] = IF e.leagueKey \in Blank \/ e.leagueName \in Blank THEN None
                                 ELSE <<"league", slug, LeagueMatchKey(e.leagueName)>>
      /\ event.wants["home"] = IF e.home \in Blank THEN None
                               ELSE <<"team", slug, TeamMatchKey(e.home)>>
      /\ event.wants["away"] = IF e.away \in Blank THEN None
                               ELSE <<"team", slug, TeamMatchKey(e.away)>>
      /\ event.name["league"] = e.leagueName
      /\ event.name["home"] = e.home /\ event.name["away"] = e.away
  BY <1>1 DEF Resolving
<1>3. None \notin {<<"sport", slug>>, SportTitle(slug)}
  BY <1>2, NoneAssumption
<1> HIDE DEF e, slug
<1>4. ASSUME NEW side \in Sides
      PROVE  \/ event.wants[side] = None
             \/ /\ event.name[side] # None
                /\ \E kind \in {"league", "team"} : \E key : event.wants[side] = <<kind, slug, key>>
  <2>1. CASE side = "league"
    BY <1>2, <2>1 DEF Blank
  <2>2. CASE side = "home"
    BY <1>2, <2>2 DEF Blank
  <2>3. CASE side = "away"
    BY <1>2, <2>3 DEF Blank
  <2> QED BY <2>1, <2>2, <2>3 DEF Sides
<1> QED BY <1>2, <1>3, <1>4 DEF IsEvent

-----------------------------------------------------------------------------
(* Ids                                                                     *)

\* A set of naturals that is not empty has a least element.
LEMMA LeastNatural ==
    ASSUME NEW S \in SUBSET Nat, S # {}
    PROVE  Min(S) \in S /\ \A y \in S : Min(S) =< y
<1>1. \E x \in S : \A y \in S : ~ (<<y, x>> \in OpToRel(<, Nat))
  BY NatLessThanWellFounded, WFMin, Zenon
<1>2. PICK x \in S : \A y \in S : ~ (<<y, x>> \in OpToRel(<, Nat))
  BY <1>1
<1>3. ASSUME NEW y \in S PROVE x =< y
  <2>1. CASE y < x
    <3>1. <<y, x>> \in {ss \in Nat \X Nat : ss[1] < ss[2]}
      BY <2>1
    <3>2. <<y, x>> \in OpToRel(<, Nat)
      BY <3>1 DEF OpToRel
    <3> QED BY <1>2, <3>2
  <2> QED BY <2>1
<1> QED BY <1>3 DEF Min

\* An interval's parts have a greatest one.
LEMMA GreatestInInterval ==
    ASSUME NEW n \in Nat, NEW S \in SUBSET (1..n), S # {}
    PROVE  Max(S) \in S
<1> DEFINE T == {n - x : x \in S}
<1>1. T \in SUBSET Nat /\ T # {}
  <2>1. \A x \in S : n - x \in Nat
    OBVIOUS
  <2>2. PICK x \in S : TRUE
    OBVIOUS
  <2>3. n - x \in T
    OBVIOUS
  <2> QED BY <2>1, <2>3
<1>2. PICK m \in T : \A y \in T : m =< y
  <2> HIDE DEF T
  <2> QED BY <1>1, LeastNatural
<1>3. PICK x \in S : m = n - x
  OBVIOUS
<1>4. ASSUME NEW y \in S PROVE x >= y
  <2>1. n - x =< n - y
    BY <1>2, <1>3
  <2>2. n \in Int /\ x \in Int /\ y \in Int
    OBVIOUS
  <2> HIDE DEF T
  <2> QED BY <2>1, <2>2
<1> QED BY <1>4 DEF Max

\* No finite set of rows uses up its own size of numbers and one more.
LEMMA NumberLeft ==
    ASSUME NEW rows, IsFiniteSet(rows)
    PROVE  LET ids == {r.id[2] : r \in rows}
           IN  Min((1..Cardinality(rows) + 1) \ ids) \in Nat \ ids
<1> DEFINE ids == {r.id[2] : r \in rows}
           f == [r \in rows |-> r.id[2]]
           n == Cardinality(rows)
<1>1. n \in Nat
  BY FS_CardinalityType
<1>2. f \in Surjection(rows, ids)
  BY DEF Surjection
<1>3. IsFiniteSet(ids) /\ Cardinality(ids) <= n
  <2> HIDE DEF f, ids
  <2> QED BY <1>2, FS_Surjection
<1>4. Cardinality(1..n + 1) = n + 1 /\ IsFiniteSet(1..n + 1)
  BY <1>1, FS_Interval
<1>5. ~ (1..n + 1 \subseteq ids)
  <2>1. CASE 1..n + 1 \subseteq ids
    <3>1. Cardinality(1..n + 1) <= Cardinality(ids)
      BY <1>3, <2>1, FS_Subset
    <3>2. Cardinality(ids) \in Nat
      BY <1>3, FS_CardinalityType
    <3> QED BY <1>1, <1>3, <1>4, <3>1, <3>2
  <2> QED BY <2>1
<1>6. (1..n + 1) \ ids \in SUBSET Nat /\ (1..n + 1) \ ids # {}
  BY <1>1, <1>5
<1>7. Min((1..n + 1) \ ids) \in (1..n + 1) \ ids
  <2> HIDE DEF ids, n
  <2> QED BY <1>6, LeastNatural
<1> QED BY <1>1, <1>7

LEMMA WrittenIsFinite ==
    ASSUME CInv PROVE IsFiniteSet(entities \union UNION {Wrote(q) : q \in Providers})
<1> DEFINE f == [q \in Providers |-> Wrote(q)]
           written == {Wrote(q) : q \in Providers}
<1>1. IsFiniteSet(Providers)
  <2>1. IsFiniteSet({"apifootball"}) /\ IsFiniteSet({"theoddsapi"}) /\ IsFiniteSet({"mock"})
    BY FS_Singleton
  <2>2. {"apifootball", "theoddsapi", "mock"} =
            {"apifootball"} \union ({"theoddsapi"} \union {"mock"})
    OBVIOUS
  <2>3. IsFiniteSet({"theoddsapi"} \union {"mock"})
    BY <2>1, FS_Union
  <2>4. IsFiniteSet({"apifootball"} \union ({"theoddsapi"} \union {"mock"}))
    BY <2>1, <2>3, FS_Union
  <2> QED BY <2>2, <2>4, FS_Subset, CatalogAssumption
<1>2. f \in Surjection(Providers, written)
  BY DEF Surjection
<1>3. IsFiniteSet(written)
  <2> HIDE DEF f, written
  <2> QED BY <1>1, <1>2, FS_Surjection
<1>4. \A q \in Providers : IsFiniteSet(Wrote(q))
  BY FS_EmptySet DEF CInv, TxState, Wrote
<1>5. \A T \in written : IsFiniteSet(T)
  BY <1>4
<1>6. IsFiniteSet(UNION written)
  <2> HIDE DEF written
  <2> QED BY <1>3, <1>5, FS_UNION
<1> QED BY <1>6, FS_Union DEF CInv

\* No row has the id that an insert gets, not even one of a transaction
\* that has not ended.
LEMMA FreshIdIsNew ==
    ASSUME CInv, NEW kind \in {"league", "team"}
    PROVE  /\ FreshId(kind)[2] \in Nat /\ FreshId(kind) = <<kind, FreshId(kind)[2]>>
           /\ \A r \in entities : r.id # FreshId(kind)
           /\ \A q \in Providers : \A w \in Wrote(q) : w.id # FreshId(kind)
<1> DEFINE all == entities \union UNION {Wrote(q) : q \in Providers}
           rows == {r \in all : r.kind = kind}
           ids == {r.id[2] : r \in rows}
           n == Min((1..Cardinality(rows) + 1) \ ids)
<1>1. IsFiniteSet(rows)
  <2>1. rows \subseteq all /\ IsFiniteSet(all)
    BY WrittenIsFinite
  <2> HIDE DEF rows, all
  <2> QED BY <2>1, FS_Subset
<1>2. n \in Nat \ ids
  <2> HIDE DEF rows
  <2> QED BY <1>1, NumberLeft
<1>3. FreshId(kind) = <<kind, n>>
  BY DEF FreshId
<1>4. \A r \in all : IsRow(r)
  BY DEF CInv, TxState, Wrote
<1> HIDE DEF n
<1>5. ASSUME NEW r \in all PROVE r.id # <<kind, n>>
  <2>1. CASE r.kind = kind
    <3>1. r.id[2] # n
      BY <1>2, <2>1
    <3> QED BY <3>1
  <2>2. CASE r.kind # kind
    <3>1. r.id[1] = r.kind
      BY <1>4 DEF IsRow
    <3> QED BY <2>2, <3>1
  <2> QED BY <2>1, <2>2
<1>6. <<kind, n>>[2] = n
  OBVIOUS
<1> QED BY <1>2, <1>3, <1>5, <1>6

-----------------------------------------------------------------------------
(* The row of a label                                                      *)

\* What a transaction may add to what it has written.
Fits(p, row) ==
    /\ IsRow(row) /\ HasSport(entities \union tx[p].wrote \union {row}, row)
    /\ \A r \in entities : Continues(row, r)
    /\ \A w \in tx[p].wrote : Identity(w) = Identity(row) <=> w.id = row.id
    /\ \A q \in Providers \ {p} : \A v \in Wrote(q) :
           Identity(row) # Identity(v) /\ row.id # v.id

\* The id of a sport tells which it is.
LEMMA SportOfId ==
    ASSUME NEW r, IsRow(r), NEW s
    PROVE  r.id = <<"sport", s>> <=> Identity(r) = <<"sport", s, <<s>>>>
<1>1. r.id[1] = r.kind
  BY DEF IsRow
<1>2. ASSUME r.id = <<"sport", s>> PROVE Identity(r) = <<"sport", s, <<s>>>>
  <2>1. r.kind = "sport"
    BY <1>1, <1>2
  <2>2. r.id = <<"sport", r.sport>> /\ r.key = <<r.sport>>
    BY <2>1 DEF IsRow
  <2>3. r.sport = s
    BY <1>2, <2>2
  <2> QED BY <2>1, <2>2, <2>3 DEF Identity
<1>3. ASSUME Identity(r) = <<"sport", s, <<s>>>> PROVE r.id = <<"sport", s>>
  <2>1. r.kind = "sport" /\ r.sport = s
    BY <1>3 DEF Identity
  <2> QED BY <2>1 DEF IsRow
<1> QED BY <1>2, <1>3

\* A transaction that does not find a label has not written it, and nobody has
\* committed it.
LEMMA NotThere ==
    ASSUME CInv, NEW p \in Providers, tx[p] # None, Found(p) = {}
    PROVE  \A r \in entities \union tx[p].wrote : Identity(r) # Wanted(p)
<1>1. Wrote(p) = tx[p].wrote
  BY DEF Wrote
<1>2. \A w \in tx[p].wrote : Identity(w) # Wanted(p)
  BY <1>1 DEF Found, Visible
<1>3. ASSUME NEW r \in entities PROVE Identity(r) # Wanted(p)
  <2>1. CASE r \in Visible(p)
    BY <2>1 DEF Found
  <2>2. CASE r \notin Visible(p)
    <3>1. PICK w \in tx[p].wrote : w.id = r.id
      BY <1>1, <2>2 DEF Visible
    <3>2. Continues(w, r)
      BY DEF CInv, TxState
    <3> QED BY <1>2, <3>1, <3>2 DEF Continues
  <2> QED BY <2>1, <2>2
<1> QED BY <1>2, <1>3

\* Every row a transaction sees is well formed.
LEMMA RowsSeen ==
    ASSUME CInv, NEW p \in Providers, tx[p] # None
    PROVE  /\ \A r \in entities \union tx[p].wrote : IsRow(r)
           /\ \A r \in entities \union tx[p].wrote :
                  HasSport(entities \union tx[p].wrote, r)
           /\ Wrote(p) = tx[p].wrote
           /\ Found(p) \subseteq entities \union tx[p].wrote
           /\ \A r \in Found(p) : Identity(r) = Wanted(p)
<1>1. Wrote(p) = tx[p].wrote
  BY DEF Wrote
<1>2. \A r \in entities \union tx[p].wrote : IsRow(r)
  BY DEF CInv, TxState
<1>3. \A r \in entities \union tx[p].wrote : HasSport(entities \union tx[p].wrote, r)
  BY DEF CInv, TxState, HasSport, Known
<1>4. Found(p) \subseteq entities \union tx[p].wrote /\ \A r \in Found(p) : Identity(r) = Wanted(p)
  BY <1>1 DEF Found, Visible
<1> QED BY <1>1, <1>2, <1>3, <1>4

\* What a transaction wants after its sport.
WantsNamed(p) ==
    /\ tx[p].step \in {"league", "home", "away"}
    /\ Wanted(p)[1] \in {"league", "team"}
    /\ Wanted(p) = <<Wanted(p)[1], Wanted(p)[2], Wanted(p)[3]>>
    /\ tx[p].event.name[tx[p].step] # None
    /\ Known(entities \union tx[p].wrote, <<"sport", Wanted(p)[2]>>,
             <<"sport", Wanted(p)[2], <<Wanted(p)[2]>>>>)

LEMMA WantsARow ==
    ASSUME CInv, NEW p \in Providers, tx[p] # None, tx[p].step \in Sides, Wanted(p) # None
    PROVE  WantsNamed(p)
<1> DEFINE event == tx[p].event
           all == entities \union tx[p].wrote
<1>1. PICK slug :
        /\ event.wants.sport = <<"sport", slug, <<slug>>>>
        /\ \A side \in Sides :
               \/ event.wants[side] = None
               \/ /\ event.name[side] # None
                  /\ \E kind \in {"league", "team"} : \E key : event.wants[side] = <<kind, slug, key>>
  BY EventsAreEvents DEF CInv, IsEvent
<1>2. Known(all, <<"sport", slug>>, <<"sport", slug, <<slug>>>>)
  <2>1. Known(all, <<"sport", tx[p].links.sport>>, <<"sport", slug, <<slug>>>>)
    BY <1>1 DEF CInv, TxState, SoFar, Sides
  <2>2. PICK r \in all : Identity(r) = <<"sport", slug, <<slug>>>>
    BY <2>1 DEF Known
  <2>3. r.id = <<"sport", slug>>
    BY <2>2, RowsSeen, SportOfId
  <2> QED BY <2>2, <2>3 DEF Known
<1> HIDE DEF all
<1>3. /\ tx[p].event.name[tx[p].step] # None
      /\ \E kind \in {"league", "team"} : \E key : Wanted(p) = <<kind, slug, key>>
  BY <1>1 DEF Wanted
<1>4. PICK kind \in {"league", "team"} : \E key : Wanted(p) = <<kind, slug, key>>
  BY <1>3
<1>5. PICK key : Wanted(p) = <<kind, slug, key>>
  BY <1>4
<1>6. Wanted(p)[1] = kind /\ Wanted(p)[2] = slug /\ Wanted(p)[3] = key
  BY <1>5
<1> QED BY <1>2, <1>3, <1>5, <1>6 DEF WantsNamed, all, Sides

\* Inserted, or updated where it is: either way it is the row of the label.
LEMMA RowGot ==
    ASSUME CInv, NEW p \in Providers, tx[p] # None,
           tx[p].step \in Sides, Wanted(p) # None, HeldBy(p) = {}
    PROVE  Fits(p, GetOrCreate(p)) /\ Identity(GetOrCreate(p)) = Wanted(p)
<1> DEFINE row == GetOrCreate(p)
           own == tx[p].wrote
<1>1. WantsNamed(p)
  BY WantsARow
<1>2. /\ \A r \in entities \union own : IsRow(r) /\ HasSport(entities \union own, r)
      /\ Wrote(p) = own /\ Found(p) \subseteq entities \union own
      /\ \A r \in Found(p) : Identity(r) = Wanted(p)
  BY RowsSeen
<1>3. /\ OneEach(entities) /\ OneEach(own)
      /\ \A q \in Providers : \A v \in Wrote(q), r \in entities : Continues(v, r)
      /\ \A q \in Providers \ {p} : \A v \in Wrote(q) :
             /\ Identity(v) # Wanted(p)
             /\ \A w \in own : Identity(w) # Identity(v) /\ w.id # v.id
  <2>1. OneEach(entities) /\ OneEach(own)
    BY DEF CInv, TxState
  <2>2. \A q \in Providers : \A v \in Wrote(q), r \in entities : Continues(v, r)
    BY DEF CInv, TxState, Wrote
  <2>3. \A q \in Providers \ {p} : \A v \in Wrote(q) : Identity(v) # Wanted(p)
    BY DEF HeldBy
  <2>4. \A q \in Providers \ {p} : \A v \in Wrote(q) :
            \A w \in own : Identity(w) # Identity(v) /\ w.id # v.id
    BY <1>2 DEF CInv, Apart
  <2> QED BY <2>1, <2>2, <2>3, <2>4
<1>4. CASE Found(p) = {}
  <2> DEFINE kind == Wanted(p)[1]
  <2>1. /\ row.kind = kind /\ row.id = FreshId(kind) /\ row.sport = Wanted(p)[2]
        /\ row.key = Wanted(p)[3] /\ row.name = tx[p].event.name[tx[p].step]
        /\ row = Entity(row.kind, row.id, row.sport, row.key, row.name, row.country)
    BY <1>4 DEF GetOrCreate, NewRow, Entity
  <2>2. Identity(row) = Wanted(p)
    BY <1>1, <2>1 DEF Identity, WantsNamed
  <2>3. /\ FreshId(kind)[2] \in Nat /\ FreshId(kind) = <<kind, FreshId(kind)[2]>>
        /\ \A r \in entities : r.id # FreshId(kind)
        /\ \A q \in Providers : \A w \in Wrote(q) : w.id # FreshId(kind)
    BY <1>1, FreshIdIsNew DEF WantsNamed
  <2>4. \A r \in entities \union own : Identity(r) # Wanted(p)
    BY <1>4, NotThere
  <2> HIDE DEF row, kind
  <2>5. IsRow(row)
    BY <1>1, <2>1, <2>3 DEF IsRow, WantsNamed, kind
  <2>6. HasSport(entities \union own \union {row}, row)
    BY <1>1, <2>1 DEF HasSport, Known, WantsNamed
  <2>7. \A r \in entities : Continues(row, r)
    BY <2>1, <2>2, <2>3, <2>4 DEF Continues
  <2>8. \A w \in own : Identity(w) = Identity(row) <=> w.id = row.id
    BY <1>2, <2>1, <2>2, <2>3, <2>4
  <2>9. \A q \in Providers \ {p} : \A v \in Wrote(q) :
            Identity(row) # Identity(v) /\ row.id # v.id
    BY <1>3, <2>1, <2>2, <2>3
  <2> QED BY <2>2, <2>5, <2>6, <2>7, <2>8, <2>9 DEF Fits, row
<1>5. CASE Found(p) # {}
  <2> DEFINE old == CHOOSE r \in Found(p) : TRUE
  <2>1. old \in Found(p)
    BY <1>5
  <2>2. row = [old EXCEPT !.country = IF @ = None THEN tx[p].event.country ELSE @]
    BY <1>5 DEF GetOrCreate
  <2> HIDE DEF row, old
  <2>3. IsRow(old) /\ HasSport(entities \union own, old) /\ Identity(old) = Wanted(p)
    BY <1>2, <2>1
  <2>4. /\ row.kind = old.kind /\ row.id = old.id /\ row.sport = old.sport
        /\ row.key = old.key /\ row.name = old.name
        /\ row.country = old.country \/ old.country = None
        /\ row = Entity(row.kind, row.id, row.sport, row.key, row.name, row.country)
    <3>1. old = Entity(old.kind, old.id, old.sport, old.key, old.name, old.country)
      BY <2>3 DEF IsRow
    <3> QED BY <2>2, <3>1 DEF Entity
  <2>5. Identity(row) = Identity(old) /\ Identity(row) = Wanted(p)
    BY <2>3, <2>4 DEF Identity
  <2>6. IsRow(row)
    BY <2>3, <2>4 DEF IsRow
  <2>7. HasSport(entities \union own \union {row}, row)
    BY <2>3, <2>4 DEF HasSport, Known
  <2>8. ASSUME NEW r \in entities PROVE Continues(row, r)
    <3>1. CASE old \in own
      <4>1. Continues(old, r)
        BY <1>2, <1>3, <3>1
      <4> QED BY <2>4, <2>5, <4>1 DEF Continues
    <3>2. CASE old \in entities
      <4>1. Identity(old) = Identity(r) \/ old.id = r.id => old = r
        BY <1>3, <3>2 DEF OneEach
      <4> QED BY <2>4, <2>5, <4>1 DEF Continues
    <3> QED BY <1>2, <2>1, <3>1, <3>2
  <2>9. ASSUME NEW w \in own PROVE Identity(w) = Identity(row) <=> w.id = row.id
    <3>1. CASE old \in own
      BY <1>3, <2>4, <2>5, <3>1 DEF OneEach
    <3>2. CASE old \in entities
      <4>1. Continues(w, old)
        BY <1>2, <1>3, <3>2
      <4> QED BY <2>4, <2>5, <4>1 DEF Continues
    <3> QED BY <1>2, <2>1, <3>1, <3>2
  <2>10. ASSUME NEW q \in Providers \ {p}, NEW v \in Wrote(q)
         PROVE  Identity(row) # Identity(v) /\ row.id # v.id
    <3>1. Identity(row) # Identity(v)
      BY <1>3, <2>5
    <3>2. CASE old \in own
      BY <1>3, <2>4, <3>1, <3>2
    <3>3. CASE old \in entities
      BY <1>3, <2>4, <2>5, <3>1, <3>3 DEF Continues
    <3> QED BY <1>2, <2>1, <3>1, <3>2, <3>3
  <2> QED BY <2>5, <2>6, <2>7, <2>8, <2>9, <2>10 DEF Fits, row
<1> QED BY <1>4, <1>5

\* A sport is inserted by its slug.
LEMMA SportMade ==
    ASSUME CInv, NEW p \in Providers, InTx(p, "sport"), Found(p) = {}, HeldBy(p) = {}
    PROVE  LET slug == Wanted(p)[2]
               row == Entity("sport", <<"sport", slug>>, slug, <<slug>>, SportTitle(slug), None)
           IN  Fits(p, row)
<1> DEFINE slug == Wanted(p)[2]
           row == Entity("sport", <<"sport", slug>>, slug, <<slug>>, SportTitle(slug), None)
           own == tx[p].wrote
<1>1. tx[p] # None /\ tx[p].step = "sport"
  BY DEF InTx
<1>2. /\ Wanted(p) = <<"sport", slug, <<slug>>>>
      /\ None \notin {<<"sport", slug>>, SportTitle(slug)}
  BY <1>1, EventsAreEvents DEF CInv, IsEvent, Wanted
<1>3. /\ row.kind = "sport" /\ row.id = <<"sport", slug>> /\ row.sport = slug
      /\ row.key = <<slug>> /\ row.name = SportTitle(slug)
      /\ row = Entity(row.kind, row.id, row.sport, row.key, row.name, row.country)
  BY DEF Entity
<1>4. Wrote(p) = own /\ \A r \in entities \union own : IsRow(r)
  BY <1>1, RowsSeen
<1>5. \A q \in Providers \ {p} : \A v \in Wrote(q) : IsRow(v) /\ Identity(v) # Wanted(p)
  <2>1. \A q \in Providers \ {p} : \A v \in Wrote(q) : IsRow(v)
    BY DEF CInv, TxState, Wrote
  <2> QED BY <2>1 DEF HeldBy
<1>6. \A r \in entities \union own : Identity(r) # Wanted(p)
  BY <1>1, NotThere
<1> HIDE DEF slug, row
<1>7. IsRow(row)
  BY <1>2, <1>3 DEF IsRow
<1>8. Identity(row) = Wanted(p)
  BY <1>2, <1>3 DEF Identity
<1>9. \A r \in entities \union own : r.id # row.id
  BY <1>2, <1>3, <1>4, <1>6, SportOfId
<1>10. \A q \in Providers \ {p} : \A v \in Wrote(q) : row.id # v.id
  BY <1>2, <1>3, <1>5, SportOfId
<1>11. HasSport(entities \union own \union {row}, row)
  BY <1>2, <1>3, <1>8 DEF HasSport, Known
<1>12. \A r \in entities : Continues(row, r)
  BY <1>6, <1>8, <1>9 DEF Continues
<1> QED BY <1>5, <1>6, <1>7, <1>8, <1>9, <1>10, <1>11, <1>12 DEF Fits, slug, row

-----------------------------------------------------------------------------
(* Steps of a transaction                                                  *)

\* A step of one transaction that leaves the tables alone keeps the invariant
\* if its new state does: another row written by no other transaction, and what
\* the links found is there.
LEMMA OnlyItsOwn ==
    ASSUME CInv, NEW p \in Providers, NEW t, tx' = [tx EXCEPT ![p] = t],
           UNCHANGED <<entities, history, current>>,
           t # None => /\ t.event \in Events[p] /\ TxState(t, entities)
                       /\ \A q \in Providers \ {p} : \A w \in t.wrote, v \in Wrote(q) :
                              Identity(w) # Identity(v) /\ w.id # v.id
    PROVE  CInv'
<1>1. tx' = [q \in Providers |-> tx'[q]] /\ tx'[p] = t
      /\ \A q \in Providers \ {p} : tx'[q] = tx[q]
  BY DEF CInv
<1>2. (/\ IsFiniteSet(entities) /\ OneEach(entities)
       /\ \A r \in entities : IsRow(r) /\ HasSport(entities, r))'
  BY DEF CInv, OneEach, IsRow, HasSport, Known, Identity, Entity
<1>3. ASSUME NEW q \in Providers, tx'[q] # None
      PROVE  (tx[q].event \in Events[q] /\ TxState(tx[q], entities))'
  <2>1. tx'[q].event \in Events[q] /\ TxState(tx'[q], entities)
    BY <1>1, <1>3 DEF CInv
  <2> QED BY <2>1
<1>4. Apart'
  <2>1. SUFFICES ASSUME NEW q \in Providers, NEW r \in Providers, q # r,
                        NEW w \in Wrote(q)', NEW v \in Wrote(r)'
                 PROVE  Identity(w) # Identity(v) /\ w.id # v.id
    BY DEF Apart, Identity
  <2>2. \A s \in Providers \ {p} : Wrote(s)' = Wrote(s)
    BY <1>1 DEF Wrote
  <2>3. Wrote(p)' = IF t = None THEN {} ELSE t.wrote
    BY <1>1 DEF Wrote
  <2>4. CASE q = p
    BY <2>1, <2>2, <2>3, <2>4
  <2>5. CASE r = p
    <3>1. Identity(v) # Identity(w) /\ v.id # w.id
      BY <2>1, <2>2, <2>3, <2>5
    <3> QED BY <3>1
  <2>6. CASE q # p /\ r # p
    BY <2>1, <2>2, <2>6 DEF CInv, Apart
  <2> QED BY <2>4, <2>5, <2>6
<1>5. (\A c \in current : CurrentState(c))'
  BY DEF CInv, CurrentState
<1> QED BY <1>1, <1>2, <1>3, <1>4, <1>5 DEF CInv

\* What is known stays known, to the transactions too.
LEMMA MoreKnown ==
    ASSUME NEW rows, NEW more,
           \A id, identity : Known(rows, id, identity) => Known(more, id, identity)
    PROVE  /\ \A r : HasSport(rows, r) => HasSport(more, r)
           /\ \A t : SoFar(t, rows) => SoFar(t, more)
           /\ \A links, wants : LinksFound(rows, links, wants) => LinksFound(more, links, wants)
<1>1. \A r : HasSport(rows, r) => HasSport(more, r)
  BY DEF HasSport
<1>2. ASSUME NEW t, SoFar(t, rows) PROVE SoFar(t, more)
  BY <1>2 DEF SoFar, Linked
<1>3. ASSUME NEW links, NEW wants, LinksFound(rows, links, wants)
      PROVE  LinksFound(more, links, wants)
  BY <1>3 DEF LinksFound, Linked
<1> QED BY <1>1, <1>2, <1>3

\* The state of a transaction after it has written a row that fits, in place of
\* the one it had of that id.
LEMMA RowWritten ==
    ASSUME CInv, NEW p \in Providers, tx[p] # None, NEW row, Fits(p, row), NEW t,
           t = [event |-> tx[p].event, step |-> t.step,
                wrote |-> {w \in tx[p].wrote : w.id # row.id} \union {row},
                maps |-> t.maps, links |-> t.links],
           t.step \in Steps,
           t.links = [sport |-> t.links.sport, league |-> t.links.league,
                      home |-> t.links.home, away |-> t.links.away],
           SoFar(t, entities \union tx[p].wrote \union {row})
    PROVE  /\ t.event \in Events[p] /\ TxState(t, entities)
           /\ \A q \in Providers \ {p} : \A w \in t.wrote, v \in Wrote(q) :
                  Identity(w) # Identity(v) /\ w.id # v.id
<1> DEFINE own == tx[p].wrote
           kept == {w \in own : w.id # row.id}
           all == entities \union own
<1>1. t.event = tx[p].event /\ t.wrote = kept \union {row}
  OBVIOUS
<1>2. /\ \A w \in own : Identity(w) = Identity(row) <=> w.id = row.id
      /\ \A r \in entities : Continues(row, r)
      /\ IsRow(row) /\ HasSport(all \union {row}, row)
      /\ \A q \in Providers \ {p} : \A v \in Wrote(q) : Identity(row) # Identity(v) /\ row.id # v.id
  BY DEF Fits
<1>3. /\ tx[p].event \in Events[p] /\ IsFiniteSet(own) /\ OneEach(own)
      /\ \A w \in own : IsRow(w) /\ HasSport(all, w)
      /\ \A w \in own, r \in entities : Continues(w, r)
      /\ \A q \in Providers \ {p} : \A w \in own, v \in Wrote(q) :
             Identity(w) # Identity(v) /\ w.id # v.id
  <2>1. /\ tx[p].event \in Events[p] /\ IsFiniteSet(own) /\ OneEach(own)
        /\ \A w \in own : IsRow(w) /\ HasSport(all, w)
        /\ \A w \in own, r \in entities : Continues(w, r)
    BY DEF CInv, TxState
  <2>2. Wrote(p) = own
    BY DEF Wrote
  <2>3. \A q \in Providers \ {p} : \A w \in own, v \in Wrote(q) :
             Identity(w) # Identity(v) /\ w.id # v.id
    BY <2>2 DEF CInv, Apart
  <2> QED BY <2>1, <2>3
<1>4. ASSUME NEW id, NEW identity, Known(all \union {row}, id, identity)
      PROVE  Known(entities \union t.wrote, id, identity)
  <2>1. PICK r \in all \union {row} : r.id = id /\ Identity(r) = identity
    BY <1>4 DEF Known
  <2>2. CASE r \in entities \union {row} \union kept
    BY <1>1, <2>1, <2>2 DEF Known
  <2>3. CASE r \in own /\ r.id = row.id
    <3>1. row.id = id /\ Identity(row) = identity
      BY <1>2, <2>1, <2>3
    <3> QED BY <1>1, <3>1 DEF Known
  <2> QED BY <2>1, <2>2, <2>3
<1>5. SoFar(t, entities \union t.wrote)
  <2> HIDE DEF all
  <2>1. SoFar(t, all \union {row})
    BY DEF all
  <2> QED BY <1>4, <2>1, MoreKnown
<1>6. \A w \in t.wrote : IsRow(w) /\ HasSport(entities \union t.wrote, w)
  <2>1. ASSUME NEW w \in t.wrote PROVE HasSport(all \union {row}, w)
    <3>1. CASE w = row
      BY <1>2, <3>1
    <3>2. CASE w \in own
      BY <1>3, <3>2 DEF HasSport, Known
    <3> QED BY <1>1, <3>1, <3>2
  <2>2. ASSUME NEW w \in t.wrote PROVE IsRow(w)
    BY <1>1, <1>2, <1>3
  <2> HIDE DEF all
  <2> QED BY <1>4, <2>1, <2>2 DEF HasSport
<1>7. OneEach(t.wrote)
  <2> SUFFICES ASSUME NEW r \in t.wrote, NEW s \in t.wrote,
                      Identity(r) = Identity(s) \/ r.id = s.id
               PROVE  r = s
    BY DEF OneEach
  <2>1. CASE r \in own /\ s \in own
    BY <1>3, <2>1 DEF OneEach
  <2>2. CASE r = row /\ s \in kept
    BY <1>2, <2>2
  <2>3. CASE r \in kept /\ s = row
    BY <1>2, <2>3
  <2> QED BY <1>1, <2>1, <2>2, <2>3
<1>8. \A w \in t.wrote, r \in entities : Continues(w, r)
  BY <1>1, <1>2, <1>3
<1>9. IsFiniteSet(t.wrote)
  <2>1. IsFiniteSet(kept)
    BY <1>3, FS_Subset
  <2>2. IsFiniteSet(kept \union {row})
    <3> HIDE DEF kept
    <3> QED BY <2>1, FS_AddElement
  <2> QED BY <1>1, <2>2
<1>10. \A q \in Providers \ {p} : \A w \in t.wrote, v \in Wrote(q) :
           Identity(w) # Identity(v) /\ w.id # v.id
  BY <1>1, <1>2, <1>3
<1>11. t = [event |-> t.event,
            step |-> t.step, wrote |-> t.wrote, maps |-> t.maps, links |-> t.links]
  BY Zenon
<1> QED BY <1>1, <1>3, <1>5, <1>6, <1>7, <1>8, <1>9, <1>10, <1>11 DEF TxState

\* The same of a step that writes no row.
LEMMA NothingWritten ==
    ASSUME CInv, NEW p \in Providers, tx[p] # None, NEW t,
           t = [event |-> tx[p].event, step |-> t.step, wrote |-> tx[p].wrote,
                maps |-> t.maps, links |-> t.links],
           t.step \in Steps,
           t.links = [sport |-> t.links.sport, league |-> t.links.league,
                      home |-> t.links.home, away |-> t.links.away],
           SoFar(t, entities \union tx[p].wrote)
    PROVE  /\ t.event \in Events[p] /\ TxState(t, entities)
           /\ \A q \in Providers \ {p} : \A w \in t.wrote, v \in Wrote(q) :
                  Identity(w) # Identity(v) /\ w.id # v.id
<1>1. t.event = tx[p].event /\ t.wrote = tx[p].wrote
  OBVIOUS
<1>2. t = [event |-> t.event,
           step |-> t.step, wrote |-> t.wrote, maps |-> t.maps, links |-> t.links]
  BY Zenon
<1>3. Wrote(p) = tx[p].wrote
  BY DEF Wrote
<1>4. TxState(tx[p], entities) /\ tx[p].event \in Events[p]
  BY DEF CInv
<1>5. TxState(t, entities)
  BY <1>1, <1>2, <1>4 DEF TxState
<1> QED BY <1>1, <1>3, <1>4, <1>5 DEF CInv, Apart

\* The state that Writes leaves.
LEMMA WritesState ==
    ASSUME CInv, NEW p \in Providers, tx[p] # None,
           NEW rs, NEW links, NEW mapped, NEW next,
           Writes(p, rs, links, mapped, next)
    PROVE  \E t : /\ tx' = [tx EXCEPT ![p] = t]
                  /\ t = [event |-> tx[p].event, step |-> t.step, wrote |-> t.wrote,
                          maps |-> t.maps, links |-> t.links]
                  /\ t.wrote = {w \in tx[p].wrote : \A r \in rs : w.id # r.id} \union rs
                  /\ t.step = next /\ t.links = links
<1> DEFINE old == tx[p]
           t == [event |-> old.event, step |-> next, links |-> links,
                 wrote |-> {w \in old.wrote : \A r \in rs : w.id # r.id} \union rs,
                 maps |-> {m \in old.maps : \A n \in mapped : m.source # n.source} \union mapped]
<1>1. tx' = [tx EXCEPT ![p] = t]
  BY DEF Writes
<1>2. /\ t = [event |-> tx[p].event, step |-> t.step, wrote |-> t.wrote,
              maps |-> t.maps, links |-> t.links]
      /\ t.wrote = {w \in tx[p].wrote : \A r \in rs : w.id # r.id} \union rs
      /\ t.step = next /\ t.links = links
  OBVIOUS
<1> HIDE DEF t
<1> QED BY <1>1, <1>2

-----------------------------------------------------------------------------
(* The actions                                                             *)

LEMMA BeginKeeps ==
    ASSUME CInv, NEW p \in Providers, NEW event \in Events[p], Begin(p, event) PROVE CInv'
<1> DEFINE t == [event |-> event, step |-> "sport", wrote |-> {}, maps |-> {}, links |-> NoLinks]
<1>1. tx' = [tx EXCEPT ![p] = t] /\ UNCHANGED <<entities, history, current>>
  BY DEF Begin
<1>2. TxState(t, entities)
  BY FS_EmptySet DEF TxState, Steps, NoLinks, OneEach, SoFar
<1>3. t.event = event /\ t.wrote = {}
  OBVIOUS
<1> HIDE DEF t
<1> QED BY <1>1, <1>2, <1>3, OnlyItsOwn

LEMMA ResolveSportKeeps ==
    ASSUME CInv, NEW p \in Providers, ResolveSport(p) PROVE CInv'
<1> DEFINE slug == Wanted(p)[2]
           row == Entity("sport", <<"sport", slug>>, slug, <<slug>>, SportTitle(slug), None)
           rs == IF Found(p) # {} THEN {} ELSE {row}
           links == [NoLinks EXCEPT !.sport = slug]
           own == tx[p].wrote
<1>1. /\ InTx(p, "sport")
      /\ Found(p) # {} \/ HeldBy(p) = {}
      /\ Writes(p, rs, links, {MapRow(p, "sport", tx[p].event.source.sport, slug)}, "league")
      /\ UNCHANGED <<entities, history, current>>
  BY DEF ResolveSport
<1>2. tx[p] # None /\ tx[p].step = "sport"
  BY <1>1 DEF InTx
<1>3. PICK t : /\ tx' = [tx EXCEPT ![p] = t]
               /\ t = [event |-> tx[p].event, step |-> t.step, wrote |-> t.wrote,
                       maps |-> t.maps, links |-> t.links]
               /\ t.wrote = {w \in own : \A r \in rs : w.id # r.id} \union rs
               /\ t.step = "league" /\ t.links = links
  <2> HIDE DEF rs, links, slug
  <2> QED BY <1>1, <1>2, WritesState
<1>4. Wanted(p) = <<"sport", slug, <<slug>>>> /\ tx[p].event.wants.sport = Wanted(p)
  BY <1>2, EventsAreEvents DEF CInv, IsEvent, Wanted
<1>5. t.event = tx[p].event
  BY <1>3
<1>6. t.links = [sport |-> t.links.sport, league |-> t.links.league,
                 home |-> t.links.home, away |-> t.links.away]
      /\ t.links.sport = slug /\ t.links.league = None
      /\ t.links.home = None /\ t.links.away = None
  BY <1>3 DEF NoLinks
<1>7. t.step \in Steps /\ t.step = "league"
  BY <1>3 DEF Steps
<1>8. ASSUME NEW rows, Known(rows, <<"sport", slug>>, <<"sport", slug, <<slug>>>>)
      PROVE  SoFar(t, rows)
  BY <1>4, <1>5, <1>6, <1>7, <1>8 DEF SoFar
<1> HIDE DEF slug
<1>9. CASE Found(p) # {}
  <2>1. PICK r \in Found(p) : TRUE
    BY <1>9
  <2>2. r \in entities \union own /\ IsRow(r) /\ Identity(r) = <<"sport", slug, <<slug>>>>
    BY <1>2, <1>4, <2>1, RowsSeen
  <2>3. Known(entities \union own, <<"sport", slug>>, <<"sport", slug, <<slug>>>>)
    BY <2>2, SportOfId DEF Known
  <2>4. SoFar(t, entities \union own)
    BY <1>8, <2>3
  <2>5. t.wrote = own
    BY <1>3, <1>9
  <2> HIDE DEF links
  <2>6. t = [event |-> tx[p].event,
             step |-> t.step, wrote |-> own, maps |-> t.maps, links |-> t.links]
    BY <1>3, <2>5
  <2>7. /\ t.event \in Events[p] /\ TxState(t, entities)
        /\ \A q \in Providers \ {p} : \A w \in t.wrote, v \in Wrote(q) :
               Identity(w) # Identity(v) /\ w.id # v.id
    BY <1>2, <1>6, <1>7, <2>4, <2>6, NothingWritten
  <2> QED BY <1>1, <1>3, <2>7, OnlyItsOwn
<1>10. CASE Found(p) = {}
  <2>1. Fits(p, row)
    BY <1>1, <1>10, SportMade DEF slug
  <2>2. row.id = <<"sport", slug>> /\ Identity(row) = <<"sport", slug, <<slug>>>>
    BY DEF Entity, Identity
  <2>3. Known(entities \union own \union {row}, <<"sport", slug>>, <<"sport", slug, <<slug>>>>)
    BY <2>2 DEF Known
  <2>4. SoFar(t, entities \union own \union {row})
    <3> HIDE DEF row
    <3> QED BY <1>8, <2>3
  <2>5. t.wrote = {w \in own : w.id # row.id} \union {row}
    BY <1>3, <1>10
  <2> HIDE DEF links, row
  <2>6. t = [event |-> tx[p].event, step |-> t.step,
             wrote |-> {w \in own : w.id # row.id} \union {row}, maps |-> t.maps, links |-> t.links]
    BY <1>3, <2>5
  <2>7. /\ t.event \in Events[p] /\ TxState(t, entities)
        /\ \A q \in Providers \ {p} : \A w \in t.wrote, v \in Wrote(q) :
               Identity(w) # Identity(v) /\ w.id # v.id
    BY <1>2, <1>6, <1>7, <2>1, <2>4, <2>6, RowWritten
  <2> QED BY <1>1, <1>3, <2>7, OnlyItsOwn
<1> QED BY <1>9, <1>10

Following(side) == IF side = "league" THEN "home" ELSE IF side = "home" THEN "away" ELSE "line"

\* A row of a label is got or created and its link kept.
LEMMA LinkKeeps ==
    ASSUME CInv, NEW p \in Providers, tx[p] # None, HeldBy(p) = {},
           NEW side \in Sides, tx[p].step = side, Wanted(p) # None,
           NEW mapped, NEW next, next = Following(side),
           Writes(p, {GetOrCreate(p)}, [tx[p].links EXCEPT ![side] = GetOrCreate(p).id],
                  mapped, next),
           UNCHANGED <<entities, history, current>>
    PROVE  CInv'
<1> DEFINE row == GetOrCreate(p)
           own == tx[p].wrote
           links == [tx[p].links EXCEPT ![side] = row.id]
<1> USE DEF Sides, Following
<1>1. Fits(p, row) /\ Identity(row) = tx[p].event.wants[side]
  BY RowGot DEF Wanted
<1> HIDE DEF row
<1>2. PICK t : /\ tx' = [tx EXCEPT ![p] = t]
               /\ t = [event |-> tx[p].event, step |-> t.step, wrote |-> t.wrote,
                       maps |-> t.maps, links |-> t.links]
               /\ t.wrote = {w \in own : \A r \in {row} : w.id # r.id} \union {row}
               /\ t.step = next /\ t.links = links
  <2>1. Writes(p, {row}, links, mapped, next)
    BY DEF row
  <2> HIDE DEF links
  <2> QED BY <2>1, WritesState
<1>3. t.wrote = {w \in own : w.id # row.id} \union {row}
  BY <1>2
<1>4. t.event = tx[p].event /\ t.step \in Steps
  BY <1>2 DEF Steps
<1>5. tx[p].links = [sport |-> tx[p].links.sport, league |-> tx[p].links.league,
                     home |-> tx[p].links.home, away |-> tx[p].links.away]
  BY DEF CInv, TxState
<1>6. /\ t.links = [sport |-> t.links.sport, league |-> t.links.league,
                    home |-> t.links.home, away |-> t.links.away]
      /\ t.links[side] = row.id
      /\ \A other \in {"sport", "league", "home", "away"} \ {side} :
             t.links[other] = tx[p].links[other]
  <2>1. CASE side = "league"
    BY <1>2, <1>5, <2>1
  <2>2. CASE side = "home"
    BY <1>2, <1>5, <2>2
  <2>3. CASE side = "away"
    BY <1>2, <1>5, <2>3
  <2> QED BY <2>1, <2>2, <2>3
<1> HIDE DEF links
<1>7. SoFar(t, entities \union own \union {row})
  <2> DEFINE rows == entities \union own \union {row}
             wants == tx[p].event.wants
  <2> SUFFICES SoFar(t, rows)
    OBVIOUS
  <2>1. \A id, identity : Known(entities \union own, id, identity) => Known(rows, id, identity)
    BY DEF Known
  <2>2. Linked(rows, row.id, wants[side])
    BY <1>1 DEF Known, Linked, Wanted
  <2>3. SoFar(tx[p], entities \union own)
    BY DEF CInv, TxState
  <2>4. SoFar(tx[p], rows)
    <3> HIDE DEF rows
    <3> QED BY <2>1, <2>3, MoreKnown
  <2> HIDE DEF rows
  <2>5. CASE side = "league"
    <3>1. /\ t.links.sport = tx[p].links.sport /\ t.links.league = row.id
          /\ t.links.home = tx[p].links.home /\ t.links.away = tx[p].links.away
      BY <1>6, <2>5
    <3>2. t.step = "home" /\ Linked(rows, row.id, wants.league)
      BY <1>2, <2>2, <2>5
    <3> QED BY <1>4, <2>4, <2>5, <3>1, <3>2 DEF SoFar
  <2>6. CASE side = "home"
    <3>1. /\ t.links.sport = tx[p].links.sport /\ t.links.league = tx[p].links.league
          /\ t.links.home = row.id /\ t.links.away = tx[p].links.away
      BY <1>6, <2>6
    <3>2. t.step = "away" /\ Linked(rows, row.id, wants.home)
      BY <1>2, <2>2, <2>6
    <3> QED BY <1>4, <2>4, <2>6, <3>1, <3>2 DEF SoFar
  <2>7. CASE side = "away"
    <3>1. /\ t.links.sport = tx[p].links.sport /\ t.links.league = tx[p].links.league
          /\ t.links.home = tx[p].links.home /\ t.links.away = row.id
      BY <1>6, <2>7
    <3>2. t.step = "line" /\ Linked(rows, row.id, wants.away)
      BY <1>2, <2>2, <2>7
    <3> QED BY <1>4, <2>4, <2>7, <3>1, <3>2 DEF SoFar
  <2> QED BY <2>5, <2>6, <2>7
<1>8. t = [event |-> tx[p].event, step |-> t.step,
           wrote |-> {w \in own : w.id # row.id} \union {row}, maps |-> t.maps, links |-> t.links]
  BY <1>2, <1>3
<1>9. /\ t.event \in Events[p] /\ TxState(t, entities)
      /\ \A q \in Providers \ {p} : \A w \in t.wrote, v \in Wrote(q) :
             Identity(w) # Identity(v) /\ w.id # v.id
  BY <1>1, <1>4, <1>6, <1>7, <1>8, RowWritten
<1> QED BY <1>2, <1>9, OnlyItsOwn

\* A label that the quote leaves out keeps its link empty.
LEMMA LeftOutKeeps ==
    ASSUME CInv, NEW p \in Providers, tx[p] # None,
           NEW side \in Sides, tx[p].step = side, Wanted(p) = None,
           NEW next, next = Following(side), Writes(p, {}, tx[p].links, {}, next),
           UNCHANGED <<entities, history, current>>
    PROVE  CInv'
<1> USE DEF Sides, Following
<1>1. PICK t : /\ tx' = [tx EXCEPT ![p] = t]
               /\ t = [event |-> tx[p].event, step |-> t.step, wrote |-> t.wrote,
                       maps |-> t.maps, links |-> t.links]
               /\ t.wrote = {w \in tx[p].wrote : \A r \in {} : w.id # r.id} \union {}
               /\ t.step = next /\ t.links = tx[p].links
  BY WritesState
<1>2. t.wrote = tx[p].wrote /\ t.event = tx[p].event /\ t.step \in Steps
  BY <1>1 DEF Steps
<1>3. SoFar(tx[p], entities \union tx[p].wrote) /\ TxState(tx[p], entities)
  BY DEF CInv, TxState
<1>4. SoFar(t, entities \union tx[p].wrote)
  <2> DEFINE rows == entities \union tx[p].wrote
             wants == tx[p].event.wants
  <2>1. wants[side] = None
    BY DEF Wanted
  <2>2. CASE side = "league"
    <3>1. tx[p].links.league = None /\ wants.league = None
      BY <1>3, <2>1, <2>2 DEF SoFar
    <3>2. Linked(rows, t.links.league, t.event.wants.league)
      BY <1>1, <1>2, <3>1 DEF Linked
    <3> QED BY <1>1, <1>2, <1>3, <2>2, <3>1, <3>2 DEF SoFar
  <2>3. CASE side = "home"
    <3>1. tx[p].links.home = None /\ wants.home = None
      BY <1>3, <2>1, <2>3 DEF SoFar
    <3>2. Linked(rows, t.links.home, t.event.wants.home)
      BY <1>1, <1>2, <3>1 DEF Linked
    <3> QED BY <1>1, <1>2, <1>3, <2>3, <3>1, <3>2 DEF SoFar
  <2>4. CASE side = "away"
    <3>1. tx[p].links.away = None /\ wants.away = None
      BY <1>3, <2>1, <2>4 DEF SoFar
    <3>2. Linked(rows, t.links.away, t.event.wants.away)
      BY <1>1, <1>2, <3>1 DEF Linked
    <3> QED BY <1>1, <1>2, <1>3, <2>4, <3>1, <3>2 DEF SoFar
  <2> QED BY <2>2, <2>3, <2>4
<1>5. t.links = [sport |-> t.links.sport, league |-> t.links.league,
                 home |-> t.links.home, away |-> t.links.away]
  BY <1>1, <1>3 DEF TxState
<1>6. t = [event |-> tx[p].event, step |-> t.step, wrote |-> tx[p].wrote,
           maps |-> t.maps, links |-> t.links]
  BY <1>1, <1>2
<1>7. /\ t.event \in Events[p] /\ TxState(t, entities)
      /\ \A q \in Providers \ {p} : \A w \in t.wrote, v \in Wrote(q) :
             Identity(w) # Identity(v) /\ w.id # v.id
  BY <1>2, <1>4, <1>5, <1>6, NothingWritten
<1> QED BY <1>1, <1>7, OnlyItsOwn

LEMMA ResolveLeagueKeeps ==
    ASSUME CInv, NEW p \in Providers, ResolveLeague(p) PROVE CInv'
<1>1. /\ InTx(p, "league") /\ UNCHANGED <<entities, history, current>>
      /\ "league" \in Sides /\ Following("league") = "home"
  BY DEF ResolveLeague, Sides, Following
<1>2. tx[p] # None /\ tx[p].step = "league"
  BY <1>1 DEF InTx
<1>3. CASE Wanted(p) = None
  <2>1. Writes(p, {}, tx[p].links, {}, "home")
    BY <1>3 DEF ResolveLeague
  <2> QED BY <1>1, <1>2, <1>3, <2>1, LeftOutKeeps
<1>4. CASE Wanted(p) # None
  <2>1. /\ HeldBy(p) = {}
        /\ Writes(p, {GetOrCreate(p)}, [tx[p].links EXCEPT !["league"] = GetOrCreate(p).id],
                  {MapRow(p, "league", tx[p].event.source.league, GetOrCreate(p).id)}, "home")
    BY <1>4 DEF ResolveLeague
  <2> QED BY <1>1, <1>2, <1>4, <2>1, LinkKeeps
<1> QED BY <1>3, <1>4

LEMMA ResolveTeamKeeps ==
    ASSUME CInv, NEW p \in Providers, NEW side \in {"home", "away"}, NEW next,
           next = IF side = "home" THEN "away" ELSE "line", ResolveTeam(p, side, next)
    PROVE  CInv'
<1> DEFINE mapped == {MapRow(p, "team", IF tx[p].event.source[side] \in Blank THEN GetOrCreate(p).key
                                        ELSE tx[p].event.source[side], GetOrCreate(p).id)}
<1>1. /\ InTx(p, side) /\ UNCHANGED <<entities, history, current>>
      /\ side \in Sides /\ next = Following(side)
  BY DEF ResolveTeam, Sides, Following
<1>2. tx[p] # None /\ tx[p].step = side
  BY <1>1 DEF InTx
<1>3. CASE Wanted(p) = None
  <2>1. Writes(p, {}, tx[p].links, {}, next)
    BY <1>3 DEF ResolveTeam
  <2> HIDE DEF mapped
  <2> QED BY <1>1, <1>2, <1>3, <2>1, LeftOutKeeps
<1>4. CASE Wanted(p) # None
  <2>1. /\ HeldBy(p) = {}
        /\ Writes(p, {GetOrCreate(p)}, [tx[p].links EXCEPT ![side] = GetOrCreate(p).id],
                  mapped, next)
    BY <1>4 DEF ResolveTeam
  <2> HIDE DEF mapped
  <2> QED BY <1>1, <1>2, <1>4, <2>1, LinkKeeps
<1> QED BY <1>3, <1>4

\* The commit puts what was written in the place of what it was made of.
LEMMA CommitKeeps ==
    ASSUME CInv, NEW p \in Providers, Commit(p) PROVE CInv'
<1> DEFINE own == tx[p].wrote
           seen == Visible(p)
           all == entities \union own
<1>1. /\ tx[p] # None /\ tx[p].step = "line"
      /\ entities' = seen /\ tx' = [tx EXCEPT ![p] = None]
      /\ history' = history \union {LineOf(p)}
      /\ current' = (current \ RowsOf(tx[p].event.eventId)) \union {RowFor(p)}
  BY DEF Commit, InTx
<1>2. seen = {r \in entities : \A w \in own : w.id # r.id} \union own
  BY <1>1 DEF Visible, Wrote
<1>3. /\ tx[p].event \in Events[p] /\ TxState(tx[p], entities)
      /\ IsFiniteSet(entities) /\ OneEach(entities)
      /\ \A r \in entities : IsRow(r) /\ HasSport(entities, r)
  BY <1>1 DEF CInv
<1>4. /\ IsFiniteSet(own) /\ OneEach(own) /\ SoFar(tx[p], all)
      /\ \A w \in own : IsRow(w) /\ HasSport(all, w)
      /\ \A w \in own, r \in entities : Continues(w, r)
  BY <1>3 DEF TxState
<1> HIDE DEF seen
<1>5. ASSUME NEW more, NEW id, NEW identity, Known(all \union more, id, identity)
      PROVE  Known(seen \union more, id, identity)
  <2>1. PICK r \in all \union more : r.id = id /\ Identity(r) = identity
    BY <1>5 DEF Known
  <2>2. CASE r \in seen \union more
    BY <2>1, <2>2 DEF Known
  <2>3. CASE r \notin seen \union more
    <3>1. PICK w \in own : r \in entities /\ w.id = r.id
      BY <1>2, <2>1, <2>3
    <3>2. Continues(w, r)
      BY <1>4, <3>1
    <3>3. w \in seen /\ w.id = id /\ Identity(w) = identity
      BY <1>2, <2>1, <3>1, <3>2 DEF Continues
    <3> QED BY <3>3 DEF Known
  <2> QED BY <2>2, <2>3
<1>6. \A id, identity : Known(all, id, identity) => Known(seen, id, identity)
  <2>1. all \union {} = all /\ seen \union {} = seen
    OBVIOUS
  <2> HIDE DEF all
  <2> QED BY <1>5, <2>1
<1>7. \A id, identity : Known(entities, id, identity) => Known(seen, id, identity)
  <2>1. \A id, identity : Known(entities, id, identity) => Known(all, id, identity)
    BY DEF Known
  <2> QED BY <1>6, <2>1
<1>8. \A r \in seen : IsRow(r) /\ HasSport(seen, r)
  <2>1. \A r : HasSport(all, r) => HasSport(seen, r)
    <3> HIDE DEF all
    <3> QED BY <1>6, MoreKnown
  <2>2. \A r : HasSport(entities, r) => HasSport(seen, r)
    BY <1>7, MoreKnown
  <2> QED BY <1>2, <1>3, <1>4, <2>1, <2>2
<1>9. OneEach(seen)
  <2> SUFFICES ASSUME NEW r \in seen, NEW s \in seen, Identity(r) = Identity(s) \/ r.id = s.id
               PROVE  r = s
    BY DEF OneEach
  <2>1. CASE r \in own /\ s \in own
    BY <1>4, <2>1 DEF OneEach
  <2>2. CASE r \in entities /\ s \in entities
    BY <1>3, <2>2 DEF OneEach
  <2>3. ASSUME NEW w \in own, NEW e \in entities, \A v \in own : v.id # e.id
        PROVE  Identity(w) # Identity(e) /\ w.id # e.id
    BY <1>4, <2>3 DEF Continues
  <2> QED BY <1>2, <2>1, <2>2, <2>3
<1>10. IsFiniteSet(seen)
  <2>1. IsFiniteSet({r \in entities : \A w \in own : w.id # r.id})
    BY <1>3, FS_Subset
  <2> HIDE DEF own
  <2> QED BY <1>2, <1>4, <2>1, FS_Union
<1>11. /\ tx' = [q \in Providers |-> tx'[q]] /\ tx'[p] = None
       /\ \A q \in Providers \ {p} : tx'[q] = tx[q]
  BY <1>1 DEF CInv
<1>12. ASSUME NEW q \in Providers, tx'[q] # None
       PROVE  tx'[q].event \in Events[q] /\ TxState(tx'[q], seen)
  <2> DEFINE t == tx[q]
  <2>1. q # p /\ tx'[q] = t /\ t # None
    BY <1>11, <1>12
  <2>2. t.event \in Events[q] /\ TxState(t, entities)
    BY <2>1 DEF CInv
  <2>3. Wrote(q) = t.wrote /\ Wrote(p) = own
    BY <1>1, <2>1 DEF Wrote
  <2>4. \A w \in t.wrote, v \in own : Identity(w) # Identity(v) /\ w.id # v.id
    BY <2>1, <2>3 DEF CInv, Apart
  <2>5. \A w \in t.wrote, r \in seen : Continues(w, r)
    <3>1. \A w \in t.wrote, r \in entities : Continues(w, r)
      BY <2>2 DEF TxState
    <3> HIDE DEF t, own
    <3> QED BY <1>2, <2>4, <3>1 DEF Continues
  <2>6. \A id, identity : Known(entities \union t.wrote, id, identity)
                              => Known(seen \union t.wrote, id, identity)
    <3>1. \A id, identity : Known(entities \union t.wrote, id, identity)
                                => Known(all \union t.wrote, id, identity)
      BY DEF Known
    <3> HIDE DEF t, all
    <3> QED BY <1>5, <3>1
  <2>7. /\ SoFar(t, entities \union t.wrote) => SoFar(t, seen \union t.wrote)
        /\ \A r : HasSport(entities \union t.wrote, r) => HasSport(seen \union t.wrote, r)
    <3> HIDE DEF t
    <3> QED BY <2>6, MoreKnown
  <2>8. TxState(t, seen)
    <3> HIDE DEF t
    <3> QED BY <2>2, <2>5, <2>7 DEF TxState
  <2> QED BY <2>1, <2>2, <2>8
<1>13. Apart'
  <2>1. Wrote(p)' = {} /\ \A q \in Providers \ {p} : Wrote(q)' = Wrote(q)
    BY <1>11 DEF Wrote
  <2> QED BY <2>1 DEF CInv, Apart, Identity
<1>14. \A c \in current' : CurrentState(c)'
  <2>1. ASSUME NEW c \in current PROVE CurrentState(c)'
    <3>1. CurrentState(c)
      BY DEF CInv
    <3>2. PICK q \in Providers : \E event \in Events[q] :
              event.eventId = c.eventId /\ LinksFound(entities, c.links, event.wants)
      BY <3>1 DEF CurrentState
    <3>3. PICK event \in Events[q] :
              event.eventId = c.eventId /\ LinksFound(entities, c.links, event.wants)
      BY <3>2
    <3>4. LinksFound(seen, c.links, event.wants)
      BY <1>7, <3>3, MoreKnown
    <3>5. LinksFound(entities', c.links, event.wants) /\ history \subseteq history'
      BY <1>1, <3>4
    <3> QED BY <3>1, <3>3, <3>5 DEF CurrentState
  <2>2. ASSUME NEW c, c = RowFor(p) PROVE CurrentState(c)'
    <3>1. PICK h \in history' : h = LineOf(p)
      BY <1>1
    <3>2. /\ h.eventId = tx[p].event.eventId /\ h.links = tx[p].links
          /\ c.eventId = h.eventId /\ c.odds = h.odds /\ c.updatedAt = h.updatedAt /\ c.links = h.links
          /\ c = [eventId |-> c.eventId, odds |-> c.odds, updatedAt |-> c.updatedAt,
                  links |-> c.links, commenceTime |-> c.commenceTime, outcome |-> c.outcome]
      BY <2>2, <3>1 DEF LineOf, RowFor
    <3>3. LinksFound(seen, tx[p].links, tx[p].event.wants)
      <4>1. SoFar(tx[p], seen)
        <5> HIDE DEF all
        <5> QED BY <1>4, <1>6, MoreKnown
      <4> QED BY <1>1, <4>1 DEF SoFar, LinksFound
    <3>4. PICK event \in Events[p] : event = tx[p].event
      BY <1>3
    <3>5. LinksFound(entities', c.links, event.wants) /\ event.eventId = c.eventId
      BY <1>1, <3>2, <3>3, <3>4
    <3> QED BY <3>1, <3>2, <3>5 DEF CurrentState
  <2> QED BY <1>1, <2>1, <2>2
<1> QED BY <1>1, <1>8, <1>9, <1>10, <1>11, <1>12, <1>13, <1>14 DEF CInv

LEMMA AbortKeeps ==
    ASSUME CInv, NEW p \in Providers, Abort(p) PROVE CInv'
<1>1. tx' = [tx EXCEPT ![p] = None] /\ UNCHANGED <<entities, history, current>>
  BY DEF Abort
<1> QED BY <1>1, OnlyItsOwn

LEMMA CrashKeeps ==
    ASSUME CInv, Crash PROVE CInv'
<1>1. tx' = [p \in Providers |-> None] /\ UNCHANGED <<entities, history, current>>
  BY DEF Crash
<1>2. \A p \in Providers : tx'[p] = None /\ Wrote(p)' = {}
  BY <1>1 DEF Wrote
<1>3. (/\ IsFiniteSet(entities) /\ OneEach(entities)
       /\ \A r \in entities : IsRow(r) /\ HasSport(entities, r))'
  BY <1>1 DEF CInv
<1>4. tx' = [q \in Providers |-> tx'[q]]
  BY <1>1
<1>5. Apart'
  BY <1>2 DEF Apart
<1>6. (\A c \in current : CurrentState(c))'
  BY <1>1 DEF CInv, CurrentState
<1> QED BY <1>2, <1>3, <1>4, <1>5, <1>6 DEF CInv

\* A result changes the outcome of a row, which no link depends on.
LEMMA PollResultKeeps ==
    ASSUME CInv, NEW p \in Providers, NEW result \in Results[p], PollResult(p, result) PROVE CInv'
<1>1. PICK c \in current :
          /\ current' = (current \ {c}) \union {[c EXCEPT !.outcome = result.outcome]}
          /\ UNCHANGED <<entities, history, tx>>
  BY DEF PollResult, RowsOf
<1>2. (/\ IsFiniteSet(entities) /\ OneEach(entities)
       /\ \A r \in entities : IsRow(r) /\ HasSport(entities, r))'
  BY <1>1 DEF CInv
<1>3. (\A q \in Providers :
           tx[q] # None => tx[q].event \in Events[q] /\ TxState(tx[q], entities))'
  BY <1>1 DEF CInv
<1>4. tx' = [q \in Providers |-> tx'[q]]
  BY <1>1 DEF CInv
<1>5. Apart'
  BY <1>1 DEF CInv, Apart, Wrote
<1>6. ASSUME NEW d \in current' PROVE CurrentState(d)'
  <2>1. CASE d \in current
    BY <1>1, <2>1 DEF CInv, CurrentState
  <2>2. CASE d = [c EXCEPT !.outcome = result.outcome]
    <3>1. CurrentState(c)
      BY DEF CInv
    <3>2. c = [eventId |-> c.eventId, odds |-> c.odds, updatedAt |-> c.updatedAt,
               links |-> c.links, commenceTime |-> c.commenceTime, outcome |-> c.outcome]
      BY <3>1 DEF CurrentState
    <3>3. /\ d = [eventId |-> d.eventId, odds |-> d.odds, updatedAt |-> d.updatedAt,
                  links |-> d.links, commenceTime |-> d.commenceTime, outcome |-> d.outcome]
          /\ d.eventId = c.eventId /\ d.odds = c.odds /\ d.updatedAt = c.updatedAt /\ d.links = c.links
      BY <2>2, <3>2
    <3> QED BY <1>1, <3>1, <3>3 DEF CurrentState
  <2> QED BY <1>1, <2>1, <2>2
<1> QED BY <1>2, <1>3, <1>4, <1>5, <1>6 DEF CInv

LEMMA UnchangedKeeps ==
    ASSUME CInv, UNCHANGED vars PROVE CInv'
<1>1. (/\ IsFiniteSet(entities) /\ OneEach(entities)
       /\ \A r \in entities : IsRow(r) /\ HasSport(entities, r))'
  BY DEF CInv, vars
<1>2. (\A q \in Providers :
           tx[q] # None => tx[q].event \in Events[q] /\ TxState(tx[q], entities))'
  BY DEF CInv, vars
<1>3. (tx = [q \in Providers |-> tx[q]] /\ Apart)'
  BY DEF CInv, Apart, Wrote, vars
<1>4. (\A c \in current : CurrentState(c))'
  BY DEF CInv, CurrentState, vars
<1> QED BY <1>1, <1>2, <1>3, <1>4 DEF CInv

-----------------------------------------------------------------------------
(* The invariant and what it says                                          *)

\* Rows have one id and one identity each, a transaction's rows continue the
\* committed ones and meet no other transaction's, and its links were found.
THEOREM Invariance == Spec => []CInv
<1>1. Init => CInv
  <2> SUFFICES ASSUME Init PROVE CInv
    OBVIOUS
  <2>1. \A p \in Providers : tx[p] = None /\ Wrote(p) = {}
    BY DEF Init, Wrote
  <2>2. IsFiniteSet(entities)
    BY FS_EmptySet DEF Init
  <2>3. entities = {} /\ current = {} /\ tx = [p \in Providers |-> tx[p]]
    BY DEF Init
  <2> QED BY <2>1, <2>2, <2>3 DEF CInv, OneEach, Apart
<1>2. CInv /\ [Next]_vars => CInv'
  <2> SUFFICES ASSUME CInv, [Next]_vars PROVE CInv'
    OBVIOUS
  <2>1. ASSUME NEW p \in Providers, NEW event \in Events[p], Begin(p, event) PROVE CInv'
    BY <2>1, BeginKeeps
  <2>2. ASSUME NEW p \in Providers, ResolveSport(p) PROVE CInv'
    BY <2>2, ResolveSportKeeps
  <2>3. ASSUME NEW p \in Providers, ResolveLeague(p) PROVE CInv'
    BY <2>3, ResolveLeagueKeeps
  <2>4. ASSUME NEW p \in Providers, ResolveTeam(p, "home", "away") PROVE CInv'
    BY <2>4, ResolveTeamKeeps
  <2>5. ASSUME NEW p \in Providers, ResolveTeam(p, "away", "line") PROVE CInv'
    BY <2>5, ResolveTeamKeeps
  <2>6. ASSUME NEW p \in Providers, Commit(p) PROVE CInv'
    BY <2>6, CommitKeeps
  <2>7. ASSUME NEW p \in Providers, RecordFails(p) \/ DeadlockDetected(p) PROVE CInv'
    BY <2>7, AbortKeeps DEF RecordFails, DeadlockDetected
  <2>8. ASSUME NEW p \in Providers, NEW result \in Results[p], PollResult(p, result) PROVE CInv'
    BY <2>8, PollResultKeeps
  <2>9. CASE Crash
    BY <2>9, CrashKeeps
  <2>10. CASE UNCHANGED vars
    BY <2>10, UnchangedKeeps
  <2> QED BY <2>1, <2>2, <2>3, <2>4, <2>5, <2>6, <2>7, <2>8, <2>9, <2>10 DEF Next, TxStep
<1> QED BY <1>1, <1>2, PTL DEF Spec

\* Whichever provider comes first, or both at once: labels that reduce to one
\* key in one sport have one row, and ids are of one row (entities.ts).
THEOREM OneRow == Spec => []OneRowPerIdentity
<1>1. CInv => OneRowPerIdentity
  BY DEF CInv, OneEach, OneRowPerIdentity
<1> QED BY <1>1, Invariance, PTL

\* No step takes a row away, gives it another name or makes it lose its country:
\* the upsert of getOrCreate fills a missing country in and keeps the rest.
THEOREM FirstSeenStays == Spec => FirstSeenKept
<1> DEFINE Kept == \A r \in entities : \E s \in entities' :
               /\ [s EXCEPT !.country = None] = [r EXCEPT !.country = None]
               /\ s.country = r.country \/ r.country = None
<1>1. CInv /\ [Next]_vars => [Kept]_vars
  <2> SUFFICES ASSUME CInv, Next, NEW r \in entities
               PROVE  \E s \in entities' :
                          /\ [s EXCEPT !.country = None] = [r EXCEPT !.country = None]
                          /\ s.country = r.country \/ r.country = None
    OBVIOUS
  <2>1. CASE r \in entities'
    BY <2>1
  <2>2. CASE r \notin entities'
    <3>1. PICK p \in Providers : Commit(p)
      <4>1. \/ \E p \in Providers : Commit(p)
            \/ entities' = entities
        BY DEF Next, TxStep, Begin, ResolveSport, ResolveLeague, ResolveTeam, RecordFails,
               DeadlockDetected, Abort, PollResult, Crash
      <4> QED BY <2>2, <4>1
    <3>2. PICK w \in tx[p].wrote : w \in entities' /\ w.id = r.id
      BY <2>2, <3>1 DEF Commit, InTx, Visible, Wrote
    <3>3. IsRow(w) /\ IsRow(r) /\ Continues(w, r)
      BY <3>1 DEF CInv, TxState, Commit, InTx
    <3>4. /\ w.kind = r.kind /\ w.sport = r.sport /\ w.key = r.key /\ w.name = r.name
          /\ w.country = r.country \/ r.country = None
      BY <3>2, <3>3 DEF Continues, Identity
    <3>5. [w EXCEPT !.country = None] = [r EXCEPT !.country = None]
      <4>1. /\ w = [kind |-> w.kind, id |-> w.id, sport |-> w.sport, key |-> w.key,
                    name |-> w.name, country |-> w.country]
            /\ r = [kind |-> r.kind, id |-> r.id, sport |-> r.sport, key |-> r.key,
                    name |-> r.name, country |-> r.country]
        BY <3>3 DEF IsRow, Entity
      <4>2. /\ [w EXCEPT !.country = None] = [kind |-> w.kind, id |-> w.id, sport |-> w.sport,
                   key |-> w.key, name |-> w.name, country |-> None]
            /\ [r EXCEPT !.country = None] = [kind |-> r.kind, id |-> r.id, sport |-> r.sport,
                   key |-> r.key, name |-> r.name, country |-> None]
        BY <4>1
      <4> QED BY <3>2, <3>4, <4>2
    <3> QED BY <3>2, <3>4, <3>5
  <2> QED BY <2>1, <2>2
<1> QED BY <1>1, Invariance, PTL DEF Spec, FirstSeenKept

-----------------------------------------------------------------------------
(* Links                                                                   *)

\* No row has None for its id.
LEMMA IdsAreThere ==
    ASSUME CInv, NEW r \in entities PROVE r.id # None
<1>1. IsRow(r)
  BY DEF CInv
<1>2. CASE r.kind \in {"league", "team"}
  <2>1. r.id = <<r.kind, r.id[2]>> /\ r.id[2] \in Nat
    BY <1>1, <1>2 DEF IsRow
  <2>2. r.id \in {"league", "team"} \X Nat
    BY <1>2, <2>1
  <2> QED BY <2>2, NoneAssumption
<1> QED BY <1>1, <1>2 DEF IsRow

\* A label that the quote leaves out has no link, and the link of another one
\* leads to the row it asks for.
LEMMA LinkLeads ==
    ASSUME CInv, NEW c \in current, NEW event, LinksFound(entities, c.links, event.wants),
           IsEvent(event)
    PROVE  /\ \E r \in entities : r.id = <<"sport", c.links.sport>>
           /\ \A side \in Sides :
                  IF event.wants[side] = None THEN c.links[side] = None
                  ELSE \E r \in entities : r.id = c.links[side]
           /\ \A side \in Sides, r \in entities :
                  r.id = c.links[side] =>
                      /\ event.wants[side] # None
                      /\ Identity(r) = event.wants[side] /\ r.sport = c.links.sport
<1> DEFINE links == c.links
           wants == event.wants
<1>1. PICK slug :
        /\ wants.sport = <<"sport", slug, <<slug>>>>
        /\ \A side \in Sides : wants[side] = None \/ \E key, kind : wants[side] = <<kind, slug, key>>
  BY DEF IsEvent
<1>2. PICK sport \in entities :
          sport.id = <<"sport", links.sport>> /\ Identity(sport) = wants.sport
  BY DEF LinksFound, Known
<1>3. links.sport = slug
  <2>1. sport.id = <<"sport", slug>>
    BY <1>1, <1>2, SportOfId DEF CInv
  <2> QED BY <1>2, <2>1
<1>4. ASSUME NEW side \in Sides PROVE Linked(entities, links[side], wants[side])
  BY <1>4 DEF LinksFound, Sides
<1>5. ASSUME NEW side \in Sides, NEW r \in entities, r.id = links[side]
      PROVE  wants[side] # None /\ Identity(r) = wants[side] /\ r.sport = links.sport
  <2>1. r.id # None
    BY IdsAreThere
  <2>2. wants[side] # None
    BY <1>4, <1>5, <2>1 DEF Linked
  <2>3. PICK s \in entities : s.id = links[side] /\ Identity(s) = wants[side]
    BY <1>4, <2>2 DEF Known, Linked
  <2>4. s = r
    BY <1>5, <2>3 DEF CInv, OneEach
  <2>5. PICK key, kind : wants[side] = <<kind, slug, key>>
    BY <1>1, <2>2
  <2> QED BY <1>3, <2>2, <2>3, <2>4, <2>5 DEF Identity
<1>6. ASSUME NEW side \in Sides
      PROVE  IF wants[side] = None THEN links[side] = None
             ELSE \E r \in entities : r.id = links[side]
  BY <1>4 DEF Known, Linked
<1> QED BY <1>2, <1>5, <1>6

\* A row's name is read by its id.
LEMMA NamesOfRows ==
    ASSUME CInv, NEW r \in entities PROVE NameOf(r.id) # None
<1> DEFINE found == {s \in entities : s.id = r.id}
<1>1. found = {r}
  BY DEF CInv, OneEach
<1>2. NameOf(r.id) = r.name
  BY <1>1 DEF NameOf
<1> QED BY <1>2 DEF CInv, IsRow

\* Nothing has the name None, and nothing is read where there is no link.
LEMMA NamesOfLinks ==
    ASSUME CInv, NEW c \in current, NEW event, LinksFound(entities, c.links, event.wants),
           IsEvent(event), NEW side \in Sides
    PROVE  /\ NameOf(c.links[side]) = None <=> event.wants[side] = None
           /\ c.links[side] = None <=> event.wants[side] = None
<1>1. CASE event.wants[side] = None
  <2>1. c.links[side] = None
    BY <1>1, LinkLeads
  <2>2. {r \in entities : r.id = None} = {}
    BY IdsAreThere
  <2> QED BY <1>1, <2>1, <2>2 DEF NameOf
<1>2. CASE event.wants[side] # None
  <2>1. PICK r \in entities : r.id = c.links[side]
    BY <1>2, LinkLeads
  <2> QED BY <1>2, <2>1, IdsAreThere, NamesOfRows
<1> QED BY <1>1, <1>2

LEMMA LinksHang == CInv => LinksAgree
<1> SUFFICES ASSUME CInv PROVE LinksAgree
  OBVIOUS
<1>1. ASSUME NEW c \in current
      PROVE  \E p \in Providers : \E event \in Events[p] :
                 /\ event.eventId = c.eventId
                 /\ LinksFound(entities, c.links, event.wants) /\ IsEvent(event)
  BY EventsAreEvents DEF CInv, CurrentState
<1>2. ASSUME NEW c \in current
      PROVE  \A r \in entities : r.id = c.links.league => r.sport = c.links.sport
  <2>1. PICK event : IsEvent(event) /\ LinksFound(entities, c.links, event.wants)
    BY <1>1
  <2>2. \A side \in Sides, r \in entities : r.id = c.links[side] => r.sport = c.links.sport
    BY <2>1, LinkLeads
  <2> QED BY <2>2 DEF Sides
<1>3. ASSUME NEW c \in current
      PROVE  /\ Response(c).sportName # None
             /\ Response(c).leagueId = None <=> Response(c).leagueName = None
             /\ \E p \in Providers : \E event \in Events[p] :
                    /\ event.eventId = c.eventId
                    /\ \A side \in Sides :
                           /\ Names(c)[side] = None <=> event.wants[side] = None
                           /\ \A r \in entities : r.id = c.links[side] =>
                                  Identity(r) = event.wants[side] /\ r.sport = c.links.sport
  <2>1. PICK p \in Providers : \E event \in Events[p] :
            /\ event.eventId = c.eventId
            /\ LinksFound(entities, c.links, event.wants) /\ IsEvent(event)
    BY <1>1
  <2>2. PICK event \in Events[p] :
            /\ event.eventId = c.eventId
            /\ LinksFound(entities, c.links, event.wants) /\ IsEvent(event)
    BY <2>1
  <2>3. /\ Response(c).sportName = NameOf(<<"sport", c.links.sport>>)
        /\ Response(c).leagueId = c.links.league
        /\ Response(c).leagueName = NameOf(c.links.league)
        /\ Response(c).homeTeamName = NameOf(c.links.home)
        /\ Response(c).awayTeamName = NameOf(c.links.away)
    BY DEF Response, ToEvent
  <2>4. ASSUME NEW side \in Sides PROVE Names(c)[side] = NameOf(c.links[side])
    <3>1. CASE side = "league"
      BY <2>3, <3>1 DEF Names
    <3>2. CASE side = "home"
      BY <2>3, <3>2 DEF Names
    <3>3. CASE side = "away"
      BY <2>3, <3>3 DEF Names
    <3> QED BY <3>1, <3>2, <3>3 DEF Sides
  <2>5. NameOf(<<"sport", c.links.sport>>) # None
    <3>1. PICK r \in entities : r.id = <<"sport", c.links.sport>>
      BY <2>2, LinkLeads
    <3> QED BY <3>1, NamesOfRows
  <2>6. \A side \in Sides : /\ NameOf(c.links[side]) = None <=> event.wants[side] = None
                            /\ c.links[side] = None <=> event.wants[side] = None
    BY <2>2, NamesOfLinks
  <2>7. NameOf(c.links.league) = None <=> c.links.league = None
    BY <2>6 DEF Sides
  <2>8. \A side \in Sides, r \in entities : r.id = c.links[side] =>
            Identity(r) = event.wants[side] /\ r.sport = c.links.sport
    BY <2>2, LinkLeads
  <2> QED BY <2>2, <2>3, <2>4, <2>5, <2>6, <2>7, <2>8
<1>4. ASSUME NEW l \in ListLeagues(None)
      PROVE  /\ l \in ListLeagues(l.sportSlug)
             /\ \E s \in ListSports : s.slug = l.sportSlug
             /\ ListCurrent(None, l.id) = ListCurrent(l.sportSlug, l.id)
  <2>1. PICK r \in entities : r.kind = "league" /\ l = [id |-> r.id, name |-> r.name, sportSlug |-> r.sport]
    BY DEF ListLeagues
  <2>2. l.id = r.id /\ l.sportSlug = r.sport
    BY <2>1
  <2>3. l \in ListLeagues(l.sportSlug)
    BY <2>1, <2>2 DEF ListLeagues
  <2>4. \E s \in ListSports : s.slug = l.sportSlug
    <3>1. PICK s \in entities : Identity(s) = <<"sport", r.sport, <<r.sport>>>>
      BY DEF CInv, HasSport, Known
    <3>2. s.kind = "sport" /\ s.sport = r.sport
      BY <3>1 DEF Identity
    <3>3. [slug |-> s.sport, name |-> s.name] \in ListSports
      BY <3>2 DEF ListSports
    <3> QED BY <2>2, <3>2, <3>3
  <2>5. r.id # None
    BY IdsAreThere
  <2>6. \A c \in current : c.links.league = r.id => c.links.sport = r.sport
    BY <1>2
  <2> QED BY <2>2, <2>3, <2>4, <2>5, <2>6 DEF ListCurrent
<1>5. ASSUME NEW c \in current
      PROVE  \E h \in history : h.eventId = c.eventId /\ h.updatedAt = c.updatedAt
                                /\ h.links = c.links /\ h.odds = c.odds
  BY DEF CInv, CurrentState
<1> QED BY <1>3, <1>4, <1>5 DEF LinksAgree, Sides

\* What is read of an event hangs together: the line is one of its history, its
\* league and sides have a name just when a quote gave one, and then lead to the
\* row of that label in the sport of the event (resolveTeam, toEvent), and a
\* league's events are the same with and without its sport (listCurrent).
THEOREM LinksAlwaysAgree == Spec => []LinksAgree
BY Invariance, LinksHang, PTL

\* If match keys tell clubs apart, the links do: no order of the providers'
\* transactions splits a club in two or joins two.
THEOREM LabelsAlwaysMeet ==
    ASSUME KeysTellClubs
    PROVE  Spec => []LabelsMeet
<1>1. CInv => LabelsMeet
  <2> SUFFICES ASSUME CInv, NEW c \in current, NEW d \in current,
                      NEW side \in {"home", "away"}, NEW other \in {"home", "away"},
                      None \notin {c.links[side], d.links[other]}
               PROVE  Club[<<c.eventId, side>>] = Club[<<d.eventId, other>>]
                          <=> c.links[side] = d.links[other]
    BY DEF LabelsMeet
  <2>1. PICK p \in Providers : \E event \in Events[p] :
            event.eventId = c.eventId /\ LinksFound(entities, c.links, event.wants)
    BY DEF CInv, CurrentState
  <2>2. PICK e \in Events[p] :
            e.eventId = c.eventId /\ LinksFound(entities, c.links, e.wants)
    BY <2>1
  <2>3. PICK q \in Providers : \E event \in Events[q] :
            event.eventId = d.eventId /\ LinksFound(entities, d.links, event.wants)
    BY DEF CInv, CurrentState
  <2>4. PICK f \in Events[q] :
            f.eventId = d.eventId /\ LinksFound(entities, d.links, f.wants)
    BY <2>3
  <2> USE DEF Sides
  <2>5. e.wants[side] # None /\ f.wants[other] # None
    BY <2>2, <2>4, LinkLeads, EventsAreEvents
  <2>6. Club[<<c.eventId, side>>] = Club[<<d.eventId, other>>] <=> e.wants[side] = f.wants[other]
    <3>1. \A g \in Events[p], h \in Events[q], one, two \in {"home", "away"} :
              None \notin {g.wants[one], h.wants[two]} =>
                  (Club[<<g.eventId, one>>] = Club[<<h.eventId, two>>]
                       <=> g.wants[one] = h.wants[two])
      BY Zenon DEF KeysTellClubs
    <3>2. \A one, two \in {"home", "away"} :
              None \notin {e.wants[one], f.wants[two]} =>
                  (Club[<<e.eventId, one>>] = Club[<<f.eventId, two>>]
                       <=> e.wants[one] = f.wants[two])
      BY <3>1, Zenon
    <3>3. Club[<<e.eventId, side>>] = Club[<<f.eventId, other>>] <=> e.wants[side] = f.wants[other]
      BY <2>5, <3>2
    <3> QED BY <2>2, <2>4, <3>3
  <2>7. /\ \E r \in entities : r.id = c.links[side]
        /\ \E s \in entities : s.id = d.links[other]
    BY <2>2, <2>4, <2>5, LinkLeads, EventsAreEvents
  <2>8. PICK r \in entities : r.id = c.links[side]
    BY <2>7
  <2>9. PICK s \in entities : s.id = d.links[other]
    BY <2>7
  <2>10. Identity(r) = e.wants[side] /\ Identity(s) = f.wants[other]
    BY <2>2, <2>4, <2>8, <2>9, LinkLeads, EventsAreEvents
  <2>11. Identity(r) = Identity(s) <=> r.id = s.id
    BY DEF CInv, OneEach
  <2> QED BY <2>6, <2>8, <2>9, <2>10, <2>11
<1> QED BY <1>1, Invariance, PTL

-----------------------------------------------------------------------------
(* Results                                                                 *)

\* Scores read by name are the real ones or none.
LEMMA ScoresAreReal ==
    ASSUME NEW points, HonestReports(points), NEW p \in Providers, p = "theoddsapi",
           NEW raw \in ResultPayloads[p]
    PROVE  GameResult(raw) \in {None, Final[CanonicalId(p, raw.id)]}
<1> DEFINE id == CanonicalId(p, raw.id)
           sideOf(i) == OutcomeFor(raw.scores[i].name, raw.home, raw.away)
           of(side) == {i \in DOMAIN raw.scores : sideOf(i) = side}
           home == raw.scores[Max(of("home"))].score
           away == raw.scores[Max(of("away"))].score
<1>1. /\ Len(raw.scores) \in Nat
      /\ DOMAIN raw.scores = 1..Len(raw.scores)
      /\ raw.completed =>
             /\ Final[id] = Winner(points[id].home, points[id].away)
             /\ \A side \in {"home", "away"}, i \in DOMAIN raw.scores :
                    sideOf(i) = side => raw.scores[i].score \in {Unreadable, points[id][side]}
  BY DEF HonestReports
<1>2. SUFFICES ASSUME GameResult(raw) # None PROVE GameResult(raw) = Final[id]
  OBVIOUS
<1>3. /\ raw.completed
      /\ GameResult(raw) = OutcomeFromScores(raw)
  BY <1>2 DEF GameResult
<1>4. /\ \A i \in of("home") \union of("away") : raw.scores[i].score # Unreadable
      /\ of("home") # {} /\ of("away") # {}
      /\ OutcomeFromScores(raw) = Winner(home, away)
  BY <1>2, <1>3 DEF OutcomeFromScores
<1>5. ASSUME NEW side \in {"home", "away"}
      PROVE  raw.scores[Max(of(side))].score = points[id][side]
  <2>1. of(side) \in SUBSET (1..Len(raw.scores)) /\ of(side) # {}
    BY <1>1, <1>4
  <2> DEFINE i == Max(of(side))
  <2>2. i \in of(side)
    <3> HIDE DEF of
    <3> QED BY <1>1, <2>1, GreatestInInterval
  <2>3. i \in DOMAIN raw.scores /\ sideOf(i) = side
    BY <2>2
  <2>4. raw.scores[i].score # Unreadable
    BY <1>4, <2>2
  <2> HIDE DEF sideOf, i
  <2>5. raw.scores[i].score \in {Unreadable, points[id][side]}
    BY <1>1, <1>3, <2>3
  <2> QED BY <2>4, <2>5 DEF i
<1>6. home = points[id].home /\ away = points[id].away
  <2> HIDE DEF of, id
  <2> QED BY <1>5
<1> QED BY <1>1, <1>3, <1>4, <1>6

\* Flags that are there are those of the end.
LEMMA FlagsAreReal ==
    ASSUME NEW points, HonestReports(points), NEW p \in Providers, p = "apifootball",
           NEW raw \in ResultPayloads[p]
    PROVE  FixtureResult(raw) \in {None, Final[CanonicalId(p, raw.id)]}
<1> DEFINE id == CanonicalId(p, raw.id)
<1>1. raw.status \in FinalStatuses =>
          /\ Final[id] \in {"home", "away", "draw"}
          /\ raw.homeWinner # "absent" => (raw.homeWinner = "true" <=> Final[id] = "home")
          /\ raw.awayWinner # "absent" => (raw.awayWinner = "true" <=> Final[id] = "away")
  BY DEF HonestReports
<1>2. SUFFICES ASSUME FixtureResult(raw) # None PROVE FixtureResult(raw) = Final[id]
  OBVIOUS
<1>3. raw.status \in FinalStatuses /\ FixtureResult(raw) = OutcomeFromFixture(raw)
  BY <1>2 DEF FixtureResult
<1>4. raw.homeWinner # "absent" /\ raw.awayWinner # "absent"
  BY <1>2, <1>3 DEF OutcomeFromFixture
<1> HIDE DEF id
<1> QED BY <1>1, <1>3, <1>4 DEF OutcomeFromFixture

\* What the payloads are taken to say is how the events ended, or nothing.
LEMMA ResultsAreReal ==
    ASSUME NEW points, HonestReports(points), NEW p \in Providers, NEW result \in Results[p]
    PROVE  result.outcome \in {None, Final[result.eventId]}
<1>1. PICK raw \in ResultPayloads[p] :
          result = [eventId |-> CanonicalId(p, raw.id), outcome |-> ResultOf(raw)]
  BY DEF Results
<1>2. raw.origin = p /\ p \in {"apifootball", "theoddsapi"}
  BY CatalogAssumption
<1>3. result.eventId = CanonicalId(p, raw.id) /\ result.outcome = ResultOf(raw)
  BY <1>1
<1>4. CASE p = "theoddsapi"
  <2>1. ResultOf(raw) = GameResult(raw)
    BY <1>2, <1>4 DEF ResultOf
  <2> QED BY <1>3, <1>4, <2>1, ScoresAreReal
<1>5. CASE p = "apifootball"
  <2>1. ResultOf(raw) = FixtureResult(raw)
    BY <1>2, <1>5 DEF ResultOf
  <2> QED BY <1>3, <1>5, <2>1, FlagsAreReal
<1> QED BY <1>2, <1>4, <1>5

\* "A malformed payload must not settle bets" (theoddsapi.provider.ts): reports
\* that are true as far as they go never record anything but the real end,
\* whatever is missing, repeated, unreadable or out of order in them.
THEOREM OnlyRealResultsCount ==
    ASSUME NEW points, HonestReports(points)
    PROVE  Spec => []OnlyRealResults
<1> DEFINE Real == \A c \in current : c.outcome \in {None, Final[c.eventId]}
<1>1. Init => Real
  BY DEF Init
<1>2. Real /\ [Next]_vars => Real'
  <2> SUFFICES ASSUME Real, [Next]_vars, NEW d \in current'
               PROVE  d.outcome \in {None, Final[d.eventId]}
    OBVIOUS
  <2>1. ASSUME NEW p \in Providers, Commit(p) PROVE d.outcome \in {None, Final[d.eventId]}
    <3>1. d \in current \/ d = RowFor(p)
      BY <2>1 DEF Commit
    <3>2. CASE d = RowFor(p)
      <4> DEFINE old == RowsOf(tx[p].event.eventId)
      <4>1. /\ d.eventId = tx[p].event.eventId
            /\ d.outcome = IF old = {} THEN None ELSE (CHOOSE c \in old : TRUE).outcome
        BY <3>2 DEF RowFor, LineOf
      <4>2. CASE old = {}
        BY <4>1, <4>2
      <4>3. CASE old # {}
        <5>1. PICK c \in old : d.outcome = c.outcome
          BY <4>1, <4>3
        <5>2. c \in current /\ c.eventId = d.eventId
          BY <4>1 DEF RowsOf
        <5> QED BY <5>1, <5>2
      <4> QED BY <4>2, <4>3
    <3> QED BY <3>1, <3>2
  <2>2. ASSUME NEW p \in Providers, NEW result \in Results[p], PollResult(p, result)
        PROVE  d.outcome \in {None, Final[d.eventId]}
    <3>1. PICK c \in RowsOf(result.eventId) :
              current' = (current \ {c}) \union {[c EXCEPT !.outcome = result.outcome]}
      BY <2>2 DEF PollResult
    <3>2. CASE d = [c EXCEPT !.outcome = result.outcome]
      <4>1. d.eventId = result.eventId /\ (d.outcome = result.outcome \/ d.outcome = c.outcome)
        BY <3>2 DEF RowsOf
      <4> QED BY <4>1, ResultsAreReal DEF RowsOf
    <3> QED BY <3>1, <3>2
  <2>3. CASE UNCHANGED current
    BY <2>3
  <2>4. \/ UNCHANGED current
        \/ \E p \in Providers : Commit(p) \/ \E result \in Results[p] : PollResult(p, result)
    BY DEF Next, TxStep, Begin, ResolveSport, ResolveLeague, ResolveTeam, RecordFails,
           DeadlockDetected, Abort, Crash, vars
  <2> QED BY <2>1, <2>2, <2>3, <2>4
<1>3. Real => OnlyRealResults
  BY ResultsAreReal DEF OnlyRealResults
<1> QED BY <1>1, <1>2, <1>3, PTL DEF Spec
=============================================================================
