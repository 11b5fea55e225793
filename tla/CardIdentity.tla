---------------------------- MODULE CardIdentity ----------------------------
(***************************************************************************)
(* Which card a provider's listing is about (services/card_identity.py,    *)
(* upsert_external_card and upsert_external_card_stub). Each execution of a*)
(* collection resolves the listings of its pages in one transaction, which *)
(* sees what was committed and what it wrote itself.                       *)
(***************************************************************************)
EXTENDS Naturals, FiniteSets

CONSTANTS Version,     \* player versions of the game
          Face,        \* what providers call a version: name and rating
          Side,        \* its league, club and nation
          FaceOf, SideOf,
          Provider,    \* sources whose listings are collected
          Official,    \* those that give EA resource ids and futbin's ids (FUT-DB)
          ByFutbinId,  \* those whose ids are futbin's (the Parse wrapper)
          Terse,       \* those that do not say league, club and nation
          Stub,        \* those that are never matched with another's card (FUTZIP)
          Page,        \* the versions a collection may come upon
          Ingester,    \* processes that run collections
          MaxCards,    \* bound: cards ever created
          MaxRuns      \* bound: collections begun

ASSUME IdentityAssumption ==
    /\ FaceOf \in [Version -> Face] /\ SideOf \in [Version -> Side]
    /\ "unsaid" \notin Side
    /\ Official \cup ByFutbinId \cup Terse \cup Stub \subseteq Provider
    /\ Official \cap (Terse \cup Stub) = {}  \* FUT-DB says all of it
    /\ "futbin" \notin Provider
    /\ "none" \notin Version
    /\ Page \subseteq SUBSET Version
    /\ MaxCards \in Nat /\ MaxRuns \in Nat

VARIABLES cards,       \* committed cards
          mapped,      \* committed card_source_ids: card of a source's id
          ingest,      \* the collections under way
          overlapped,  \* faces that two collections under way had in common
          collections  \* collections begun so far

identityVars == <<cards, mapped, ingest, overlapped, collections>>

Id     == 1..MaxCards
Source == Provider \cup {"futbin"}
Key    == Source \X Version      \* a source's external id of a version

\* resource is the EA id, named by the version it belongs to.
Card == [face : Face, side : Side \cup {"unsaid"}, resource : Version \cup {"none"}]

Idle == [stage |-> "idle", provider |-> "none", page |-> {}, todo |-> {}, item |-> "none",
         found |-> 0, wrote |-> << >>, linked |-> << >>]

IdentityTypeOK ==
    /\ DOMAIN cards \subseteq Id /\ \A c \in DOMAIN cards : cards[c] \in Card
    /\ DOMAIN mapped \subseteq Key /\ \A k \in DOMAIN mapped : mapped[k] \in DOMAIN cards
    /\ \A w \in Ingester :
          /\ ingest[w].stage \in {"idle", "resolve", "store"}
          /\ ingest[w].provider \in Provider \cup {"none"}
          /\ ingest[w].todo \subseteq ingest[w].page /\ ingest[w].page \subseteq Version
          /\ ingest[w].item \in Version \cup {"none"}
          /\ ingest[w].found \in Id \cup {0}
          /\ DOMAIN ingest[w].wrote \subseteq Id
          /\ \A c \in DOMAIN ingest[w].wrote : ingest[w].wrote[c] \in Card
          /\ DOMAIN ingest[w].linked \subseteq Key
          /\ \A k \in DOMAIN ingest[w].linked : ingest[w].linked[k] \in Id
    /\ overlapped \subseteq Face
    /\ collections \in 0..MaxRuns

IdentityInit ==
    /\ cards = << >>
    /\ mapped = << >>
    /\ ingest = [w \in Ingester |-> Idle]
    /\ overlapped = {}
    /\ collections = 0

-----------------------------------------------------------------------------
Over(new, old) == [x \in DOMAIN new \cup DOMAIN old |-> IF x \in DOMAIN new THEN new[x] ELSE old[x]]

\* What a transaction sees: its own writes before what is committed.
SeenCards(w) == Over(ingest[w].wrote, cards)
SeenMaps(w)  == Over(ingest[w].linked, mapped)

\* What provider p says of version v.
Listing(p, v) ==
    [face     |-> FaceOf[v],
     side     |-> IF p \in Terse \cup Stub THEN "unsaid" ELSE SideOf[v],
     resource |-> IF p \in Official THEN v ELSE "none"]

\* Cards of that name and rating wherever they play (faulty variant of Alike).
AlikeByFace(w, l) == {c \in DOMAIN SeenCards(w) : SeenCards(w)[c].face = l.face}

\* Cards with the name, the rating and whatever else the listing says; a card
\* without a side equals no side that is said.
Alike(w, l) ==
    {c \in DOMAIN SeenCards(w) : /\ SeenCards(w)[c].face = l.face
                                 /\ l.side # "unsaid" => SeenCards(w)[c].side = l.side}

\* The card futbin's own id stands for, known from FUT-DB.
Canonical(w, p, v) ==
    IF p \in ByFutbinId /\ <<"futbin", v>> \in DOMAIN SeenMaps(w)
    THEN SeenMaps(w)[<<"futbin", v>>] ELSE 0

\* resolve_card_for_provider: by the id, by EA's id, by one exact match. 0 is
\* no card.
Resolved(w, p, v) ==
    LET l    == Listing(p, v)
        same == {c \in DOMAIN SeenCards(w) : l.resource # "none" /\ SeenCards(w)[c].resource = l.resource}
    IN  IF <<p, v>> \in DOMAIN SeenMaps(w) THEN SeenMaps(w)[<<p, v>>]
        ELSE IF p \in Stub THEN 0
        ELSE IF same # {} THEN CHOOSE c \in same : TRUE
        ELSE IF Cardinality(Alike(w, l)) = 1 THEN CHOOSE c \in Alike(w, l) : TRUE
        ELSE 0

\* upsert_external_card: what the listing makes of a card's row.
Refreshed(row, l) ==
    [face |-> l.face,
     side |-> IF l.side = "unsaid" THEN row.side ELSE l.side,
     resource |-> IF l.resource = "none" THEN row.resource ELSE l.resource]

-----------------------------------------------------------------------------
BeginIngest(w, p, page) ==
    /\ ingest[w].stage = "idle"
    /\ collections < MaxRuns
    /\ collections' = collections + 1
    /\ ingest' = [ingest EXCEPT ![w] =
                     [Idle EXCEPT !.stage = "resolve", !.provider = p, !.page = page, !.todo = page]]
    /\ LET under == UNION {ingest[v].page : v \in Ingester}
       IN  overlapped' = overlapped \cup ({FaceOf[v] : v \in page} \cap {FaceOf[v] : v \in under})
    /\ UNCHANGED <<cards, mapped>>

Resolve(w, v) ==
    /\ ingest[w].stage = "resolve"
    /\ v \in ingest[w].todo
    /\ LET p == ingest[w].provider
           c == Canonical(w, p, v)
       IN  ingest' = [ingest EXCEPT ![w].stage = "store", ![w].item = v,
                                    ![w].found = IF c # 0 THEN c ELSE Resolved(w, p, v)]
    /\ UNCHANGED <<cards, mapped, overlapped, collections>>

\* Another transaction has written the row or the key and not committed yet.
RowHeld(w, c) == \E v \in Ingester \ {w} : c \in DOMAIN ingest[v].wrote
KeyHeld(w, k) == \E v \in Ingester \ {w} : k \in DOMAIN ingest[v].linked

\* A card has that EA id already, in any transaction.
ResourceTaken(w, c, row) ==
    /\ row.resource # "none"
    /\ \/ \E d \in DOMAIN SeenCards(w) \ {c} : SeenCards(w)[d].resource = row.resource
       \/ \E v \in Ingester \ {w} : \E d \in DOMAIN ingest[v].wrote :
             ingest[v].wrote[d].resource = row.resource

\* The lowest number that no card has, here or in another transaction.
FreeId == LET used == DOMAIN cards \cup UNION {DOMAIN ingest[v].wrote : v \in Ingester}
          IN  {n \in Id \ used : \A m \in Id \ used : n <= m}

\* The ids the item brings along with the card: its own, and futbin's.
KeysOf(p, v) == {<<p, v>>} \cup (IF p \in Official THEN {<<"futbin", v>>} ELSE {})

\* The item found before is stored: a new row or the refreshed one, and a mapping
\* for each id that has none by now. A card known by futbin's id, and a stub
\* that exists, are left as they are.
Store(w) ==
    LET p    == ingest[w].provider
        v    == ingest[w].item
        l    == Listing(p, v)
        keys == {k \in KeysOf(p, v) : k \notin DOMAIN SeenMaps(w)}
    IN  /\ ingest[w].stage = "store"
        /\ \E c \in IF ingest[w].found = 0 THEN FreeId ELSE {ingest[w].found} :
              LET kept == ingest[w].found # 0 /\ (p \in Stub \/ Canonical(w, p, v) = c)
                  row  == IF ingest[w].found = 0 THEN l ELSE Refreshed(SeenCards(w)[c], l)
              IN  /\ \A k \in keys : ~KeyHeld(w, k)
                  /\ kept \/ (~RowHeld(w, c) /\ ~ResourceTaken(w, c, row))
                  /\ ingest' = [ingest EXCEPT
                        ![w].stage = "resolve", ![w].item = "none", ![w].found = 0,
                        ![w].todo = @ \ {v},
                        ![w].wrote = IF kept THEN @ ELSE Over([x \in {c} |-> row], @),
                        ![w].linked = Over([k \in keys |-> c], @)]
        /\ UNCHANGED <<cards, mapped, overlapped, collections>>

\* The Parse pages isolate an item that fails in a savepoint and go on.
SkipItem(w) ==
    /\ ingest[w].stage = "store"
    /\ ingest[w].provider \in ByFutbinId
    /\ ingest' = [ingest EXCEPT ![w].stage = "resolve", ![w].todo = @ \ {ingest[w].item},
                                ![w].item = "none", ![w].found = 0]
    /\ UNCHANGED <<cards, mapped, overlapped, collections>>

CommitIngest(w) ==
    /\ ingest[w].stage = "resolve" /\ ingest[w].todo = {}
    /\ cards' = SeenCards(w)
    /\ mapped' = SeenMaps(w)
    /\ ingest' = [ingest EXCEPT ![w] = Idle]
    /\ UNCHANGED <<overlapped, collections>>

\* The worker is lost; a unique key is violated, or a wait for a row becomes a
\* deadlock: the transaction of the pages, with all their items, is rolled back.
FailIngest(w) ==
    /\ ingest[w].stage # "idle"
    /\ ingest' = [ingest EXCEPT ![w] = Idle]
    /\ UNCHANGED <<cards, mapped, overlapped, collections>>

IdentityNext ==
    \E w \in Ingester :
        \/ \E p \in Provider, page \in Page : BeginIngest(w, p, page)
        \/ \E v \in Version : Resolve(w, v)
        \/ Store(w) \/ SkipItem(w) \/ CommitIngest(w) \/ FailIngest(w)

IdentitySpec == IdentityInit /\ [][IdentityNext]_identityVars

-----------------------------------------------------------------------------
\* Providers that say where a player plays, and are matched with others.
Teller == Provider \ (Terse \cup Stub)

\* Providers that say as much agree on cards, in whatever order their pages come:
\* versions they tell apart by name, rating, league, club or nation are never on
\* one card, and a version is one card for all of them, unless two collections
\* overlapped on the name: what they created then stays apart.
OneCardPerLook ==
    \A j, k \in DOMAIN mapped :
        j[1] \in Teller /\ k[1] \in Teller =>
            /\ mapped[j] = mapped[k] => FaceOf[j[2]] = FaceOf[k[2]] /\ SideOf[j[2]] = SideOf[k[2]]
            /\ j[2] = k[2] /\ FaceOf[j[2]] \notin overlapped => mapped[j] = mapped[k]

\* Different versions of one provider have different cards. (They do not.)
VersionsKeptApart ==
    \A j, k \in DOMAIN mapped : j[1] = k[1] /\ j[2] # k[2] => mapped[j] # mapped[k]

=============================================================================
