-------------------------- MODULE DecantingProofs ---------------------------
(***************************************************************************)
(* Theorems about decanting, for every set of pages, every capacity and    *)
(* every number of guests.  There are three inductive invariants: that of  *)
(* the searches for connected guests (SearchInv), which no other step      *)
(* disturbs; that of the moves (MovesInv); and, on top of both, that the   *)
(* moves follow the function that DecantGuests defines (FollowInv).        *)
(***************************************************************************)
EXTENDS Decanting, PackingLemmas

-----------------------------------------------------------------------------
(* The searches.  What the one under way has reached is queued or dequeued *)
(* already; the guests before guestsBegin are the ones no search starts    *)
(* from any more.                                                          *)
Reached == ToSet(component) \cup ToSet(frontier)

Before == {range[k] : k \in 1 .. begin - 1}

SearchTypes ==
    /\ range \in Seq(Guest) /\ NoneTwice(range)
    /\ begin \in 1 .. Len(range) + 1
    /\ frontier \in Seq(GuestsOf(range))
    /\ component \in Seq(GuestsOf(range))
    /\ discovered \subseteq GuestsOf(range)
    /\ result \in Seq(Seq(GuestsOf(range)))

(* A search is that for the component of the guest at guestsBegin. *)
SearchFromBegin ==
    Search!Searching => begin \in 1 .. Len(range) /\ range[begin] \in Reached

(* No guest is reached twice, by one search or by two. *)
ReachedOnce ==
    /\ NoneTwice(frontier) /\ NoneTwice(component)
    /\ ToSet(frontier) \cap ToSet(component) = {}
    /\ \A i \in DOMAIN result :
          /\ NoneTwice(result[i]) /\ result[i] # <<>>
          /\ ToSet(result[i]) \cap Reached = {}
    /\ \A i, j \in DOMAIN result : i # j => ToSet(result[i]) \cap ToSet(result[j]) = {}

(* What is reached is marked, but for the guest each search starts from;   *)
(* later searches do not look at these.                                    *)
MarkedButFirst ==
    /\ discovered \subseteq Search!Finished \cup Reached
    /\ Search!Finished \subseteq discovered \cup Before
    /\ \A g \in Reached : g \in discovered \/ g = range[begin]
    /\ Before \subseteq Search!Finished

(* All neighbours of a dequeued guest have been reached. *)
NeighboursReached ==
    /\ \A i \in DOMAIN result : IsClosed(ToSet(result[i]), GuestsOf(range))
    /\ \A g \in ToSet(component), h \in GuestsOf(range) :
          GuestsHaveSharedPage(g, h) => h \in Reached

(* And all that is reached by one search is connected: a closed set has    *)
(* all of it or none.                                                      *)
Connected(S) ==
    \A D \in SUBSET GuestsOf(range) :
        IsClosed(D, GuestsOf(range)) => S \subseteq D \/ S \cap D = {}

ReachedConnected ==
    /\ Connected(Reached)
    /\ \A i \in DOMAIN result : Connected(ToSet(result[i]))

SearchInv ==
    /\ SearchTypes
    /\ SearchFromBegin
    /\ ReachedOnce
    /\ MarkedButFirst
    /\ NeighboursReached
    /\ ReachedConnected

-----------------------------------------------------------------------------
(* The moves. *)

HostsKept ==
    /\ GoodHosts(original)
    /\ TrueHosts(hosts) /\ NoGuestTwice(hosts)
    /\ \A i \in DOMAIN hosts : ~IsOverfull(hosts[i])
    /\ PlacedGuests(hosts) = PlacedGuests(original)
    /\ guestCount = Cardinality(PlacedGuests(hosts))
    /\ guestCount \in 0 .. MaxGuests
    /\ Len(hosts) <= Len(original)

StagesFit ==
    /\ pass \in 1 .. 4
    /\ left \in 1 .. Len(hosts) + 1
    /\ right \in left + 1 .. Len(hosts) + 2
    /\ stage \in {"parting", "searching", "moving"}
    /\ stage # "moving" => parts = {} /\ moving = {}
    /\ stage # "parting" => right <= Len(hosts) /\ pass # 4
    /\ stage = "searching" => pass = 2 /\ GuestsOf(range) \subseteq hosts[right].guests

(* The parts, and what is left of the one that moves, are apart and on the *)
(* right host; the rest of that one has room on the left host.             *)
PartsApart ==
    /\ \A part \in parts : part \subseteq hosts[right].guests /\ part \cap moving = {}
    /\ \A part, other \in parts : part # other => part \cap other = {}
    /\ moving # {} => /\ moving \subseteq hosts[right].guests
                      /\ Cardinality(PagesOf(hosts[left].guests \cup moving)) <= Capacity

(* The third pass leaves behind it hosts that refuse what comes later; of  *)
(* the right host, the guests not refused are those still to be tried.     *)
RefusesFrom(i, j) == \A g \in hosts[j].guests : ~AccommodatesGuest(hosts[i], g)

ThirdPassSettles ==
    pass = 3 =>
        /\ \A i, j \in DOMAIN hosts : i < left /\ i < j => RefusesFrom(i, j)
        /\ \A j \in DOMAIN hosts : left < j /\ j < right => RefusesFrom(left, j)
        /\ stage = "moving" =>
              \A g \in hosts[right].guests :
                  \/ ~AccommodatesGuest(hosts[left], g)
                  \/ g \in moving
                  \/ {g} \in parts
        /\ \A part \in parts : part # {} => \E g \in Guest : part = {g}

Settled ==
    pass = 4 => /\ FirstFitStable(hosts)
                /\ \A i \in DOMAIN hosts : hosts[i].guests # {}

StableStays == FirstFitStable(original) => hosts = original /\ moving = {}

MovesInv ==
    /\ HostsKept
    /\ StagesFit
    /\ PartsApart
    /\ ThirdPassSettles
    /\ Settled
    /\ StableStays

-----------------------------------------------------------------------------
(* SearchInv is inductive. *)

LEMMA FinishedMeans ==
    /\ Search!Finished = UNION {ToSet(result[i]) : i \in DOMAIN result}
    /\ Search!Finished' = UNION {ToSet(result'[i]) : i \in DOMAIN result'}
BY DEF Search!Finished, Search!ToSet, ToSet

LEMMA SharedBothWays ==
  ASSUME NEW g, NEW h
  PROVE  GuestsHaveSharedPage(g, h) <=> GuestsHaveSharedPage(h, g)
BY DEF GuestsHaveSharedPage

(* What the types say of positions. *)
LEMMA RangePositions ==
  ASSUME SearchTypes
  PROVE  /\ Len(range) \in Nat /\ begin \in Nat \ {0} /\ begin <= Len(range) + 1
         /\ range \in Seq(GuestsOf(range))
         /\ \A k \in 1 .. Len(range) : range[k] \in Guest /\ range[k] \in GuestsOf(range)
         /\ \A g \in GuestsOf(range) : \E k \in 1 .. Len(range) : g = range[k]
         /\ \A k, l \in 1 .. Len(range) : range[k] = range[l] => k = l
         /\ GuestsOf(range) \subseteq Guest
<1>1. range \in Seq(Guest) /\ Len(range) \in Nat /\ begin \in 1 .. Len(range) + 1
  BY LenProperties DEF SearchTypes
<1>2. \A k \in 1 .. Len(range) : range[k] \in Guest
  BY <1>1, LenProperties
<1>3. range \in [1 .. Len(range) -> GuestsOf(range)]
  BY <1>1, LenProperties DEF GuestsOf
<1>4. range \in Seq(GuestsOf(range))
  BY <1>1, <1>3
<1> QED BY <1>1, <1>2, <1>4 DEF GuestsOf, SearchTypes, NoneTwice

(* No search under way. *)
LEMMA FreshSearch ==
  ASSUME NEW guests \in Seq(Guest), NoneTwice(guests), Search!Begin(guests)
  PROVE  SearchInv'
<1>1. /\ range' = guests /\ begin' = 1 /\ frontier' = <<>> /\ component' = <<>>
      /\ discovered' = {} /\ result' = <<>>
  BY DEF Search!Begin
<1>2. Len(guests) \in Nat /\ DOMAIN <<>> = {} /\ \A S : <<>> \in Seq(S)
  BY LenProperties, EmptySeq
<1>3. ToSet(<<>>) = {} /\ NoneTwice(<<>>)
  BY <1>2 DEF ToSet, NoneTwice
<1>4. Reached' = {} /\ Before' = {} /\ Search!Finished' = {}
  BY <1>1, <1>2, <1>3 DEF Reached, Before, Search!Finished
<1>5. SearchTypes'
  BY <1>1, <1>2 DEF SearchTypes
<1>6. SearchFromBegin'
  BY <1>1 DEF SearchFromBegin, Search!Searching
<1>7. ReachedOnce'
  BY <1>1, <1>2, <1>3 DEF ReachedOnce
<1>8. MarkedButFirst'
  BY <1>1, <1>4 DEF MarkedButFirst
<1>9. NeighboursReached' /\ ReachedConnected'
  BY <1>1, <1>2, <1>3, <1>4 DEF NeighboursReached, ReachedConnected, Connected
<1> QED BY <1>5, <1>6, <1>7, <1>8, <1>9 DEF SearchInv

(* Moving guestsBegin on puts one more guest before it. *)
LEMMA BeforeGrows ==
  ASSUME SearchTypes, begin \in 1 .. Len(range), begin' = begin + 1, range' = range
  PROVE  Before' = Before \cup {range[begin]}
<1>1. begin \in Nat
  BY RangePositions
<1>2. 1 .. (begin + 1) - 1 = (1 .. begin - 1) \cup {begin}
  BY <1>1
<1> QED BY <1>2 DEF Before

LEMMA SkipKeepsSearchInv ==
  ASSUME SearchInv, Search!SkipDiscovered
  PROVE  SearchInv'
<1>1. /\ range' = range /\ frontier' = frontier /\ component' = component
      /\ discovered' = discovered /\ result' = result /\ begin' = begin + 1
      /\ begin \in 1 .. Len(range) /\ range[begin] \in discovered
      /\ frontier = <<>> /\ component = <<>>
  BY RangePositions DEF Search!SkipDiscovered, Search!Done, Search!Searching, SearchInv
<1>2. Reached' = Reached /\ Search!Finished' = Search!Finished /\ Reached = {}
  BY <1>1, EmptySeq DEF Reached, Search!Finished, ToSet
<1>3. Before' = Before \cup {range[begin]}
  BY <1>1, BeforeGrows DEF SearchInv
<1>4. SearchTypes'
  BY <1>1, RangePositions DEF SearchInv, SearchTypes
<1>5. SearchFromBegin'
  BY <1>1 DEF SearchFromBegin, Search!Searching
<1>6. ReachedOnce'
  BY <1>1, <1>2 DEF SearchInv, ReachedOnce
<1>7. MarkedButFirst'
  BY <1>1, <1>2, <1>3 DEF SearchInv, MarkedButFirst
<1>8. NeighboursReached' /\ ReachedConnected'
  BY <1>1, <1>2 DEF SearchInv, NeighboursReached, ReachedConnected, Connected
<1> QED BY <1>4, <1>5, <1>6, <1>7, <1>8 DEF SearchInv

LEMMA StartKeepsSearchInv ==
  ASSUME SearchInv, Search!StartSearch
  PROVE  SearchInv'
<1>1. /\ range' = range /\ frontier' = <<range[begin]>> /\ component' = component
      /\ discovered' = discovered /\ result' = result /\ begin' = begin
      /\ begin \in 1 .. Len(range) /\ range[begin] \notin discovered
      /\ frontier = <<>> /\ component = <<>>
  BY RangePositions DEF Search!StartSearch, Search!Done, Search!Searching, SearchInv
<1> DEFINE first == range[begin]
<1>2. /\ Before' = Before /\ Search!Finished' = Search!Finished
      /\ Reached = {} /\ Reached' = {first} /\ ToSet(component) = {} /\ ToSet(frontier') = {first}
  BY <1>1, EmptySeq DEF Reached, Before, Search!Finished, ToSet
<1>3. first \in GuestsOf(range)
  BY <1>1, RangePositions DEF SearchInv
<1>4. first \notin Search!Finished
  <2>1. ASSUME NEW k \in 1 .. begin - 1 PROVE first # range[k]
    <3>1. begin \in Nat \ {0} /\ begin <= Len(range) + 1 /\ Len(range) \in Nat
      BY RangePositions DEF SearchInv
    <3>2. k \in 1 .. Len(range) /\ k # begin
      BY <1>1, <3>1
    <3> QED BY <1>1, <3>2, RangePositions DEF SearchInv
  <2> QED BY <1>1, <2>1 DEF SearchInv, MarkedButFirst, Before
<1>5. SearchTypes'
  BY <1>1, <1>3 DEF SearchInv, SearchTypes
<1>6. SearchFromBegin'
  BY <1>1, <1>2 DEF SearchFromBegin
<1>7. ReachedOnce'
  <2>1. NoneTwice(<<first>>)
    BY DEF NoneTwice
  <2>2. \A i \in DOMAIN result : ToSet(result[i]) \cap {first} = {}
    BY <1>4, FinishedMeans
  <2> QED BY <1>1, <1>2, <2>1, <2>2 DEF SearchInv, ReachedOnce
<1>8. MarkedButFirst'
  BY <1>1, <1>2 DEF SearchInv, MarkedButFirst
<1>9. NeighboursReached' /\ ReachedConnected'
  BY <1>1, <1>2 DEF SearchInv, NeighboursReached, ReachedConnected, Connected
<1> QED BY <1>5, <1>6, <1>7, <1>8, <1>9 DEF SearchInv

(* A neighbour of a guest under search is in no finished component.        *)
LEMMA NeighbourUnfinished ==
  ASSUME SearchInv, NEW g \in Reached, NEW h \in GuestsOf(range), GuestsHaveSharedPage(g, h)
  PROVE  h \notin Search!Finished
<1> SUFFICES ASSUME NEW i \in DOMAIN result, h \in ToSet(result[i]) PROVE FALSE
  BY FinishedMeans
<1>1. g \in GuestsOf(range)
  <2>1. frontier \in Seq(GuestsOf(range)) /\ component \in Seq(GuestsOf(range))
    BY DEF SearchInv, SearchTypes
  <2> QED BY <2>1, LenProperties DEF Reached, ToSet
<1>2. g \notin ToSet(result[i])
  BY DEF SearchInv, ReachedOnce
<1>3. ~GuestsHaveSharedPage(h, g)
  BY <1>1, <1>2 DEF SearchInv, NeighboursReached, IsClosed
<1> QED BY <1>3, SharedBothWays

LEMMA EndKeepsSearchInv ==
  ASSUME SearchInv, Search!EndSearch
  PROVE  SearchInv'
<1>1. /\ range' = range /\ frontier' = frontier /\ component' = <<>>
      /\ discovered' = discovered /\ result' = Append(result, component) /\ begin' = begin + 1
      /\ frontier = <<>> /\ component # <<>>
  BY DEF Search!EndSearch
<1>2. begin \in 1 .. Len(range) /\ range[begin] \in Reached
  BY <1>1 DEF SearchInv, SearchFromBegin, Search!Searching
<1>3. PICK n : n = Len(result)
  OBVIOUS
<1>4. /\ n \in Nat /\ DOMAIN result = 1 .. n /\ DOMAIN result' = 1 .. n + 1
      /\ result' \in Seq(Seq(GuestsOf(range)))
      /\ \A i \in 1 .. n : result'[i] = result[i]
      /\ result'[n + 1] = component
      /\ \A i \in 1 .. n + 1 : i \in 1 .. n \/ i = n + 1
  <2>1. /\ result \in Seq(Seq(GuestsOf(range))) /\ component \in Seq(GuestsOf(range))
    BY DEF SearchInv, SearchTypes
  <2>2. /\ n \in Nat /\ DOMAIN result = 1 .. n
        /\ result' \in Seq(Seq(GuestsOf(range))) /\ Len(result') = n + 1
        /\ \A i \in 1 .. n : result'[i] = result[i]
        /\ result'[n + 1] = component
    BY <1>1, <1>3, <2>1, AppendProperties, LenProperties
  <2> QED BY <2>2, LenProperties
<1>5. ToSet(frontier) = {} /\ Reached = ToSet(component) /\ Reached' = {} /\ ToSet(component') = {}
  BY <1>1, EmptySeq DEF Reached, ToSet
<1>6. Search!Finished' = Search!Finished \cup Reached
  BY <1>4, <1>5, FinishedMeans
<1>7. Before' = Before \cup {range[begin]}
  BY <1>1, <1>2, BeforeGrows DEF SearchInv
<1>8. SearchTypes'
  BY <1>1, <1>2, <1>4, RangePositions, EmptySeq DEF SearchInv, SearchTypes
<1>9. SearchFromBegin'
  BY <1>1 DEF SearchFromBegin, Search!Searching
<1>10. ReachedOnce'
  BY <1>1, <1>4, <1>5 DEF SearchInv, ReachedOnce, NoneTwice
<1>11. MarkedButFirst'
  BY <1>1, <1>2, <1>5, <1>6, <1>7 DEF SearchInv, MarkedButFirst
<1>12. NeighboursReached'
  <2>1. IsClosed(Reached, GuestsOf(range))
    BY <1>5 DEF SearchInv, NeighboursReached, IsClosed
  <2> QED BY <1>1, <1>4, <1>5, <2>1 DEF SearchInv, NeighboursReached
<1>13. ReachedConnected'
  BY <1>1, <1>4, <1>5 DEF SearchInv, ReachedConnected, Connected
<1> QED BY <1>8, <1>9, <1>10, <1>11, <1>12, <1>13 DEF SearchInv

(* What VisitFront finds from the guest at the front. *)
LEMMA FoundMeans ==
  ASSUME SearchInv, NEW g
  PROVE  /\ Search!FoundFrom(g) \in Seq(GuestsOf(range))
         /\ NoneTwice(Search!FoundFrom(g))
         /\ ToSet(Search!FoundFrom(g)) =
               {range[k] : k \in {l \in begin + 1 .. Len(range) :
                                     range[l] \notin discovered /\ GuestsHaveSharedPage(g, range[l])}}
<1> DEFINE I == {k \in begin + 1 .. Len(range) :
                    range[k] \notin discovered /\ GuestsHaveSharedPage(g, range[k])}
<1>1. Search!FoundFrom(g) = Subsequence(range, I)
  BY DEF Search!FoundFrom, Search!Candidates, Search!Subsequence, Subsequence,
         Search!GuestsHaveSharedPage, GuestsHaveSharedPage, Search!Cardinality, Cardinality
<1>2. range \in Seq(GuestsOf(range)) /\ NoneTwice(range)
  BY RangePositions DEF SearchInv, SearchTypes
<1>3. I \in SUBSET (1 .. Len(range))
  BY RangePositions DEF SearchInv
<1> HIDE DEF I
<1>4. /\ Subsequence(range, I) \in Seq(GuestsOf(range)) /\ NoneTwice(Subsequence(range, I))
      /\ ToSet(Subsequence(range, I)) = {range[k] : k \in I}
  BY <1>2, <1>3, SubsequenceNoneTwice
<1> QED BY <1>1, <1>4 DEF I

LEMMA VisitKeepsSearchInv ==
  ASSUME SearchInv, Search!VisitFront
  PROVE  SearchInv'
<1> DEFINE S == GuestsOf(range)
           g == Head(frontier)
           found == Search!FoundFrom(g)
           T == ToSet(found)
<1>1. /\ range' = range /\ begin' = begin /\ result' = result
      /\ frontier # <<>>
      /\ component' = Append(component, g)
      /\ frontier' = Tail(frontier) \o found
      /\ discovered' = discovered \cup T
  BY DEF Search!VisitFront, Search!ToSet, ToSet
<1>2. /\ frontier \in Seq(S) /\ component \in Seq(S) /\ NoneTwice(frontier) /\ NoneTwice(component)
      /\ ToSet(frontier) \cap ToSet(component) = {}
      /\ discovered \subseteq S
  BY DEF SearchInv, SearchTypes, ReachedOnce
<1>3. begin \in 1 .. Len(range) /\ range[begin] \in Reached
  BY <1>1 DEF SearchInv, SearchFromBegin, Search!Searching
<1>4. /\ g \in ToSet(frontier) /\ g \in S
      /\ Tail(frontier) \in Seq(S) /\ NoneTwice(Tail(frontier))
      /\ ToSet(Tail(frontier)) = ToSet(frontier) \ {g}
  BY <1>1, <1>2, TailNoneTwice
<1>5. g \in Reached /\ g \notin ToSet(component)
  BY <1>2, <1>4 DEF Reached
<1>6. /\ component' \in Seq(S) /\ NoneTwice(component')
      /\ ToSet(component') = ToSet(component) \cup {g}
  BY <1>1, <1>2, <1>4, <1>5, AppendNoneTwice
<1>7. /\ found \in Seq(S) /\ NoneTwice(found)
      /\ T = {range[k] : k \in {l \in begin + 1 .. Len(range) :
                                   range[l] \notin discovered /\ GuestsHaveSharedPage(g, range[l])}}
  BY FoundMeans
<1> HIDE DEF S, g, found, T
<1>8. T \subseteq S
  BY <1>7, LenProperties DEF ToSet, T
<1>9. ASSUME NEW x \in T
      PROVE  /\ x \notin discovered /\ GuestsHaveSharedPage(g, x)
             /\ x \notin Reached /\ x \notin Search!Finished
  <2>1. PICK k \in begin + 1 .. Len(range) :
            x = range[k] /\ range[k] \notin discovered /\ GuestsHaveSharedPage(g, range[k])
    BY <1>7, <1>9
  <2>2. k \in 1 .. Len(range) /\ k # begin
    BY <1>3, <2>1, RangePositions DEF SearchInv
  <2>3. x # range[begin] /\ x \in GuestsOf(range)
    BY <1>3, <2>1, <2>2, RangePositions DEF SearchInv
  <2>4. x \notin Reached
    BY <2>1, <2>3 DEF SearchInv, MarkedButFirst
  <2> QED BY <1>5, <2>1, <2>3, <2>4, NeighbourUnfinished
<1>10. /\ frontier' \in Seq(S) /\ NoneTwice(frontier')
       /\ ToSet(frontier') = (ToSet(frontier) \ {g}) \cup T
  <2>1. ToSet(Tail(frontier)) \cap ToSet(found) = {}
    BY <1>4, <1>9 DEF Reached, T
  <2>2. PICK rest : rest = Tail(frontier)
    OBVIOUS
  <2>3. PICK new : new = found
    OBVIOUS
  <2>4. /\ rest \in Seq(S) /\ NoneTwice(rest) /\ new \in Seq(S) /\ NoneTwice(new)
        /\ ToSet(rest) \cap ToSet(new) = {}
    BY <1>4, <1>7, <2>1, <2>2, <2>3
  <2>5. /\ rest \o new \in Seq(S) /\ NoneTwice(rest \o new)
        /\ ToSet(rest \o new) = ToSet(rest) \cup ToSet(new)
    BY <2>4, ConcatNoneTwice
  <2> QED BY <1>1, <1>4, <2>2, <2>3, <2>5 DEF T
<1>11. /\ Reached' = Reached \cup T
       /\ Before' = Before /\ Search!Finished' = Search!Finished
  BY <1>1, <1>4, <1>6, <1>10, FinishedMeans DEF Reached, Before
<1>12. SearchTypes'
  BY <1>1, <1>2, <1>6, <1>8, <1>10 DEF SearchInv, SearchTypes, S
<1>13. SearchFromBegin'
  BY <1>1, <1>3, <1>11 DEF SearchFromBegin
<1>14. ReachedOnce'
  <2>1. ToSet(frontier') \cap ToSet(component') = {}
    BY <1>2, <1>5, <1>6, <1>9, <1>10 DEF Reached
  <2>2. \A i \in DOMAIN result : ToSet(result[i]) \cap Reached' = {}
    BY <1>9, <1>11, FinishedMeans DEF SearchInv, ReachedOnce
  <2> QED BY <1>1, <1>6, <1>10, <2>1, <2>2 DEF SearchInv, ReachedOnce
<1>15. MarkedButFirst'
  BY <1>1, <1>11 DEF SearchInv, MarkedButFirst
<1>16. NeighboursReached'
  <2>1. ASSUME NEW h \in GuestsOf(range), GuestsHaveSharedPage(g, h) PROVE h \in Reached'
    <3>1. PICK k \in 1 .. Len(range) : h = range[k]
      BY RangePositions DEF SearchInv
    <3>2. h \notin Search!Finished
      BY <1>5, <2>1, NeighbourUnfinished
    <3>3. CASE k < begin
      <4>1. k \in 1 .. begin - 1
        BY <3>1, <3>3, RangePositions DEF SearchInv
      <4>2. h \in Before
        BY <3>1, <4>1 DEF Before
      <4> QED BY <3>2, <4>2 DEF SearchInv, MarkedButFirst
    <3>4. CASE k = begin
      BY <1>3, <1>11, <3>1, <3>4
    <3>5. CASE k > begin
      <4>1. k \in begin + 1 .. Len(range)
        BY <3>1, <3>5, RangePositions DEF SearchInv
      <4>2. CASE h \in discovered
        BY <1>11, <3>2, <4>2 DEF SearchInv, MarkedButFirst
      <4>3. CASE h \notin discovered
        BY <1>7, <1>11, <2>1, <3>1, <4>1, <4>3
      <4> QED BY <4>2, <4>3
    <3>6. k \in Nat /\ begin \in Nat
      BY <3>1, RangePositions DEF SearchInv
    <3> QED BY <3>3, <3>4, <3>5, <3>6
  <2> QED BY <1>1, <1>6, <1>11, <2>1 DEF SearchInv, NeighboursReached
<1>17. ReachedConnected'
  <2>1. ASSUME NEW D \in SUBSET GuestsOf(range), IsClosed(D, GuestsOf(range))
        PROVE  Reached \cup T \subseteq D \/ (Reached \cup T) \cap D = {}
    <3>1. Reached \subseteq D \/ Reached \cap D = {}
      BY <2>1 DEF SearchInv, ReachedConnected, Connected
    <3>2. ASSUME NEW x \in T PROVE g \in D <=> x \in D
      <4>1. GuestsHaveSharedPage(g, x) /\ GuestsHaveSharedPage(x, g)
        BY <1>9, SharedBothWays
      <4>2. g \in GuestsOf(range) /\ x \in GuestsOf(range)
        BY <1>4, <1>8 DEF S
      <4> QED BY <2>1, <4>1, <4>2 DEF IsClosed
    <3> QED BY <1>5, <3>1, <3>2
  <2>2. Connected(Reached)'
    BY <1>1, <1>11, <2>1 DEF Connected
  <2> QED BY <1>1, <2>2 DEF SearchInv, ReachedConnected, Connected
<1> QED BY <1>12, <1>13, <1>14, <1>15, <1>16, <1>17 DEF SearchInv

LEMMA SearchKeepsSearchInv == SearchInv /\ [Search!Next]_search => SearchInv'
<1>1. ASSUME SearchInv, UNCHANGED search PROVE SearchInv'
  <2>1. Reached' = Reached /\ Before' = Before /\ Search!Finished' = Search!Finished
    BY <1>1, FinishedMeans DEF search, Reached, Before
  <2> QED BY <1>1, <2>1 DEF search, SearchInv, SearchTypes, SearchFromBegin, Search!Searching,
                 ReachedOnce, MarkedButFirst, NeighboursReached, ReachedConnected, Connected
<1> QED BY <1>1, SkipKeepsSearchInv, StartKeepsSearchInv, VisitKeepsSearchInv, EndKeepsSearchInv
    DEF Search!Next

LEMMA SearchEndsWithComponents == SearchInv => Search!FindsComponents
<1> SUFFICES ASSUME SearchInv, Search!Done PROVE Search!FindsComponents
  BY DEF Search!FindsComponents
<1> DEFINE S == GuestsOf(range)
           Found(i) == ToSet(result[i])
<1>1. /\ \A i \in DOMAIN result : /\ Found(i) # {} /\ Found(i) \subseteq S
                                  /\ IsClosed(Found(i), S) /\ Connected(Found(i))
                                  /\ result[i] \in Seq(S) /\ DOMAIN result[i] = 1 .. Len(result[i])
                                  /\ NoneTwice(result[i])
  <2>1. \A i \in DOMAIN result : result[i] \in Seq(S)
    BY LenProperties DEF SearchInv, SearchTypes
  <2>2. \A i \in DOMAIN result : DOMAIN result[i] = 1 .. Len(result[i])
    BY <2>1, LenProperties
  <2>3. \A i \in DOMAIN result : Found(i) \subseteq S
    BY <2>1, LenProperties DEF ToSet
  <2>4. ASSUME NEW i \in DOMAIN result PROVE Found(i) # {}
    <3>1. result[i] # <<>> /\ result[i] \in Seq(S)
      BY <2>1 DEF SearchInv, ReachedOnce
    <3>2. Len(result[i]) \in Nat \ {0}
      BY <3>1, EmptySeq, LenProperties
    <3>3. 1 \in DOMAIN result[i]
      BY <2>2, <3>2
    <3> QED BY <3>3 DEF ToSet
  <2> QED BY <2>1, <2>2, <2>3, <2>4 DEF SearchInv, ReachedOnce, NeighboursReached, ReachedConnected
<1>2. S = Search!Finished
  <2>1. S \subseteq Before
    <3> SUFFICES ASSUME NEW k \in 1 .. Len(range) PROVE range[k] \in Before
      BY DEF GuestsOf
    <3>1. k \in 1 .. begin - 1
      BY RangePositions DEF SearchInv, Search!Done
    <3> QED BY <3>1 DEF Before
  <2> QED BY <1>1, <2>1, FinishedMeans DEF SearchInv, MarkedButFirst
<1> HIDE DEF S, Found
<1>3. ASSUME NEW i \in DOMAIN result PROVE Found(i) \in ComponentsOf(S)
  <2>1. ASSUME NEW D \in (SUBSET Found(i)) \ {{}}, IsClosed(D, S) PROVE D = Found(i)
    <3>1. D \in SUBSET S
      BY <1>1
    <3> QED BY <1>1, <2>1, <3>1 DEF Connected, S
  <2> QED BY <1>1, <2>1 DEF ComponentsOf
<1>4. ASSUME NEW C \in ComponentsOf(S) PROVE \E i \in DOMAIN result : C = Found(i)
  <2>1. C \in SUBSET S /\ C # {} /\ IsClosed(C, S)
        /\ \A D \in (SUBSET C) \ {{}} : IsClosed(D, S) => D = C
    BY DEF ComponentsOf
  <2>2. PICK g \in C : g \in Search!Finished
    BY <1>2, <2>1
  <2>3. PICK i \in DOMAIN result : g \in Found(i)
    BY <2>2, FinishedMeans DEF Found
  <2>4. Found(i) \subseteq C
    BY <1>1, <2>1, <2>2, <2>3 DEF Connected, S
  <2> QED BY <1>1, <2>1, <2>4
<1>5. {Found(i) : i \in DOMAIN result} = ComponentsOf(S)
  BY <1>3, <1>4
<1>6. ASSUME NEW i \in DOMAIN result, NEW j \in DOMAIN result,
             NEW k \in DOMAIN result[i], NEW l \in DOMAIN result[j], result[i][k] = result[j][l]
      PROVE  i = j /\ k = l
  <2>1. result[i][k] \in Found(i) /\ result[i][k] \in Found(j)
    BY <1>6 DEF Found, ToSet
  <2>2. i = j
    BY <2>1 DEF Found, SearchInv, ReachedOnce
  <2> QED BY <1>1, <1>6, <2>2 DEF NoneTwice
<1> QED BY <1>5, <1>6 DEF Search!FindsComponents, Found, S, Search!ToSet, ToSet, Search!GuestsOf,
           GuestsOf, Search!ComponentsOf, ComponentsOf, Search!IsClosed, IsClosed,
           Search!GuestsHaveSharedPage, GuestsHaveSharedPage

LEMMA SearchesFindComponents ==
  ASSUME SearchInv, Search!Done
  PROVE  {ToSet(result[i]) : i \in DOMAIN result} = ComponentsOf(GuestsOf(range))
BY SearchEndsWithComponents DEF Search!FindsComponents, Search!ToSet, ToSet, Search!GuestsOf,
   GuestsOf, Search!ComponentsOf, ComponentsOf, Search!IsClosed, IsClosed,
   Search!GuestsHaveSharedPage, GuestsHaveSharedPage

-----------------------------------------------------------------------------
(* The invariants hold at first. *)

LEMMA InitHolds == Init => MovesInv /\ SearchInv
<1> SUFFICES ASSUME Init PROVE MovesInv /\ SearchInv
  OBVIOUS
<1>1. PICK n \in 0 .. MaxGuests, count \in 0 .. MaxGuests :
        \E pages \in [1 .. n -> PageSet], host \in [1 .. n -> 1 .. count] :
           /\ {host[k] : k \in 1 .. n} = 1 .. count
           /\ hosts = [i \in 1 .. count |->
                          HostOf({InstanceOf(pages)[k] : k \in {l \in 1 .. n : host[l] = i}})]
  BY DEF Init
<1>2. PICK pages \in [1 .. n -> PageSet], host \in [1 .. n -> 1 .. count] :
           /\ {host[k] : k \in 1 .. n} = 1 .. count
           /\ hosts = [i \in 1 .. count |->
                          HostOf({InstanceOf(pages)[k] : k \in {l \in 1 .. n : host[l] = i}})]
  BY <1>1
<1>3. PICK instance : instance = InstanceOf(pages)
  OBVIOUS
<1>4. IsInstance(instance) /\ Len(instance) = n /\ n \in Nat /\ n <= MaxGuests /\ count \in Nat
  <2>1. DOMAIN instance = 1 .. n
    BY <1>3 DEF InstanceOf
  <2>2. IsInstance(instance)
    BY <1>3, InstanceOfIsInstance
  <2>3. n \in Nat /\ n <= MaxGuests /\ count \in Nat
    BY HostAssumption
  <2>4. Len(instance) \in Nat /\ DOMAIN instance = 1 .. Len(instance)
    BY <2>2, LenProperties DEF IsInstance
  <2>5. Len(instance) = n
    BY <2>1, <2>2, <2>3, <2>4 DEF IsInstance
  <2> QED BY <2>2, <2>3, <2>5
<1>5. /\ \A k \in 1 .. n : instance[k] \in Guest /\ instance[k] \in GuestsOf(instance)
      /\ \A k, l \in 1 .. n : instance[k] = instance[l] => k = l
  <2>1. \A k \in 1 .. n : instance[k] \in GuestsOf(instance)
    BY <1>4 DEF GuestsOf
  <2> QED BY <1>4, <2>1, InstanceGuests
<1> DEFINE At(i) == {instance[k] : k \in {l \in 1 .. n : host[l] = i}}
<1>6. hosts = [i \in 1 .. count |-> HostOf(At(i))]
  BY <1>2, <1>3
<1>7. \A i \in 1 .. count : At(i) \subseteq Guest /\ At(i) \subseteq GuestsOf(instance) /\ At(i) # {}
  BY <1>2, <1>5
<1>8. \A i, j \in 1 .. count : i # j => At(i) \cap At(j) = {}
  BY <1>5
<1> HIDE DEF At
<1>9. ASSUME NEW i \in 1 .. count
      PROVE  /\ IsHost(hosts[i]) /\ FrequenciesMatch(hosts[i]) /\ hosts[i].guests = At(i)
             /\ hosts[i] \in HostSet
  <2>1. hosts[i] = HostOf(At(i)) /\ At(i) \in SUBSET Guest
    BY <1>6, <1>7
  <2>2. IsHost(hosts[i]) /\ FrequenciesMatch(hosts[i]) /\ hosts[i].guests = At(i)
    BY <2>1, HostOfMatches
  <2> QED BY <2>2, IsHostSet
<1>10. DOMAIN hosts = 1 .. count /\ hosts \in Seq(HostSet) /\ Len(hosts) = count
  <2>1. hosts \in [1 .. count -> HostSet]
    BY <1>6, <1>9
  <2> QED BY <1>4, <2>1
<1>11. GoodHosts(hosts) /\ TrueHosts(hosts) /\ NoGuestTwice(hosts)
  <2>1. TrueHosts(hosts)
    BY <1>9, <1>10 DEF TrueHosts
  <2>2. \A i \in DOMAIN hosts : hosts[i].guests = At(i) /\ hosts[i].guests # {}
    BY <1>7, <1>9, <1>10
  <2>3. NoGuestTwice(hosts)
    BY <1>8, <1>10, <2>2 DEF NoGuestTwice
  <2> QED BY <2>1, <2>2, <2>3 DEF GoodHosts
<1>12. guestCount = Cardinality(PlacedGuests(hosts)) /\ guestCount \in 0 .. MaxGuests
  <2>1. guestCount = Cardinality(PlacedGuests(hosts))
    BY <1>11, PackingCounts DEF Init
  <2>2. PlacedGuests(hosts) \in SUBSET GuestsOf(instance)
    BY <1>7, <1>9, <1>10 DEF PlacedGuests
  <2>3. IsFiniteSet(GuestsOf(instance)) /\ Cardinality(GuestsOf(instance)) = n
    BY <1>4, InstanceCounts, InstanceGuests, GuestFinite
  <2>4. /\ Cardinality(PlacedGuests(hosts)) <= n
        /\ Cardinality(PlacedGuests(hosts)) \in Nat
    BY <2>2, <2>3, FS_Subset, FS_CardinalityType
  <2> QED BY <1>4, <2>1, <2>4, HostAssumption
<1>13. /\ original = hosts /\ pass = 1 /\ left = 1 /\ right = 2 /\ parts = {} /\ moving = {}
       /\ stage = "parting" /\ \A i \in DOMAIN hosts : ~IsOverfull(hosts[i])
  BY DEF Init
<1>14. HostsKept
  BY <1>4, <1>10, <1>11, <1>12, <1>13 DEF HostsKept
<1>15. StagesFit
  BY <1>4, <1>10, <1>13 DEF StagesFit
<1>16. PartsApart /\ ThirdPassSettles /\ Settled /\ StableStays
  BY <1>13 DEF PartsApart, ThirdPassSettles, Settled, StableStays
<1>17. SearchInv
  <2>1. /\ range = <<>> /\ begin = 1 /\ frontier = <<>> /\ component = <<>>
        /\ discovered = {} /\ result = <<>>
    BY DEF Init, Search!Init
  <2>2. Len(<<>>) = 0 /\ DOMAIN <<>> = {} /\ \A S : <<>> \in Seq(S)
    BY EmptySeq
  <2>3. ToSet(<<>>) = {} /\ NoneTwice(<<>>)
    BY <2>2 DEF ToSet, NoneTwice
  <2>4. Reached = {} /\ Before = {} /\ Search!Finished = {}
    BY <2>1, <2>2, <2>3, FinishedMeans DEF Reached, Before
  <2>5. SearchTypes
    BY <2>1, <2>2, <2>3 DEF SearchTypes
  <2>6. SearchFromBegin /\ ReachedOnce
    BY <2>1, <2>2, <2>3 DEF SearchFromBegin, Search!Searching, ReachedOnce
  <2>7. MarkedButFirst /\ NeighboursReached /\ ReachedConnected
    BY <2>1, <2>2, <2>3, <2>4 DEF MarkedButFirst, NeighboursReached, ReachedConnected, Connected
  <2> QED BY <2>5, <2>6, <2>7 DEF SearchInv
<1> QED BY <1>14, <1>15, <1>16, <1>17 DEF MovesInv

-----------------------------------------------------------------------------
(* MovesInv is kept by every action. *)

LEMMA Positions ==
  ASSUME MovesInv
  PROVE  /\ TrueHosts(hosts) /\ NoGuestTwice(hosts)
         /\ Len(hosts) \in Nat /\ DOMAIN hosts = 1 .. Len(hosts)
         /\ \A i \in DOMAIN hosts : /\ IsHost(hosts[i]) /\ FrequenciesMatch(hosts[i])
                                    /\ hosts[i].guests \subseteq Guest
         /\ left \in Nat \ {0} /\ right \in Nat \ {0} /\ left < right
         /\ left <= Len(hosts) + 1 /\ right <= Len(hosts) + 2
         /\ right <= Len(hosts) => left \in DOMAIN hosts /\ right \in DOMAIN hosts
<1>1. TrueHosts(hosts) /\ NoGuestTwice(hosts)
  BY DEF MovesInv, HostsKept
<1>2. PICK n : n = Len(hosts)
  OBVIOUS
<1>3. n \in Nat /\ DOMAIN hosts = 1 .. n
  BY <1>1, <1>2, TrueHostsHave
<1>4. left \in 1 .. n + 1 /\ right \in left + 1 .. n + 2
  BY <1>2 DEF MovesInv, StagesFit
<1>5. /\ left \in Nat \ {0} /\ right \in Nat \ {0} /\ left < right
      /\ left <= n + 1 /\ right <= n + 2
      /\ right <= n => left \in 1 .. n /\ right \in 1 .. n
  BY <1>3, <1>4
<1> QED BY <1>1, <1>2, <1>3, <1>5, TrueHostsHave

(* Nothing of the moves changes; nor does the range, while it is searched. *)
LEMMA IdleKeepsMovesInv ==
  ASSUME MovesInv,
         UNCHANGED <<original, hosts, guestCount, pass, left, right, parts, moving, stage>>,
         range' = range
  PROVE  MovesInv'
BY DEF MovesInv, HostsKept, StagesFit, PartsApart, ThirdPassSettles, RefusesFrom, Settled, StableStays

LEMMA PartKeepsMovesInv ==
  ASSUME MovesInv, PartRightHost
  PROVE  MovesInv'
<1>1. /\ pass \in {1, 3} /\ right <= Len(hosts)
      /\ parts = {} /\ moving = {} /\ stage = "parting"
      /\ parts' = Partition(pass, hosts[right].guests) /\ stage' = "moving"
      /\ hosts' = hosts /\ original' = original /\ guestCount' = guestCount
      /\ pass' = pass /\ left' = left /\ right' = right /\ moving' = moving
  BY DEF PartRightHost, MovesInv, StagesFit
<1>2. /\ pass = 1 => parts' = {hosts[right].guests}
      /\ pass = 3 => parts' = {{g} : g \in hosts[right].guests}
  BY <1>1 DEF Partition
<1>3. hosts[right].guests \subseteq Guest
  BY <1>1, Positions
<1>4. HostsKept'
  BY <1>1 DEF MovesInv, HostsKept
<1>5. StagesFit'
  BY <1>1 DEF MovesInv, StagesFit
<1>6. PartsApart'
  <2>1. \A part \in parts' : part \subseteq hosts[right].guests
    BY <1>1, <1>2
  <2>2. \A part, other \in parts' : part # other => part \cap other = {}
    <3>1. CASE pass = 1
      BY <1>2, <3>1
    <3>2. CASE pass = 3
      BY <1>2, <3>2
    <3> QED BY <1>1, <3>1, <3>2
  <2> QED BY <1>1, <2>1, <2>2 DEF PartsApart
<1>7. ThirdPassSettles'
  BY <1>1, <1>2, <1>3 DEF MovesInv, ThirdPassSettles, RefusesFrom
<1>8. Settled' /\ StableStays'
  BY <1>1 DEF MovesInv, Settled, StableStays
<1> QED BY <1>4, <1>5, <1>6, <1>7, <1>8 DEF MovesInv

LEMMA BeginKeepsBoth ==
  ASSUME MovesInv, BeginSearches
  PROVE  MovesInv' /\ SearchInv'
<1>1. /\ pass = 2 /\ right <= Len(hosts)
      /\ parts = {} /\ moving = {} /\ stage' = "searching"
      /\ hosts' = hosts /\ original' = original /\ guestCount' = guestCount
      /\ pass' = pass /\ left' = left /\ right' = right /\ moving' = moving /\ parts' = parts
  BY DEF BeginSearches, MovesInv, StagesFit
<1>2. PICK guests \in SetToSeqs(hosts[right].guests) : Search!Begin(guests)
  BY DEF BeginSearches
<1>3. hosts[right].guests \in SUBSET Guest
  BY <1>1, Positions
<1>4. /\ guests \in Seq(hosts[right].guests) /\ NoneTwice(guests)
      /\ GuestsOf(guests) \subseteq hosts[right].guests
  BY <1>2, <1>3, GuestFinite, OrdersOfSet
<1>5. guests \in Seq(Guest)
  <2>1. guests \in [1 .. Len(guests) -> Guest] /\ Len(guests) \in Nat
    BY <1>3, <1>4, LenProperties
  <2> QED BY <2>1
<1>6. SearchInv'
  BY <1>2, <1>4, <1>5, FreshSearch
<1>7. range' = guests
  BY <1>2 DEF Search!Begin
<1>8. HostsKept' /\ PartsApart' /\ Settled' /\ StableStays'
  BY <1>1 DEF MovesInv, HostsKept, PartsApart, Settled, StableStays
<1>9. StagesFit'
  BY <1>1, <1>4, <1>7 DEF MovesInv, StagesFit
<1>10. ThirdPassSettles'
  BY <1>1 DEF ThirdPassSettles
<1> QED BY <1>6, <1>8, <1>9, <1>10 DEF MovesInv

LEMMA EndKeepsBoth ==
  ASSUME MovesInv, SearchInv, EndSearches
  PROVE  MovesInv' /\ SearchInv'
<1>1. /\ stage = "searching" /\ stage' = "moving" /\ Search!Begin(<<>>)
      /\ hosts' = hosts /\ original' = original /\ guestCount' = guestCount
      /\ pass' = pass /\ left' = left /\ right' = right /\ moving' = moving
      /\ parts' = {ToSet(result[i]) : i \in DOMAIN result}
  BY DEF EndSearches
<1>2. pass = 2 /\ moving = {} /\ right <= Len(hosts) /\ GuestsOf(range) \subseteq hosts[right].guests
  BY <1>1 DEF MovesInv, StagesFit
<1>3. \A i \in DOMAIN result : ToSet(result[i]) \subseteq hosts[right].guests
  <2>1. \A i \in DOMAIN result : result[i] \in Seq(GuestsOf(range))
    BY LenProperties DEF SearchInv, SearchTypes
  <2>2. \A i \in DOMAIN result : ToSet(result[i]) \subseteq GuestsOf(range)
    BY <2>1, LenProperties DEF ToSet
  <2> QED BY <1>2, <2>2
<1>4. <<>> \in Seq(Guest) /\ NoneTwice(<<>>)
  BY EmptySeq DEF NoneTwice
<1>5. SearchInv'
  BY <1>1, <1>4, FreshSearch
<1>6. PartsApart'
  BY <1>1, <1>2, <1>3 DEF PartsApart, SearchInv, ReachedOnce
<1>7. HostsKept' /\ Settled' /\ StableStays'
  BY <1>1 DEF MovesInv, HostsKept, Settled, StableStays
<1>8. StagesFit'
  BY <1>1, <1>2 DEF MovesInv, StagesFit
<1>9. ThirdPassSettles'
  BY <1>1, <1>2 DEF ThirdPassSettles
<1> QED BY <1>5, <1>6, <1>7, <1>8, <1>9 DEF MovesInv

LEMMA TryKeepsMovesInv ==
  ASSUME MovesInv, TryPart
  PROVE  MovesInv'
<1>1. PICK part \in parts :
         /\ parts' = parts \ {part}
         /\ moving' = IF AccommodatesGuests(hosts[left], part) THEN part ELSE {}
  BY DEF TryPart
<1>2. /\ moving = {} /\ stage = "moving" /\ right <= Len(hosts) /\ pass # 4
      /\ hosts' = hosts /\ original' = original /\ guestCount' = guestCount
      /\ pass' = pass /\ left' = left /\ right' = right /\ stage' = stage
  BY <1>1 DEF TryPart, MovesInv, StagesFit
<1>3. /\ left \in DOMAIN hosts /\ right \in DOMAIN hosts /\ left < right
      /\ IsHost(hosts[left]) /\ FrequenciesMatch(hosts[left])
      /\ hosts[right].guests \subseteq Guest
  BY <1>2, Positions
<1>4. part \subseteq hosts[right].guests /\ part \in SUBSET Guest
  BY <1>3 DEF MovesInv, PartsApart
<1>5. moving' \subseteq part
  BY <1>1
<1>6. HostsKept'
  BY <1>2 DEF MovesInv, HostsKept
<1>7. StagesFit'
  BY <1>2 DEF MovesInv, StagesFit
<1>8. PartsApart'
  <2>1. ASSUME moving' # {} PROVE Cardinality(PagesOf(hosts[left].guests \cup moving')) <= Capacity
    <3>1. moving' = part /\ AccommodatesGuests(hosts[left], part)
      BY <1>1, <2>1
    <3>2. CountPagesWithGuests(hosts[left], part) = Cardinality(PagesOf(hosts[left].guests \cup part))
      BY <1>3, <1>4, CountsOfGuests
    <3> QED BY <3>1, <3>2 DEF AccommodatesGuests
  <2> QED BY <1>1, <1>2, <1>4, <1>5, <2>1 DEF MovesInv, PartsApart
<1>9. ThirdPassSettles'
  <2> SUFFICES ASSUME pass = 3,
                      NEW g \in hosts[right].guests, AccommodatesGuest(hosts[left], g)
               PROVE  g \in moving' \/ {g} \in parts'
    BY <1>1, <1>2 DEF MovesInv, ThirdPassSettles, RefusesFrom
  <2>1. {g} \in parts
    BY <1>2 DEF MovesInv, ThirdPassSettles
  <2>2. CASE part = {g}
    <3>1. g \in Guest
      BY <1>3
    <3>2. /\ CountPagesWithGuest(hosts[left], g) = Cardinality(PagesOf(hosts[left].guests \cup {g}))
          /\ CountPagesWithGuests(hosts[left], {g}) = Cardinality(PagesOf(hosts[left].guests \cup {g}))
      BY <1>3, <3>1, CountsOfGuest, CountsOfGuests
    <3>3. AccommodatesGuests(hosts[left], {g})
      BY <3>2 DEF AccommodatesGuest, AccommodatesGuests
    <3> QED BY <1>1, <2>2, <3>3
  <2>3. CASE part # {g}
    BY <1>1, <2>1, <2>3
  <2> QED BY <2>2, <2>3
<1>10. Settled'
  BY <1>2 DEF Settled
<1>11. StableStays'
  <2> SUFFICES ASSUME FirstFitStable(original) PROVE moving' = {}
    BY <1>2 DEF MovesInv, StableStays
  <2>1. FirstFitStable(hosts)
    BY DEF MovesInv, StableStays
  <2>2. \A g \in part : ~AccommodatesGuest(hosts[left], g)
    BY <1>3, <1>4, <2>1 DEF FirstFitStable
  <2>3. ASSUME NEW g \in part PROVE ~AccommodatesGuests(hosts[left], part)
    BY <1>3, <1>4, <2>2, RefusalOfMany
  <2> QED BY <1>1, <2>3
<1> QED BY <1>6, <1>7, <1>8, <1>9, <1>10, <1>11 DEF MovesInv

LEMMA MoveKeepsMovesInv ==
  ASSUME MovesInv, MoveGuest
  PROVE  MovesInv'
<1>1. PICK g \in moving : hosts' = TakeOff(PlaceOn(hosts, left, g), right, g) /\ moving' = moving \ {g}
  BY DEF MoveGuest, Moved
<1>2. /\ original' = original /\ guestCount' = guestCount
      /\ pass' = pass /\ left' = left /\ right' = right /\ parts' = parts /\ stage' = stage
  BY DEF MoveGuest
<1>3. stage = "moving" /\ right <= Len(hosts) /\ pass # 4 /\ g \in hosts[right].guests
  BY <1>1 DEF MovesInv, StagesFit, PartsApart
<1>4. /\ TrueHosts(hosts) /\ NoGuestTwice(hosts)
      /\ left \in DOMAIN hosts /\ right \in DOMAIN hosts /\ left < right /\ left # right
      /\ left \in Nat /\ right \in Nat /\ DOMAIN hosts \subseteq Nat
      /\ \A i \in DOMAIN hosts : /\ IsHost(hosts[i]) /\ FrequenciesMatch(hosts[i])
                                 /\ hosts[i].guests \subseteq Guest
  BY <1>3, Positions
<1>5. /\ TrueHosts(hosts') /\ NoGuestTwice(hosts')
      /\ DOMAIN hosts' = DOMAIN hosts /\ Len(hosts') = Len(hosts)
      /\ hosts'[left].guests = hosts[left].guests \cup {g}
      /\ hosts'[right].guests = hosts[right].guests \ {g}
      /\ \A k \in DOMAIN hosts : k # left /\ k # right => hosts'[k] = hosts[k]
      /\ PlacedGuests(hosts') = PlacedGuests(hosts)
  BY <1>1, <1>3, <1>4, MoveTrue
<1>6. \A i \in DOMAIN hosts : /\ IsHost(hosts'[i]) /\ FrequenciesMatch(hosts'[i])
                              /\ hosts'[i].guests \subseteq Guest
  BY <1>5, TrueHostsHave
<1>7. /\ Cardinality(PagesOf(hosts[left].guests \cup moving)) <= Capacity
      /\ moving \subseteq Guest
  BY <1>1, <1>4 DEF MovesInv, PartsApart
<1>8. ~IsOverfull(hosts'[left])
  <2>1. /\ hosts[left].guests \cup moving \in SUBSET Guest
        /\ hosts'[left].guests \in SUBSET (hosts[left].guests \cup moving)
    BY <1>1, <1>4, <1>5, <1>7
  <2>2. /\ Cardinality(PagesOf(hosts'[left].guests)) \in Nat
        /\ Cardinality(PagesOf(hosts[left].guests \cup moving)) \in Nat
        /\ Cardinality(PagesOf(hosts'[left].guests))
              <= Cardinality(PagesOf(hosts[left].guests \cup moving))
    BY <2>1, PagesGrow
  <2> QED BY <1>4, <1>6, <1>7, <2>2, OverfullMeans, HostAssumption
<1>9. ~IsOverfull(hosts'[right])
  <2>1. /\ hosts[right].guests \in SUBSET Guest
        /\ hosts'[right].guests \in SUBSET hosts[right].guests
    BY <1>4, <1>5
  <2>2. /\ Cardinality(PagesOf(hosts'[right].guests)) \in Nat
        /\ Cardinality(PagesOf(hosts[right].guests)) \in Nat
        /\ Cardinality(PagesOf(hosts'[right].guests)) <= Cardinality(PagesOf(hosts[right].guests))
    BY <2>1, PagesGrow
  <2>3. ~IsOverfull(hosts[right])
    BY <1>4 DEF MovesInv, HostsKept
  <2> QED BY <1>4, <1>6, <2>2, <2>3, OverfullMeans, HostAssumption
<1>10. HostsKept'
  <2>1. \A i \in DOMAIN hosts' : ~IsOverfull(hosts'[i])
    BY <1>5, <1>8, <1>9 DEF MovesInv, HostsKept
  <2> QED BY <1>2, <1>5, <2>1 DEF MovesInv, HostsKept
<1>11. StagesFit'
  BY <1>1, <1>2, <1>3, <1>5 DEF MovesInv, StagesFit
<1>12. PartsApart'
  <2>1. hosts'[left].guests \cup moving' = hosts[left].guests \cup moving
    BY <1>1, <1>5
  <2>2. \A part \in parts : part \subseteq hosts'[right].guests /\ part \cap moving' = {}
    BY <1>1, <1>5 DEF MovesInv, PartsApart
  <2>3. moving' \subseteq hosts'[right].guests
    BY <1>1, <1>5 DEF MovesInv, PartsApart
  <2> QED BY <1>2, <1>7, <2>1, <2>2, <2>3 DEF MovesInv, PartsApart
<1>13. ThirdPassSettles'
  <2> SUFFICES ASSUME pass = 3 PROVE ThirdPassSettles'
    BY <1>2 DEF ThirdPassSettles
  <2>1. ASSUME NEW x \in Guest, ~AccommodatesGuest(hosts[left], x)
        PROVE  ~AccommodatesGuest(hosts'[left], x)
    BY <1>4, <1>5, <1>6, <2>1, RefusalLasts
  <2>2. ASSUME NEW i \in DOMAIN hosts, NEW j \in DOMAIN hosts, i < left, i < j
        PROVE  RefusesFrom(i, j)'
    <3>1. hosts'[i] = hosts[i] /\ i < right
      BY <1>4, <1>5, <2>2
    <3>2. \A k \in DOMAIN hosts : i < k => \A x \in hosts[k].guests : ~AccommodatesGuest(hosts[i], x)
      BY <2>2 DEF MovesInv, ThirdPassSettles, RefusesFrom
    <3>3. hosts'[j].guests \subseteq hosts[j].guests \cup hosts[right].guests
      BY <1>3, <1>5
    <3> QED BY <1>4, <2>2, <3>1, <3>2, <3>3 DEF RefusesFrom
  <2>3. ASSUME NEW j \in DOMAIN hosts, left < j, j < right PROVE RefusesFrom(left, j)'
    <3>1. hosts'[j] = hosts[j]
      BY <1>4, <1>5, <2>3
    <3>2. \A x \in hosts[j].guests : x \in Guest /\ ~AccommodatesGuest(hosts[left], x)
      BY <1>4, <2>3 DEF MovesInv, ThirdPassSettles, RefusesFrom
    <3> QED BY <1>2, <2>1, <3>1, <3>2 DEF RefusesFrom
  <2>4. ASSUME NEW x \in hosts'[right].guests
        PROVE  \/ ~AccommodatesGuest(hosts'[left], x)
               \/ x \in moving'
               \/ {x} \in parts'
    <3>1. x \in hosts[right].guests /\ x # g /\ x \in Guest
      BY <1>4, <1>5
    <3>2. ~AccommodatesGuest(hosts[left], x) \/ x \in moving \/ {x} \in parts
      BY <1>3, <3>1 DEF MovesInv, ThirdPassSettles
    <3> QED BY <1>1, <1>2, <2>1, <3>1, <3>2
  <2>5. \A part \in parts' : part # {} => \E y \in Guest : part = {y}
    BY <1>2 DEF MovesInv, ThirdPassSettles
  <2> QED BY <1>2, <1>5, <2>2, <2>3, <2>4, <2>5 DEF ThirdPassSettles
<1>14. Settled'
  BY <1>2, <1>3 DEF Settled
<1>15. StableStays'
  BY <1>1, <1>2 DEF MovesInv, StableStays
<1> QED BY <1>10, <1>11, <1>12, <1>13, <1>14, <1>15 DEF MovesInv

LEMMA NextRightKeepsMovesInv ==
  ASSUME MovesInv, NextRight
  PROVE  MovesInv'
<1>1. /\ stage = "moving" /\ parts = {} /\ moving = {} /\ stage' = "parting" /\ right' = right + 1
      /\ hosts' = hosts /\ original' = original /\ guestCount' = guestCount
      /\ pass' = pass /\ left' = left /\ parts' = parts /\ moving' = moving
  BY DEF NextRight
<1>2. right <= Len(hosts) /\ pass # 4
  BY <1>1 DEF MovesInv, StagesFit
<1>3. HostsKept' /\ PartsApart' /\ Settled' /\ StableStays'
  BY <1>1, <1>2 DEF MovesInv, HostsKept, PartsApart, Settled, StableStays
<1>4. StagesFit'
  <2>1. right' \in left + 1 .. Len(hosts) + 2
    BY <1>1, <1>2, Positions
  <2> QED BY <1>1, <2>1 DEF MovesInv, StagesFit
<1>5. ThirdPassSettles'
  <2>1. \A j \in DOMAIN hosts : j < right' => j < right \/ j = right
    BY <1>1, Positions
  <2> QED BY <1>1, <2>1 DEF MovesInv, ThirdPassSettles, RefusesFrom
<1> QED BY <1>3, <1>4, <1>5 DEF MovesInv

LEMMA NextLeftKeepsMovesInv ==
  ASSUME MovesInv, NextLeft
  PROVE  MovesInv'
<1>1. /\ left <= Len(hosts) /\ right > Len(hosts) /\ left' = left + 1 /\ right' = left + 2
      /\ hosts' = hosts /\ original' = original /\ guestCount' = guestCount /\ stage' = stage
      /\ pass' = pass /\ parts' = parts /\ moving' = moving /\ pass # 4
  BY DEF NextLeft, Done
<1>2. stage = "parting" /\ parts = {} /\ moving = {}
  BY <1>1, Positions DEF MovesInv, StagesFit
<1>3. HostsKept' /\ PartsApart' /\ Settled' /\ StableStays'
  BY <1>1, <1>2 DEF MovesInv, HostsKept, PartsApart, Settled, StableStays
<1>4. StagesFit'
  <2>1. left' \in 1 .. Len(hosts) + 1 /\ right' \in left' + 1 .. Len(hosts) + 2
    BY <1>1, Positions
  <2> QED BY <1>1, <1>2, <2>1 DEF MovesInv, StagesFit
<1>5. ThirdPassSettles'
  <2>1. /\ \A i \in DOMAIN hosts : i < left' => i < left \/ i = left
        /\ \A j \in DOMAIN hosts : j < right
        /\ \A j \in DOMAIN hosts : ~(left' < j /\ j < right')
    BY <1>1, Positions
  <2> QED BY <1>1, <1>2, <2>1 DEF MovesInv, ThirdPassSettles, RefusesFrom
<1> QED BY <1>3, <1>4, <1>5 DEF MovesInv

LEMMA EraseKeepsMovesInv ==
  ASSUME MovesInv, EraseEmptyHosts
  PROVE  MovesInv'
<1>1. /\ left > Len(hosts) /\ hosts' = EraseEmpty(hosts) /\ pass # 4
      /\ pass' = pass + 1 /\ left' = 1 /\ right' = 2
      /\ original' = original /\ guestCount' = guestCount /\ stage' = stage
      /\ parts' = parts /\ moving' = moving
  BY DEF EraseEmptyHosts, Done
<1>2. stage = "parting" /\ parts = {} /\ moving = {} /\ pass \in 1 .. 3
  BY <1>1, Positions DEF MovesInv, StagesFit
<1>3. TrueHosts(hosts) /\ NoGuestTwice(hosts)
  BY Positions
<1>4. /\ GoodHosts(hosts') /\ TrueHosts(hosts') /\ NoGuestTwice(hosts')
      /\ Len(hosts') <= Len(hosts)
      /\ PlacedGuests(hosts') = PlacedGuests(hosts)
      /\ \A k \in DOMAIN hosts' : \E i \in DOMAIN hosts : hosts'[k] = hosts[i]
      /\ FirstFitStable(hosts) => FirstFitStable(hosts')
      /\ (\A i \in DOMAIN hosts : hosts[i].guests # {}) => hosts' = hosts
  BY <1>1, <1>3, EraseEmptyTrue DEF GoodHosts
<1>5. Len(hosts') \in Nat /\ Len(hosts) \in Nat /\ DOMAIN hosts' = 1 .. Len(hosts')
  BY <1>3, <1>4, TrueHostsHave
<1>6. HostsKept'
  <2>1. Len(hosts) <= Len(original) /\ Len(original) \in Nat
    BY TrueHostsHave DEF MovesInv, HostsKept, GoodHosts
  <2>2. Len(hosts') <= Len(original)
    BY <1>4, <1>5, <2>1
  <2> QED BY <1>1, <1>4, <2>2 DEF MovesInv, HostsKept
<1>7. StagesFit'
  BY <1>1, <1>2, <1>5 DEF StagesFit
<1>8. PartsApart'
  BY <1>1, <1>2 DEF PartsApart
<1>9. ThirdPassSettles'
  <2>1. \A i \in DOMAIN hosts' : ~(i < 1) /\ ~(1 < i /\ i < 2)
    BY <1>5
  <2> QED BY <1>1, <1>2, <2>1 DEF ThirdPassSettles
<1>10. Settled'
  <2> SUFFICES ASSUME pass = 3 PROVE FirstFitStable(hosts)
    BY <1>1, <1>2, <1>4 DEF Settled, GoodHosts
  <2>1. \A i \in DOMAIN hosts : i < left
    BY <1>1, Positions
  <2> QED BY <2>1 DEF MovesInv, ThirdPassSettles, RefusesFrom, FirstFitStable
<1>11. StableStays'
  <2> SUFFICES ASSUME FirstFitStable(original) PROVE hosts' = original
    BY <1>1, <1>2 DEF StableStays
  <2>1. hosts = original /\ GoodHosts(original)
    BY DEF MovesInv, StableStays, HostsKept
  <2> QED BY <1>4, <2>1 DEF GoodHosts
<1> QED BY <1>6, <1>7, <1>8, <1>9, <1>10, <1>11 DEF MovesInv

-----------------------------------------------------------------------------
LEMMA Invariance == Spec => [](MovesInv /\ SearchInv)
<1>1. ASSUME MovesInv, SearchInv, UNCHANGED vars PROVE MovesInv' /\ SearchInv'
  BY <1>1, IdleKeepsMovesInv, SearchKeepsSearchInv DEF vars, search
<1>2. ASSUME MovesInv, SearchInv, Next PROVE MovesInv' /\ SearchInv'
  <2>1. CASE BeginSearches
    BY <1>2, <2>1, BeginKeepsBoth
  <2>2. CASE EndSearches
    BY <1>2, <2>2, EndKeepsBoth
  <2>3. CASE ContinueSearches
    <3>1. /\ Search!Next
          /\ UNCHANGED <<original, hosts, guestCount, pass, left, right, parts, moving, stage>>
      BY <2>3 DEF ContinueSearches
    <3>2. range' = range
      BY <3>1 DEF Search!Next, Search!SkipDiscovered, Search!StartSearch, Search!VisitFront, Search!EndSearch
    <3> QED BY <1>2, <3>1, <3>2, IdleKeepsMovesInv, SearchKeepsSearchInv
  <2>4. CASE PartRightHost \/ TryPart \/ MoveGuest \/ NextRight \/ NextLeft \/ EraseEmptyHosts
    <3>1. UNCHANGED search
      BY <2>4 DEF PartRightHost, TryPart, MoveGuest, NextRight, NextLeft, EraseEmptyHosts
    <3> QED BY <1>2, <2>4, <3>1, SearchKeepsSearchInv, PartKeepsMovesInv, TryKeepsMovesInv,
               MoveKeepsMovesInv, NextRightKeepsMovesInv, NextLeftKeepsMovesInv, EraseKeepsMovesInv
  <2> QED BY <1>2, <2>1, <2>2, <2>3, <2>4 DEF Next
<1>3. MovesInv /\ SearchInv /\ [Next]_vars => (MovesInv /\ SearchInv)'
  BY <1>1, <1>2
<1> QED BY <1>3, InitHolds, PTL DEF Spec

-----------------------------------------------------------------------------
(* Types (Packing, and what partitionConnectedGuestsTogether keeps).       *)
THEOREM DecantingTypeCorrect == Spec => []TypeOK
<1>1. MovesInv /\ SearchInv => TypeOK
  <2> SUFFICES ASSUME MovesInv, SearchInv PROVE TypeOK
    OBVIOUS
  <2>1. /\ \A i \in DOMAIN hosts : IsHost(hosts[i])
        /\ right \in 2 .. Len(hosts) + 2
    BY Positions
  <2>2. \A part \in parts : part \subseteq Guest
    <3>1. ASSUME NEW part \in parts PROVE right <= Len(hosts)
      BY <3>1 DEF MovesInv, StagesFit
    <3> QED BY <3>1, Positions DEF MovesInv, PartsApart
  <2>3. moving \subseteq Guest
    <3>1. moving # {} => right <= Len(hosts)
      BY DEF MovesInv, StagesFit
    <3> QED BY <3>1, Positions DEF MovesInv, PartsApart
  <2> QED BY <2>1, <2>2, <2>3 DEF TypeOK, MovesInv, HostsKept, StagesFit, SearchInv, SearchTypes
<1> QED BY <1>1, Invariance, PTL

(* No move loses or doubles a guest, makes a host overfull, or leaves a    *)
(* page map untrue to its guests (vmp_solverutils.h:37-48).                *)
THEOREM DecantingKeepsPacking == Spec => []KeepsPacking
<1>1. MovesInv => KeepsPacking
  BY DEF MovesInv, HostsKept, TrueHosts, KeepsPacking, AllFrequenciesMatch
<1> QED BY <1>1, Invariance, PTL

(* What is moved, or still to be tried, is on the right host.              *)
THEOREM DecantingPartsOnRightHost == Spec => []PartsOnRightHost
<1>1. MovesInv => PartsOnRightHost
  BY DEF MovesInv, PartsApart, PartsOnRightHost
<1> QED BY <1>1, Invariance, PTL

(* Once is enough: after the third pass no guest fits a host before its    *)
(* own, whatever the capacity and the order of the parts                   *)
(* (vmp_packing.cpp:16-20).                                                *)
THEOREM DecantingEndsStable == Spec => []DecantedIsStable
<1>1. MovesInv => DecantedIsStable
  BY PackingCounts DEF MovesInv, HostsKept, Settled, DecantedIsStable, Done
<1> QED BY <1>1, Invariance, PTL

(* A packing no guest of which fits an earlier host never needs decanting  *)
(* (benchmarks/benchmark.cpp:210).                                         *)
THEOREM DecantingLeavesStable == Spec => []StableIsLeftAlone
<1>1. MovesInv => StableIsLeftAlone
  BY DEF MovesInv, StableStays, StableIsLeftAlone
<1> QED BY <1>1, Invariance, PTL

(* The parts of the second pass are the connected components, although no  *)
(* search marks the guest it starts from (vmp_solverutils.h:120-147).      *)
THEOREM DecantingFindsComponents == Spec => []FindsComponents
<1>1. SearchInv => Search!FinishedAreClosed
  <2> SUFFICES ASSUME SearchInv PROVE Search!FinishedAreClosed
    OBVIOUS
  <2>1. IsClosed(Search!Finished, GuestsOf(range))
    BY FinishedMeans DEF SearchInv, NeighboursReached, IsClosed
  <2>2. Before \subseteq Search!Finished
    BY DEF SearchInv, MarkedButFirst
  <2> QED BY <2>1, <2>2 DEF Search!FinishedAreClosed, Search!IsClosed, IsClosed,
             Search!GuestsHaveSharedPage, GuestsHaveSharedPage, Search!GuestsOf, GuestsOf, Before
<1>2. SearchInv => FindsComponents
  BY <1>1, SearchEndsWithComponents DEF FindsComponents
<1> QED BY <1>2, Invariance, PTL

-----------------------------------------------------------------------------
(* The moves follow the function.  The pass under way began with s, which  *)
(* the passes before can leave; before this pair, its hosts were w, which  *)
(* the walk over the pairs can reach; and the parts tried since then, in   *)
(* this order, make of w what the hosts will be when the part that moves   *)
(* has moved.                                                              *)
Starts(p) ==
    CASE p = 1 -> {original}
      [] p = 2 -> PassResults(1, original)
      [] p = 3 -> UNION {PassResults(2, first) : first \in PassResults(1, original)}
      [] p = 4 -> DecantResults(original)

TriedSoFar(w, tried, turn) ==
    LET n == Len(tried)
    IN  /\ tried \in Seq(SUBSET Guest) /\ NoneTwice(tried)
        /\ ToSet(tried) \cap parts = {}
        /\ ToSet(tried) \cup parts = Partition(pass, w[right].guests)
        /\ PartsInTurn(turn, w, left, right, tried, n)
        /\ TrueHosts(turn[n])
        /\ GuestsMoved(hosts, turn[n], left, right, moving)

FromBefore(w) ==
    /\ stage # "moving" => hosts = w
    /\ stage = "moving" => \E tried, turn : TriedSoFar(w, tried, turn)

FromStart(s) ==
    /\ Len(s) = Len(hosts)
    /\ \A at : IsWalk(at, pass, s) => \E w \in at[<<left, right - 1>>] : FromBefore(w)

FollowsFunction ==
    /\ \E s \in Starts(pass) : FromStart(s)
    /\ pass = 4 => hosts \in Starts(4)

(* The rows of the walk end with the last host, and the second pass parts  *)
(* all of the right host.                                                  *)
WalkFits ==
    /\ left <= Len(hosts) => right <= Len(hosts) + 1
    /\ stage = "searching" => GuestsOf(range) = hosts[right].guests

FollowInv == FollowsFunction /\ WalkFits

(* A pair that has had all its parts tried. *)
LEMMA PairDone ==
  ASSUME MovesInv, stage = "moving", parts = {}, moving = {}, NEW w, FromBefore(w)
  PROVE  hosts \in PairDecanted(pass, w, left, right)
<1>1. PICK tried, turn : TriedSoFar(w, tried, turn)
  BY DEF FromBefore
<1>2. PICK n : n = Len(tried)
  OBVIOUS
<1> DEFINE P == Partition(pass, w[right].guests)
<1>3. /\ tried \in Seq(SUBSET Guest) /\ NoneTwice(tried) /\ ToSet(tried) = P
      /\ PartsInTurn(turn, w, left, right, tried, n)
      /\ TrueHosts(turn[n]) /\ GuestsMoved(hosts, turn[n], left, right, {})
  BY <1>1, <1>2 DEF TriedSoFar
<1>4. n \in Nat /\ DOMAIN tried = 1 .. n
  BY <1>2, <1>3, LenProperties
<1>5. hosts = turn[n]
  <2>1. TrueHosts(hosts) /\ DOMAIN hosts = DOMAIN turn[n]
    BY <1>3, Positions DEF GuestsMoved
  <2>2. \A k \in DOMAIN hosts : hosts[k].guests = turn[n][k].guests
    BY <1>3 DEF GuestsMoved
  <2> QED BY <1>3, <2>1, <2>2, KnownByGuests
<1>6. MoveParts(w, left, right, tried) = turn[n]
  <2>1. PICK last : /\ PartsInTurn(last, w, left, right, tried, n)
                    /\ MoveParts(w, left, right, tried) = last[n]
    BY <1>4, PartsTurns
  <2> DEFINE Good == {k \in 0 .. n : last[k] = turn[k]}
  <2>2. 0 \in Good
    BY <1>3, <1>4, <2>1 DEF PartsInTurn
  <2>3. ASSUME NEW k \in 1 .. n, k - 1 \in Good PROVE k \in Good
    BY <1>3, <1>4, <2>1, <2>3 DEF PartsInTurn
  <2>4. n \in Good
    <3> HIDE DEF Good
    <3> QED BY <1>4, <2>2, <2>3, CountingUp
  <2> QED BY <2>1, <2>4
<1>7. tried \in SetToSeqs(P)
  <2>1. n = Cardinality(P)
    BY <1>2, <1>3, NoneTwiceCounts
  <2>2. tried \in [1 .. n -> P]
    BY <1>2, <1>3, <1>4, LenProperties DEF ToSet
  <2>3. \A k, l \in 1 .. n : k # l => tried[k] # tried[l]
    BY <1>2, <1>3 DEF NoneTwice
  <2> QED BY <2>1, <2>2, <2>3 DEF SetToSeqs
<1> QED BY <1>5, <1>6, <1>7 DEF PairDecanted

LEMMA InitFollows == Init => FollowInv
<1> SUFFICES ASSUME Init PROVE FollowInv
  OBVIOUS
<1>1. /\ original = hosts /\ pass = 1 /\ left = 1 /\ right = 2 /\ stage = "parting"
  BY DEF Init
<1>2. Len(hosts) \in Nat
  BY InitHolds, Positions
<1>3. FromStart(original)
  BY <1>1 DEF FromStart, IsWalk, FromBefore
<1>4. FollowsFunction
  BY <1>1, <1>3 DEF FollowsFunction, Starts
<1>5. WalkFits
  BY <1>1, <1>2 DEF WalkFits
<1> QED BY <1>4, <1>5 DEF FollowInv

(* A step of the moves of one pair.                                        *)
LEMMA SamePair ==
  ASSUME FollowInv, UNCHANGED <<original, pass, left, right>>, Len(hosts') = Len(hosts),
         \A w : FromBefore(w) => FromBefore(w)',
         pass # 4 \/ hosts' = hosts
  PROVE  FollowsFunction'
<1>1. PICK s \in Starts(pass) : FromStart(s)
  BY DEF FollowInv, FollowsFunction
<1>2. s \in Starts(pass)' /\ Starts(4)' = Starts(4)
  BY DEF Starts
<1>3. FromStart(s)'
  BY <1>1 DEF FromStart
<1> QED BY <1>2, <1>3 DEF FollowInv, FollowsFunction

LEMMA IdleFollows ==
  ASSUME FollowInv,
         UNCHANGED <<original, hosts, guestCount, pass, left, right, parts, moving, stage>>,
         range' = range
  PROVE  FollowInv'
<1>1. \A w : FromBefore(w) => FromBefore(w)'
  BY DEF FromBefore, TriedSoFar
<1>2. FollowsFunction'
  BY <1>1, SamePair
<1> QED BY <1>2 DEF FollowInv, WalkFits

(* A pair begins with no part tried.                                       *)
LEMMA NothingTried ==
  ASSUME MovesInv, stage # "moving", stage' = "moving", parts' = Partition(pass, hosts[right].guests),
         moving = {}, UNCHANGED <<hosts, pass, left, right, moving>>,
         NEW w, FromBefore(w)
  PROVE  FromBefore(w)'
<1>1. hosts = w /\ TrueHosts(hosts)
  BY Positions DEF FromBefore
<1> DEFINE turn == [k \in {0} |-> w]
<1>2. <<>> \in Seq(SUBSET Guest) /\ Len(<<>>) = 0 /\ NoneTwice(<<>>) /\ ToSet(<<>>) = {}
  BY EmptySeq DEF NoneTwice, ToSet
<1>3. turn[0] = w
  OBVIOUS
<1>4. PartsInTurn(turn, w, left, right, <<>>, 0)
  BY <1>3 DEF PartsInTurn
<1> HIDE DEF turn
<1>5. GuestsMoved(hosts, w, left, right, {})
  BY <1>1 DEF GuestsMoved
<1>6. TriedSoFar(w, <<>>, turn)'
  BY <1>1, <1>2, <1>3, <1>4, <1>5 DEF TriedSoFar
<1> QED BY <1>6 DEF FromBefore

LEMMA PartFollows ==
  ASSUME MovesInv, FollowInv, PartRightHost
  PROVE  FollowInv'
<1>1. /\ stage = "parting" /\ stage' = "moving" /\ moving = {} /\ pass \in {1, 3}
      /\ parts' = Partition(pass, hosts[right].guests)
      /\ UNCHANGED <<original, hosts, pass, left, right, moving>>
  BY DEF PartRightHost, MovesInv, StagesFit
<1>2. \A w : FromBefore(w) => FromBefore(w)'
  BY <1>1, NothingTried
<1>3. FollowsFunction'
  BY <1>1, <1>2, SamePair
<1> QED BY <1>1, <1>3 DEF FollowInv, WalkFits

LEMMA BeginFollows ==
  ASSUME MovesInv, FollowInv, BeginSearches
  PROVE  FollowInv'
<1>1. /\ stage = "parting" /\ stage' = "searching" /\ right <= Len(hosts) /\ pass = 2
      /\ UNCHANGED <<original, hosts, pass, left, right, parts, moving>>
  BY DEF BeginSearches
<1>2. \A w : FromBefore(w) => FromBefore(w)'
  BY <1>1 DEF FromBefore
<1>3. FollowsFunction'
  BY <1>1, <1>2, SamePair
<1>4. PICK guests \in SetToSeqs(hosts[right].guests) : Search!Begin(guests)
  BY DEF BeginSearches
<1>5. hosts[right].guests \in SUBSET Guest
  BY <1>1, Positions
<1>6. range' = guests /\ GuestsOf(guests) = hosts[right].guests
  BY <1>4, <1>5, GuestFinite, OrdersOfSet DEF Search!Begin
<1>7. GuestsOf(range)' = hosts[right].guests
  BY <1>6 DEF GuestsOf
<1> QED BY <1>1, <1>3, <1>7 DEF FollowInv, WalkFits

LEMMA EndFollows ==
  ASSUME MovesInv, SearchInv, FollowInv, EndSearches
  PROVE  FollowInv'
<1>1. /\ stage = "searching" /\ stage' = "moving" /\ Search!Done
      /\ parts' = {ToSet(result[i]) : i \in DOMAIN result}
      /\ UNCHANGED <<original, hosts, pass, left, right, moving>>
  BY DEF EndSearches
<1>2. moving = {} /\ pass = 2
  BY <1>1 DEF MovesInv, StagesFit
<1>3. parts' = ComponentsOf(hosts[right].guests)
  BY <1>1, SearchesFindComponents DEF FollowInv, WalkFits
<1>4. parts' = Partition(pass, hosts[right].guests)
  BY <1>2, <1>3 DEF Partition
<1>5. \A w : FromBefore(w) => FromBefore(w)'
  BY <1>1, <1>2, <1>4, NothingTried
<1>6. FollowsFunction'
  BY <1>1, <1>5, SamePair
<1> QED BY <1>1, <1>6 DEF FollowInv, WalkFits

LEMMA TryFollows ==
  ASSUME MovesInv, FollowInv, TryPart
  PROVE  FollowInv'
<1>1. PICK part \in parts :
         /\ parts' = parts \ {part}
         /\ moving' = IF AccommodatesGuests(hosts[left], part) THEN part ELSE {}
  BY DEF TryPart
<1>2. /\ moving = {} /\ stage = "moving" /\ stage' = "moving" /\ right <= Len(hosts)
      /\ UNCHANGED <<original, hosts, pass, left, right, search>>
  BY <1>1 DEF TryPart, MovesInv, StagesFit
<1>3. /\ left \in DOMAIN hosts /\ right \in DOMAIN hosts /\ left # right
      /\ TrueHosts(hosts) /\ NoGuestTwice(hosts)
      /\ part \in SUBSET hosts[right].guests /\ part \in SUBSET Guest
  BY <1>1, <1>2, Positions DEF MovesInv, PartsApart
<1>4. PICK new : new = MovePart(hosts, left, right, part)
  OBVIOUS
<1>5. TrueHosts(new) /\ GuestsMoved(hosts, new, left, right, moving')
  <2>1. CASE AccommodatesGuests(hosts[left], part)
    BY <1>1, <1>3, <1>4, <2>1, MovePartTrue
  <2>2. CASE ~AccommodatesGuests(hosts[left], part)
    <3>1. new = hosts /\ moving' = {}
      BY <1>1, <1>4, <2>2 DEF MovePart
    <3> QED BY <1>3, <3>1 DEF GuestsMoved
  <2> QED BY <2>1, <2>2
<1>6. ASSUME NEW w, FromBefore(w) PROVE FromBefore(w)'
  <2>1. PICK tried, turn : TriedSoFar(w, tried, turn)
    BY <1>2, <1>6 DEF FromBefore
  <2>2. PICK n : n = Len(tried)
    OBVIOUS
  <2>3. /\ tried \in Seq(SUBSET Guest) /\ NoneTwice(tried) /\ n \in Nat /\ DOMAIN tried = 1 .. n
        /\ ToSet(tried) \cap parts = {}
        /\ ToSet(tried) \cup parts = Partition(pass, w[right].guests)
        /\ PartsInTurn(turn, w, left, right, tried, n)
        /\ TrueHosts(turn[n]) /\ GuestsMoved(hosts, turn[n], left, right, {})
    BY <1>2, <2>1, <2>2, LenProperties DEF TriedSoFar
  <2>4. hosts = turn[n]
    <3>1. DOMAIN hosts = DOMAIN turn[n] /\ \A k \in DOMAIN hosts : hosts[k].guests = turn[n][k].guests
      BY <2>3 DEF GuestsMoved
    <3> QED BY <1>3, <2>3, <3>1, KnownByGuests
  <2>5. PICK more : more = Append(tried, part)
    OBVIOUS
  <2>6. /\ more \in Seq(SUBSET Guest) /\ NoneTwice(more) /\ ToSet(more) = ToSet(tried) \cup {part}
        /\ Len(more) = n + 1
    BY <1>1, <1>3, <2>2, <2>3, <2>5, AppendNoneTwice
  <2>7. more[n + 1] = part /\ \A k \in 1 .. n : more[k] = tried[k]
    BY <1>3, <2>2, <2>3, <2>5, AppendProperties
  <2> DEFINE next == [k \in 0 .. n + 1 |-> IF k = n + 1 THEN new ELSE turn[k]]
  <2>8. next[n + 1] = new /\ \A k \in 0 .. n : next[k] = turn[k]
    BY <2>3
  <2> HIDE DEF next
  <2>9. PartsInTurn(next, w, left, right, more, n + 1)
    <3>1. next[0] = w
      BY <2>3, <2>8 DEF PartsInTurn
    <3>2. ASSUME NEW k \in 1 .. n PROVE next[k] = MovePart(next[k - 1], left, right, more[k])
      <4>1. next[k] = turn[k] /\ next[k - 1] = turn[k - 1] /\ more[k] = tried[k]
        BY <2>3, <2>7, <2>8
      <4> QED BY <2>3, <4>1 DEF PartsInTurn
    <3>3. next[n + 1] = MovePart(next[(n + 1) - 1], left, right, more[n + 1])
      <4>1. next[(n + 1) - 1] = hosts
        BY <2>3, <2>4, <2>8
      <4> QED BY <1>4, <2>7, <2>8, <4>1
    <3>4. \A k \in 1 .. n + 1 : k \in 1 .. n \/ k = n + 1
      BY <2>3
    <3> QED BY <3>1, <3>2, <3>3, <3>4 DEF PartsInTurn
  <2>10. ToSet(more) \cap parts' = {} /\ ToSet(more) \cup parts' = ToSet(tried) \cup parts
    BY <1>1, <2>3, <2>6
  <2>11. TriedSoFar(w, more, next)'
    BY <1>2, <1>5, <2>3, <2>6, <2>8, <2>9, <2>10 DEF TriedSoFar
  <2> QED BY <1>2, <2>11 DEF FromBefore
<1>7. FollowsFunction'
  BY <1>2, <1>6, SamePair
<1> QED BY <1>2, <1>7 DEF FollowInv, WalkFits

LEMMA MoveFollows ==
  ASSUME MovesInv, FollowInv, MoveGuest
  PROVE  FollowInv'
<1>1. PICK g \in moving : hosts' = TakeOff(PlaceOn(hosts, left, g), right, g) /\ moving' = moving \ {g}
  BY DEF MoveGuest, Moved
<1>2. /\ stage = "moving" /\ stage' = "moving" /\ right <= Len(hosts) /\ pass # 4
      /\ UNCHANGED <<original, pass, left, right, parts, range>>
  BY <1>1 DEF MoveGuest, MovesInv, StagesFit, search
<1>3. /\ left \in DOMAIN hosts /\ right \in DOMAIN hosts /\ left # right
      /\ TrueHosts(hosts) /\ NoGuestTwice(hosts) /\ moving \subseteq hosts[right].guests
  BY <1>1, <1>2, Positions DEF MovesInv, PartsApart
<1>4. /\ DOMAIN hosts' = DOMAIN hosts /\ Len(hosts') = Len(hosts)
      /\ hosts'[left].guests = hosts[left].guests \cup {g}
      /\ hosts'[right].guests = hosts[right].guests \ {g}
      /\ \A k \in DOMAIN hosts : k # left /\ k # right => hosts'[k] = hosts[k]
  BY <1>1, <1>3, MoveTrue
<1>5. ASSUME NEW new, GuestsMoved(hosts, new, left, right, moving)
      PROVE  GuestsMoved(hosts', new, left, right, moving')
  <2>1. DOMAIN new = DOMAIN hosts'
    BY <1>4, <1>5 DEF GuestsMoved
  <2>2. new[left].guests = hosts'[left].guests \cup moving'
    <3>1. new[left].guests = hosts[left].guests \cup moving
      BY <1>3, <1>5 DEF GuestsMoved
    <3> QED BY <1>1, <1>4, <3>1
  <2>3. new[right].guests = hosts'[right].guests \ moving'
    <3>1. new[right].guests = hosts[right].guests \ moving
      BY <1>3, <1>5 DEF GuestsMoved
    <3> QED BY <1>1, <1>4, <3>1
  <2>4. ASSUME NEW k \in DOMAIN hosts, k # left, k # right
        PROVE  new[k].guests = hosts'[k].guests
    <3>1. new[k].guests = hosts[k].guests
      BY <1>5, <2>4 DEF GuestsMoved
    <3> QED BY <1>4, <2>4, <3>1
  <2> QED BY <1>3, <1>4, <2>1, <2>2, <2>3, <2>4 DEF GuestsMoved
<1>6. ASSUME NEW w, FromBefore(w) PROVE FromBefore(w)'
  <2>1. PICK tried, turn : TriedSoFar(w, tried, turn)
    BY <1>2, <1>6 DEF FromBefore
  <2>2. TriedSoFar(w, tried, turn)'
    BY <1>2, <1>5, <2>1 DEF TriedSoFar
  <2> QED BY <1>2, <2>2 DEF FromBefore
<1>7. FollowsFunction'
  BY <1>2, <1>4, <1>6, SamePair
<1> QED BY <1>2, <1>4, <1>7 DEF FollowInv, WalkFits

LEMMA NextRightFollows ==
  ASSUME MovesInv, FollowInv, NextRight
  PROVE  FollowInv'
<1>1. /\ stage = "moving" /\ parts = {} /\ moving = {} /\ stage' = "parting" /\ right' = right + 1
      /\ UNCHANGED <<original, hosts, pass, left, parts, moving>>
  BY DEF NextRight
<1>2. right <= Len(hosts) /\ pass # 4
  BY <1>1 DEF MovesInv, StagesFit
<1>3. /\ left \in 1 .. Len(hosts) /\ right \in 1 .. Len(hosts) /\ left < right /\ Len(hosts) \in Nat
      /\ right' - 1 = right
  BY <1>1, <1>2, Positions
<1>4. PICK s \in Starts(pass) : FromStart(s)
  BY DEF FollowInv, FollowsFunction
<1>5. ASSUME NEW at, IsWalk(at, pass, s) PROVE hosts \in at[<<left, right>>]
  <2>1. PICK w \in at[<<left, right - 1>>] : FromBefore(w)
    BY <1>4, <1>5 DEF FromStart
  <2>2. hosts \in PairDecanted(pass, w, left, right)
    BY <1>1, <2>1, PairDone
  <2>3. at[<<left, right>>] = PairsDecanted(pass, at[<<left, right - 1>>], left, right)
    BY <1>3, <1>4, <1>5 DEF IsWalk, FromStart
  <2> QED BY <2>1, <2>2, <2>3 DEF PairsDecanted
<1>6. FromBefore(hosts)'
  BY <1>1 DEF FromBefore
<1>7. FromStart(s)'
  <2>1. Len(s)' = Len(hosts)'
    BY <1>1, <1>4 DEF FromStart
  <2>2. ASSUME NEW at, IsWalk(at, pass, s)' PROVE (\E w \in at[<<left, right - 1>>] : FromBefore(w))'
    <3>1. IsWalk(at, pass, s)
      BY <1>1, <2>2 DEF IsWalk
    <3>2. hosts' \in at[<<left', right' - 1>>]
      BY <1>1, <1>3, <1>5, <3>1
    <3> QED BY <1>6, <3>2
  <2> QED BY <2>1, <2>2 DEF FromStart
<1>8. FollowsFunction'
  BY <1>1, <1>2, <1>4, <1>7 DEF FollowsFunction, Starts
<1>9. WalkFits'
  BY <1>1, <1>2, <1>3 DEF WalkFits
<1> QED BY <1>8, <1>9 DEF FollowInv

LEMMA NextLeftFollows ==
  ASSUME MovesInv, FollowInv, NextLeft
  PROVE  FollowInv'
<1>1. /\ left <= Len(hosts) /\ right > Len(hosts) /\ left' = left + 1 /\ right' = left + 2
      /\ pass # 4
      /\ UNCHANGED <<original, hosts, pass, parts, moving, stage>>
  BY DEF NextLeft, Done
<1>2. stage = "parting"
  BY <1>1, Positions DEF MovesInv, StagesFit
<1>3. /\ left \in 1 .. Len(hosts) /\ Len(hosts) \in Nat /\ right - 1 = Len(hosts)
      /\ right' - 1 = left + 1
  BY <1>1, Positions DEF FollowInv, WalkFits
<1>4. PICK s \in Starts(pass) : FromStart(s)
  BY DEF FollowInv, FollowsFunction
<1>5. ASSUME NEW at, IsWalk(at, pass, s) PROVE hosts \in at[<<left + 1, left + 1>>]
  <2>1. PICK w \in at[<<left, right - 1>>] : FromBefore(w)
    BY <1>4, <1>5 DEF FromStart
  <2>2. at[<<left + 1, left + 1>>] = at[<<left, Len(hosts)>>]
    BY <1>3, <1>4, <1>5 DEF IsWalk, FromStart
  <2> QED BY <1>2, <1>3, <2>1, <2>2 DEF FromBefore
<1>6. FromBefore(hosts)'
  BY <1>1, <1>2 DEF FromBefore
<1>7. FromStart(s)'
  <2>1. Len(s)' = Len(hosts)'
    BY <1>1, <1>4 DEF FromStart
  <2>2. ASSUME NEW at, IsWalk(at, pass, s)' PROVE (\E w \in at[<<left, right - 1>>] : FromBefore(w))'
    <3>1. IsWalk(at, pass, s)
      BY <1>1, <2>2 DEF IsWalk
    <3>2. hosts' \in at[<<left', right' - 1>>]
      BY <1>1, <1>3, <1>5, <3>1
    <3> QED BY <1>6, <3>2
  <2> QED BY <2>1, <2>2 DEF FromStart
<1>8. FollowsFunction'
  BY <1>1, <1>4, <1>7 DEF FollowsFunction, Starts
<1>9. WalkFits'
  BY <1>1, <1>2, <1>3 DEF WalkFits
<1> QED BY <1>8, <1>9 DEF FollowInv

(* What a pass leaves is where the next one starts.                        *)
LEMMA NextStart ==
  ASSUME NEW p \in 1 .. 3, NEW s \in Starts(p), NEW new \in PassResults(p, s)
  PROVE  new \in Starts(p + 1)
<1>1. CASE p = 1
  BY <1>1 DEF Starts
<1>2. CASE p = 2
  <2>1. p + 1 = 3
    BY <1>2
  <2> QED BY <1>2, <2>1 DEF Starts
<1>3. CASE p = 3
  <2>1. p + 1 = 4
    BY <1>3
  <2>2. s \in UNION {PassResults(2, first) : first \in PassResults(1, original)}
    BY <1>3 DEF Starts
  <2>3. new \in DecantResults(original)
    BY <1>3, <2>2 DEF DecantResults
  <2> QED BY <2>1, <2>3 DEF Starts
<1> QED BY <1>1, <1>2, <1>3

LEMMA EraseFollows ==
  ASSUME MovesInv, FollowInv, EraseEmptyHosts
  PROVE  FollowInv'
<1>1. /\ left > Len(hosts) /\ hosts' = EraseEmpty(hosts) /\ pass # 4
      /\ pass' = pass + 1 /\ left' = 1 /\ right' = 2 /\ original' = original /\ stage' = stage
  BY DEF EraseEmptyHosts, Done
<1>2. /\ stage = "parting" /\ pass \in 1 .. 3 /\ Len(hosts) \in Nat
      /\ left = Len(hosts) + 1 /\ right - 1 = left
  BY <1>1, Positions DEF MovesInv, StagesFit
<1>3. PICK s \in Starts(pass) : FromStart(s)
  BY DEF FollowInv, FollowsFunction
<1>4. Len(s) = Len(hosts)
  BY <1>3 DEF FromStart
<1>5. PICK at : IsWalk(at, pass, s) /\ AllDecanted(pass, s, Len(s)) = at[<<Len(s) + 1, Len(s) + 1>>]
  BY <1>2, <1>4, WalkExists
<1>6. PICK w \in at[<<left, right - 1>>] : FromBefore(w)
  BY <1>3, <1>5 DEF FromStart
<1>7. hosts \in AllDecanted(pass, s, Len(s))
  BY <1>2, <1>4, <1>5, <1>6 DEF FromBefore
<1>8. hosts' \in PassResults(pass, s)
  BY <1>1, <1>7 DEF PassResults
<1>9. PICK new : new = hosts'
  OBVIOUS
<1>10. new \in Starts(pass)'
  <2>1. new \in Starts(pass + 1)
    BY <1>2, <1>8, <1>9, NextStart
  <2> QED BY <1>1, <2>1 DEF Starts
<1>11. FromStart(new)'
  <2>1. FromBefore(new)'
    BY <1>1, <1>2, <1>9 DEF FromBefore
  <2>2. ASSUME NEW walk, IsWalk(walk, pass, new)' PROVE (\E v \in walk[<<left, right - 1>>] : FromBefore(v))'
    <3>1. new \in walk[<<left', right' - 1>>]
      BY <1>1, <2>2 DEF IsWalk
    <3> QED BY <2>1, <3>1
  <2>3. Len(new)' = Len(hosts)'
    BY <1>9
  <2> QED BY <2>2, <2>3 DEF FromStart
<1>12. FollowsFunction'
  <2>1. (pass = 4 => hosts \in Starts(4))'
    BY <1>9, <1>10
  <2> QED BY <1>10, <1>11, <2>1 DEF FollowsFunction
<1>13. Len(hosts') \in Nat
  BY <1>1, EraseEmptyTrue, Positions, LenProperties DEF GoodHosts, TrueHosts
<1>14. WalkFits'
  BY <1>1, <1>2, <1>13 DEF WalkFits
<1> QED BY <1>12, <1>14 DEF FollowInv

(* The function by which the solvers that decant are modelled has among    *)
(* its results what the moves lead to, whatever the order of the parts and *)
(* of the guests of a part (vmp_packing.cpp:16-20).                        *)
THEOREM DecantingReachesAResult == Spec => []ReachesAResult
<1>1. Init => FollowInv
  BY InitFollows
<1>2. ASSUME MovesInv, SearchInv, FollowInv, [Next]_vars PROVE FollowInv'
  <2>1. CASE UNCHANGED vars
    BY <1>2, <2>1, IdleFollows DEF vars, search
  <2>2. CASE ContinueSearches
    <3>1. /\ Search!Next
          /\ UNCHANGED <<original, hosts, guestCount, pass, left, right, parts, moving, stage>>
      BY <2>2 DEF ContinueSearches
    <3>2. range' = range
      BY <3>1 DEF Search!Next, Search!SkipDiscovered, Search!StartSearch, Search!VisitFront, Search!EndSearch
    <3> QED BY <1>2, <3>1, <3>2, IdleFollows
  <2>3. CASE PartRightHost
    BY <1>2, <2>3, PartFollows
  <2>4. CASE BeginSearches
    BY <1>2, <2>4, BeginFollows
  <2>5. CASE EndSearches
    BY <1>2, <2>5, EndFollows
  <2>6. CASE TryPart
    BY <1>2, <2>6, TryFollows
  <2>7. CASE MoveGuest
    BY <1>2, <2>7, MoveFollows
  <2>8. CASE NextRight
    BY <1>2, <2>8, NextRightFollows
  <2>9. CASE NextLeft
    BY <1>2, <2>9, NextLeftFollows
  <2>10. CASE EraseEmptyHosts
    BY <1>2, <2>10, EraseFollows
  <2> QED BY <1>2, <2>1, <2>2, <2>3, <2>4, <2>5, <2>6, <2>7, <2>8, <2>9, <2>10 DEF Next
<1>3. FollowInv => ReachesAResult
  BY DEF FollowInv, FollowsFunction, ReachesAResult, Done, Starts
<1> QED BY <1>1, <1>2, <1>3, Invariance, PTL DEF Spec
=============================================================================
