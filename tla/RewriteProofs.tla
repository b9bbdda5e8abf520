---------------------------- MODULE RewriteProofs ---------------------------
(***************************************************************************)
(* A rewrite of the journal while clients, the sampler and eviction go on, *)
(* proved for every set of clients, keys, shards and requests.  The        *)
(* invariant follows the file that the rewrite would install: until the    *)
(* snapshot has read a key, replaying the tail over the old journal        *)
(* changes nothing under it; once it has, the new file agrees with the     *)
(* store, and keeps whatever the old one would bring back.                 *)
(* Commands stay atomic meanwhile.  Last come the two results about Store  *)
(* that need sums or a greatest number: the memory counters are exact, and *)
(* clients never deadlock.                                                 *)
(***************************************************************************)
EXTENDS Rewrite, Accounting, AtomicProofs

-----------------------------------------------------------------------------
(***************************************************************************)
(* The tail as one effect.                                                 *)
(***************************************************************************)

\* The effect f, replayed at t, does not turn into a deletion.
Sound(f, t) ==
    /\ f.do = "put" => ~Expired(f.entry, t)
    /\ f.do = "stamp" => f.exp > t

\* The four forms of an effect.
LEMMA EffectCases ==
  ASSUME NEW f \in Effect
  PROVE  \/ f = NoEffect /\ f.do = "none"
         \/ f = DelEffect /\ f.do = "del"
         \/ f.do = "put" /\ f.entry \in Entry /\ f = PutEffect(f.entry)
         \/ f.do = "stamp" /\ f.exp \in Deadlines /\ f = StampEffect(f.exp)
BY DEF Effect, NoEffect, DelEffect, PutEffect, StampEffect

\* What replaying an effect amounts to.
LEMMA ReplayCases ==
  ASSUME NEW f \in Effect, NEW x \in Slot, NEW t \in Times
  PROVE  /\ f.do = "none" => ReplayKey(f, x, t) = x
         /\ f.do = "del" => ReplayKey(f, x, t) = Absent
         /\ f.do = "put" => ReplayKey(f, x, t) = IF Expired(f.entry, t) THEN Absent ELSE f.entry
         /\ f.do = "stamp" => ReplayKey(f, x, t) =
              IF Live(x, t) /\ f.exp > t THEN [x EXCEPT !.exp = f.exp] ELSE Absent
BY DEF ReplayKey

\* The effect h is f and then g, case by case.
Composes(h, f, g, t) ==
    /\ g.do = "none" => h = f
    /\ g.do = "del" => h = DelEffect
    /\ g.do = "put" /\ Expired(g.entry, t) => h = DelEffect
    /\ g.do = "put" /\ ~Expired(g.entry, t) => h = g
    /\ g.do = "stamp" /\ (f.do = "del" \/ g.exp <= t) => h = DelEffect
    /\ g.do = "stamp" /\ f.do = "put" /\ g.exp > t => h = PutEffect([f.entry EXCEPT !.exp = g.exp])
    /\ g.do = "stamp" /\ f.do \in {"none", "stamp"} /\ g.exp > t => h = g

\* What composing two effects amounts to.
LEMMA ThenCases ==
  ASSUME NEW f \in Effect, NEW g \in Effect, NEW t \in Times
  PROVE  Composes(Then(f, g, t), f, g, t)
<1>1. g.do = "none" => Then(f, g, t) = f
  BY DEF Then
<1>2. g.do = "del" => Then(f, g, t) = DelEffect
  BY DEF Then
<1>3. g.do = "put" => Then(f, g, t) = IF Expired(g.entry, t) THEN DelEffect ELSE g
  BY DEF Then
<1>4. ASSUME g.do = "stamp"
      PROVE  /\ f.do = "del" \/ g.exp <= t => Then(f, g, t) = DelEffect
             /\ f.do = "put" /\ g.exp > t =>
                  Then(f, g, t) = PutEffect([f.entry EXCEPT !.exp = g.exp])
             /\ f.do \in {"none", "stamp"} /\ g.exp > t => Then(f, g, t) = g
  <2>1. g.exp \in Int /\ t \in Int
    BY <1>4, EffectCases, KeyspaceAssumption DEF Deadlines, Times
  <2>2. Then(f, g, t) = CASE f.do = "del" \/ g.exp <= t -> DelEffect
                          [] f.do = "put" /\ g.exp > t  -> PutEffect([f.entry EXCEPT !.exp = g.exp])
                          [] OTHER                      -> g
    BY <1>4 DEF Then
  <2> QED BY <2>1, <2>2
<1> QED BY <1>1, <1>2, <1>3, <1>4 DEF Composes

\* Restamping a live entry with a deadline still ahead leaves a live entry.
LEMMA Restamped ==
  ASSUME NEW e \in Entry, NEW d \in Deadlines, NEW t \in Times, d > t
  PROVE  /\ [e EXCEPT !.exp = d] \in Entry /\ [e EXCEPT !.exp = d] # Absent
         /\ ~Expired([e EXCEPT !.exp = d], t) /\ Live([e EXCEPT !.exp = d], t)
         /\ \A c : [[e EXCEPT !.exp = c] EXCEPT !.exp = d] = [e EXCEPT !.exp = d]
<1>1. [e EXCEPT !.exp = d] \in Entry /\ [e EXCEPT !.exp = d].exp = d
  BY DEF Entry
<1>2. ~Expired([e EXCEPT !.exp = d], t)
  BY <1>1, KeyspaceAssumption DEF Expired, Deadlines, Times
<1>3. \A c : [[e EXCEPT !.exp = c] EXCEPT !.exp = d] = [e EXCEPT !.exp = d]
  BY Zenon DEF Entry
<1> QED BY Zenon, <1>1, <1>2, <1>3, AbsentNotEntry DEF Live

\* The composition of two effects is an effect.
LEMMA ThenType ==
  ASSUME NEW f \in Effect, NEW g \in Effect, NEW t \in Times
  PROVE  Then(f, g, t) \in Effect
<1>c. Composes(Then(f, g, t), f, g, t)
  BY ThenCases
<1>1. CASE g.do = "stamp" /\ f.do = "put" /\ g.exp > t
  <2>1. f.entry \in Entry /\ g.exp \in Deadlines
    BY <1>1, EffectCases
  <2>2. [f.entry EXCEPT !.exp = g.exp] \in Entry
    BY <2>1 DEF Entry
  <2> QED BY <1>1, <2>2, <1>c, EffectTypes DEF Composes
<1>2. CASE g.do = "stamp" /\ ~(f.do = "put" /\ g.exp > t)
  <2>1. g.exp \in Int /\ t \in Int
    BY <1>2, EffectCases, KeyspaceAssumption DEF Deadlines, Times
  <2>2. f.do \in {"none", "del", "put", "stamp"}
    BY EffectCases
  <2>3. f.do = "del" \/ g.exp <= t \/ (f.do \in {"none", "stamp"} /\ g.exp > t)
    BY <1>2, <2>1, <2>2
  <2>4. /\ f.do = "del" \/ g.exp <= t => Then(f, g, t) = DelEffect
        /\ f.do \in {"none", "stamp"} /\ g.exp > t => Then(f, g, t) = g
    BY <1>2, <1>c DEF Composes
  <2> QED BY <2>3, <2>4, EffectTypes
<1>3. CASE g.do # "stamp"
  <2>1. g.do \in {"none", "del", "put"}
    BY <1>3, EffectCases
  <2>2. Then(f, g, t) \in {f, g, DelEffect}
    BY <2>1, <1>c DEF Composes
  <2> QED BY <2>2, EffectTypes
<1> QED BY <1>1, <1>2, <1>3

\* A sound tail stays sound when a record is mirrored into it.
LEMMA ThenSound ==
  ASSUME NEW f \in Effect, NEW g \in Effect, NEW t \in Times, Sound(f, t)
  PROVE  Then(f, g, t) \in Effect /\ Sound(Then(f, g, t), t)
<1> DEFINE h == Then(f, g, t)
<1>c. Composes(Then(f, g, t), f, g, t)
  BY ThenCases
<1>1. CASE h = f
  BY <1>1
<1>2. CASE h = DelEffect
  BY <1>2, EffectTypes DEF Sound, DelEffect
<1>3. CASE h = g /\ Sound(g, t)
  BY <1>3
<1>4. CASE g.do = "stamp" /\ f.do = "put" /\ g.exp > t
  <2> DEFINE e == [f.entry EXCEPT !.exp = g.exp]
  <2>1. f.entry \in Entry /\ g.exp \in Deadlines /\ h = PutEffect(e)
    BY <1>4, EffectCases, <1>c DEF Composes
  <2>2. e \in Entry /\ ~Expired(e, t)
    BY Zenon, <1>4, <2>1, Restamped
  <2> QED BY <2>1, <2>2, EffectTypes DEF Sound, PutEffect
<1>5. \/ h = f \/ h = DelEffect \/ (h = g /\ Sound(g, t))
      \/ (g.do = "stamp" /\ f.do = "put" /\ g.exp > t)
  <2>1. CASE g.do \in {"none", "del"}
    BY <2>1, <1>c DEF Composes
  <2>2. CASE g.do = "put"
    BY <2>2, <1>c DEF Composes, Sound
  <2>3. CASE g.do = "stamp"
    <3>1. g.exp \in Int /\ t \in Int
      BY <2>3, EffectCases, KeyspaceAssumption DEF Deadlines, Times
    <3>2. f.do \in {"none", "del", "put", "stamp"} /\ (g.exp <= t \/ g.exp > t)
      BY <3>1, EffectCases
    <3> QED BY <2>3, <3>2, <1>c DEF Composes, Sound
  <2>4. g.do \in {"none", "del", "put", "stamp"}
    BY EffectCases
  <2> QED BY <2>1, <2>2, <2>3, <2>4
<1> QED BY <1>1, <1>2, <1>3, <1>4, <1>5

\* Replaying the composition is replaying one effect after the other.
LEMMA ThenReplays ==
  ASSUME NEW f \in Effect, NEW g \in Effect, NEW t \in Times, NEW x \in Slot, Sound(f, t)
  PROVE  ReplayKey(Then(f, g, t), x, t) = ReplayKey(g, ReplayKey(f, x, t), t)
<1> DEFINE y == ReplayKey(f, x, t)
           h == Then(f, g, t)
<1>c. Composes(Then(f, g, t), f, g, t)
  BY ThenCases
<1>0. y \in Slot /\ h \in Effect
  BY ReplayKeyType, ThenSound
<1>d. ReplayKey(DelEffect, x, t) = Absent
  BY DEF ReplayKey, DelEffect
<1>t. /\ g.do = "none" => h = f
      /\ g.do = "del" => h = DelEffect
      /\ g.do = "put" => h = IF Expired(g.entry, t) THEN DelEffect ELSE g
      /\ g.do = "stamp" /\ g.exp <= t => h = DelEffect
  BY <1>c DEF Composes
<1>r. /\ g.do = "none" => ReplayKey(g, y, t) = y
      /\ g.do = "del" => ReplayKey(g, y, t) = Absent
      /\ g.do = "put" => ReplayKey(g, y, t) = IF Expired(g.entry, t) THEN Absent ELSE g.entry
      /\ g.do = "stamp" /\ ~(g.exp > t) => ReplayKey(g, y, t) = Absent
  BY <1>0, ReplayCases
<1>x. /\ g.do = "none" => ReplayKey(g, x, t) = x
      /\ g.do = "del" => ReplayKey(g, x, t) = Absent
      /\ g.do = "put" => ReplayKey(g, x, t) = IF Expired(g.entry, t) THEN Absent ELSE g.entry
      /\ g.do = "stamp" /\ ~(g.exp > t) => ReplayKey(g, x, t) = Absent
  BY ReplayCases
<1>1. CASE g.do = "none"
  BY <1>1, <1>t, <1>r, <1>x
<1>2. CASE g.do = "del"
  BY <1>2, <1>d, <1>t, <1>r, <1>x
<1>3. CASE g.do = "put"
  BY <1>3, <1>d, <1>t, <1>r, <1>x
<1>4. CASE g.do = "stamp"
  <2>0. g.exp \in Deadlines /\ g.exp \in Int /\ t \in Int
    BY <1>4, EffectCases, KeyspaceAssumption DEF Deadlines, Times
  <2>1. CASE g.exp <= t
    <3>1. ~(g.exp > t)
      BY <2>0, <2>1
    <3> QED BY <1>d, <1>t, <1>r, <1>x, <1>4, <2>1, <3>1
  <2>2. CASE f.do = "del"
    <3>1. y = Absent
      BY <2>2, ReplayCases
    <3>2. ReplayKey(g, y, t) = Absent
      BY <1>0, <1>4, <3>1, ReplayCases DEF Live
    <3> QED BY <1>d, <1>4, <2>2, <3>2, <1>c DEF Composes
  <2>3. CASE f.do = "put" /\ g.exp > t
    <3> DEFINE e == [f.entry EXCEPT !.exp = g.exp]
    <3>1. f.entry \in Entry /\ y = f.entry /\ h = PutEffect(e)
      BY <1>4, <2>3, EffectCases, ReplayCases, <1>c DEF Composes, Sound
    <3>2. e \in Entry /\ ~Expired(e, t)
      BY Zenon, <2>0, <2>3, <3>1, Restamped
    <3>3. ReplayKey(h, x, t) = e
      BY <3>1, <3>2 DEF ReplayKey, PutEffect
    <3>4. Live(y, t)
      BY <2>3, <3>1, AbsentNotEntry DEF Live, Sound
    <3> QED BY <1>0, <1>4, <2>3, <3>1, <3>3, <3>4, ReplayCases
  <2>4. CASE f.do = "none" /\ g.exp > t
    BY <1>4, <2>4, <1>c, ReplayCases DEF Composes
  <2>5. CASE f.do = "stamp" /\ g.exp > t
    <3>1. h = g /\ f.exp \in Deadlines /\ f.exp > t
      BY <1>4, <2>5, EffectCases, <1>c DEF Composes, Sound
    <3>2. CASE Live(x, t)
      <4>1. x \in Entry
        BY <3>2 DEF Live, Slot
      <4>2. y = [x EXCEPT !.exp = f.exp]
        BY <2>5, <3>1, <3>2, ReplayCases
      <4>3. Live(y, t) /\ [y EXCEPT !.exp = g.exp] = [x EXCEPT !.exp = g.exp]
        <5>1. Live([x EXCEPT !.exp = f.exp], t)
          BY Zenon, <3>1, <4>1, Restamped
        <5>2. [[x EXCEPT !.exp = f.exp] EXCEPT !.exp = g.exp] = [x EXCEPT !.exp = g.exp]
          BY Zenon, <2>0, <2>5, <4>1, Restamped
        <5> QED BY <4>2, <5>1, <5>2
      <4>4. ReplayKey(g, y, t) = [y EXCEPT !.exp = g.exp]
        BY Zenon, <1>0, <1>4, <2>5, <4>3, ReplayCases
      <4>5. ReplayKey(g, x, t) = [x EXCEPT !.exp = g.exp]
        BY <1>4, <2>5, <3>2, ReplayCases
      <4> QED BY <3>1, <4>3, <4>4, <4>5
    <3>3. CASE ~Live(x, t)
      <4>1. y = Absent
        BY <2>5, <3>3, ReplayCases
      <4>2. ReplayKey(g, y, t) = Absent
        BY <1>0, <1>4, <4>1, ReplayCases DEF Live
      <4>3. ReplayKey(g, x, t) = Absent
        BY <1>4, <3>3, ReplayCases
      <4> QED BY <3>1, <4>2, <4>3
    <3> QED BY <3>2, <3>3
  <2> QED BY <2>0, <2>1, <2>2, <2>3, <2>4, <2>5, EffectCases
<1> QED BY <1>1, <1>2, <1>3, <1>4, EffectCases

\* A record appended to the journal and mirrored into the tail leaves the tail without
\* effect on what the journal rebuilds, if it was without effect before.
LEMMA ThenAbsorbed ==
  ASSUME NEW f \in Effect, NEW g \in Effect, NEW t \in Times, NEW x \in Slot, Sound(f, t),
         ReplayKey(f, x, t) = x
  PROVE  ReplayKey(Then(f, g, t), ReplayKey(g, x, t), t) = ReplayKey(g, x, t)
<1> DEFINE y == ReplayKey(g, x, t)
           h == Then(f, g, t)
<1>c. Composes(Then(f, g, t), f, g, t)
  BY ThenCases
<1>0. y \in Slot /\ h \in Effect
  BY ReplayKeyType, ThenSound
<1>d. ReplayKey(DelEffect, y, t) = Absent
  BY DEF ReplayKey, DelEffect
<1>t. /\ g.do = "none" => h = f
      /\ g.do = "del" => h = DelEffect
      /\ g.do = "put" => h = IF Expired(g.entry, t) THEN DelEffect ELSE g
      /\ g.do = "stamp" /\ g.exp <= t => h = DelEffect
  BY <1>c DEF Composes
<1>r. /\ g.do = "none" => ReplayKey(g, y, t) = y
      /\ g.do = "del" => ReplayKey(g, y, t) = Absent
      /\ g.do = "put" => ReplayKey(g, y, t) = IF Expired(g.entry, t) THEN Absent ELSE g.entry
      /\ g.do = "stamp" /\ ~(g.exp > t) => ReplayKey(g, y, t) = Absent
  BY <1>0, ReplayCases
<1>x. /\ g.do = "none" => ReplayKey(g, x, t) = x
      /\ g.do = "del" => ReplayKey(g, x, t) = Absent
      /\ g.do = "put" => ReplayKey(g, x, t) = IF Expired(g.entry, t) THEN Absent ELSE g.entry
      /\ g.do = "stamp" /\ ~(g.exp > t) => ReplayKey(g, x, t) = Absent
  BY ReplayCases
<1>1. CASE g.do = "none"
  BY <1>1, <1>t, <1>r, <1>x
<1>2. CASE g.do = "del"
  BY <1>2, <1>d, <1>t, <1>r, <1>x
<1>3. CASE g.do = "put"
  BY <1>3, <1>d, <1>t, <1>r, <1>x
<1>4. CASE g.do = "stamp"
  <2>0. g.exp \in Deadlines /\ g.exp \in Int /\ t \in Int
    BY <1>4, EffectCases, KeyspaceAssumption DEF Deadlines, Times
  <2>1. CASE g.exp <= t
    <3>1. ~(g.exp > t)
      BY <2>0, <2>1
    <3> QED BY <1>d, <1>t, <1>r, <1>x, <1>4, <2>1, <3>1
  <2>2. CASE f.do = "del"
    <3>1. x = Absent
      BY <2>2, ReplayCases
    <3>2. y = Absent
      BY <1>4, <3>1, ReplayCases DEF Live
    <3> QED BY <1>d, <1>4, <2>2, <3>2, <1>c DEF Composes
  <2>3. CASE f.do = "put" /\ g.exp > t
    <3> DEFINE e == [f.entry EXCEPT !.exp = g.exp]
    <3>1. f.entry \in Entry /\ x = f.entry /\ h = PutEffect(e)
      BY <1>4, <2>3, EffectCases, ReplayCases, <1>c DEF Composes, Sound
    <3>2. e \in Entry /\ ~Expired(e, t)
      BY Zenon, <2>0, <2>3, <3>1, Restamped
    <3>3. ReplayKey(h, y, t) = e
      BY <3>1, <3>2 DEF ReplayKey, PutEffect
    <3>4. Live(x, t)
      BY <2>3, <3>1, AbsentNotEntry DEF Live, Sound
    <3> QED BY <1>4, <2>3, <3>1, <3>3, <3>4, ReplayCases
  <2>4. CASE f.do \in {"none", "stamp"} /\ g.exp > t
    <3>1. h = g
      BY <1>4, <2>4, <1>c DEF Composes
    <3>2. CASE Live(x, t)
      <4>1. x \in Entry
        BY <3>2 DEF Live, Slot
      <4>2. y = [x EXCEPT !.exp = g.exp]
        BY <1>4, <2>4, <3>2, ReplayCases
      <4>3. Live(y, t) /\ [y EXCEPT !.exp = g.exp] = y
        <5>1. Live([x EXCEPT !.exp = g.exp], t)
          BY Zenon, <2>0, <2>4, <4>1, Restamped
        <5>2. [[x EXCEPT !.exp = g.exp] EXCEPT !.exp = g.exp] = [x EXCEPT !.exp = g.exp]
          BY Zenon, <2>0, <2>4, <4>1, Restamped
        <5> QED BY <4>2, <5>1, <5>2
      <4> QED BY <1>0, <1>4, <2>4, <3>1, <4>3, ReplayCases
    <3>3. CASE ~Live(x, t)
      <4>1. y = Absent
        BY <1>4, <3>3, ReplayCases
      <4> QED BY <1>0, <1>4, <3>1, <4>1, ReplayCases DEF Live
    <3> QED BY <3>2, <3>3
  <2> QED BY <2>0, <2>1, <2>2, <2>3, <2>4, EffectCases
<1> QED BY <1>1, <1>2, <1>3, <1>4, EffectCases

-----------------------------------------------------------------------------
(***************************************************************************)
(* What each step does to a key, seen from the old journal (x) and from    *)
(* the file under construction (y).                                        *)
(***************************************************************************)

\* Whatever x would come back as, y comes back as too.
Keeps(x, y, t, k) == Recovered(x, t, k) # Absent => Recovered(y, t, k) = Recovered(x, t, k)

\* The tail f is already in x, and the last deadline it stamped is the entry's.
Ahead(f, x, t, k) ==
    /\ ReplayKey(f, x, t) = x
    /\ Pending(k) = NoEffect /\ f.do = "stamp" /\ data[k] # Absent => Journalled(data[k]).exp = f.exp

\* A command in progress replaces or deletes; ExpireAt, which stamps, leaves nothing pending.
Plain(k) == Pending(k).do # "stamp"

\* A step of the store leaves every pending effect plain.
LEMMA PlainStep ==
  ASSUME NEW k \in Keys, NEW f \in Effect, Plain(k), Touches(f, k)
  PROVE  Plain(k)'
<1>1. NoEffect.do # "stamp" /\ DelEffect.do # "stamp" /\ \A e : PutEffect(e).do # "stamp"
  BY DEF NoEffect, DelEffect, PutEffect
<1> QED BY Zenon, <1>1 DEF Plain, Touches, Leaves, Appends, Prepares, Restamps

\* Appending the same record to both files keeps the one as good as the other.
LEMMA KeepsStep ==
  ASSUME NEW k \in Keys, NEW t \in Times, NEW x \in Slot, NEW y \in Slot, NEW f \in Effect,
         Keeps(x, y, t, k), Touches(f, k)
  PROVE  Keeps(ReplayKey(f, x, t), ReplayKey(f, y, t), t, k)'
<1> DEFINE x1 == ReplayKey(f, x, t)
           y1 == ReplayKey(f, y, t)
<1>0. x1 \in Slot /\ y1 \in Slot
  BY ReplayKeyType
<1>1. /\ Recovered(x1, t, k)' = ReplayKey(Pending(k)', x1, t)
      /\ Recovered(y1, t, k)' = ReplayKey(Pending(k)', y1, t)
  BY DEF Recovered
<1>2. CASE Leaves(f, k)
  <2>1. x1 = x /\ y1 = y /\ Pending(k)' = Pending(k)
    BY <1>2, ReplayNothing DEF Leaves
  <2> QED BY Zenon, <1>1, <2>1 DEF Keeps, Recovered
<1>3. CASE Appends(f, k)
  <2>1. x1 = Recovered(x, t, k) /\ y1 = Recovered(y, t, k)
    BY <1>3 DEF Appends, Recovered
  <2>2. Recovered(x1, t, k)' = x1 /\ Recovered(y1, t, k)' = y1
    BY <1>1, <1>3, ReplayNothing DEF Appends
  <2> QED BY Zenon, <2>1, <2>2 DEF Keeps
<1>4. CASE Prepares(f, k)
  <2>1. ReplayKey(DelEffect, x1, t) = ReplayKey(DelEffect, y1, t)
    BY DEF ReplayKey, DelEffect
  <2>2. \A e \in Entry : ReplayKey(PutEffect(Journalled(e)), x1, t) = ReplayKey(PutEffect(Journalled(e)), y1, t)
    BY DEF ReplayKey, PutEffect
  <2>3. Recovered(y1, t, k)' = Recovered(x1, t, k)'
    BY Zenon, <1>1, <1>4, <2>1, <2>2 DEF Prepares
  <2> QED BY Zenon, <2>3 DEF Keeps
<1>5. CASE Restamps(f, k)
  <2>1. /\ Recovered(x, t, k) = x /\ Recovered(y, t, k) = y
        /\ Recovered(x1, t, k)' = x1 /\ Recovered(y1, t, k)' = y1
    BY <1>1, <1>5, ReplayNothing DEF Restamps, Recovered
  <2>2. f.do \in {"del", "stamp"}
    <3>1. DelEffect.do = "del" /\ \A d : StampEffect(d).do = "stamp"
      BY DEF DelEffect, StampEffect
    <3>2. f = DelEffect \/ \E d \in Deadlines : f = StampEffect(unixMillis(d))
      BY Zenon, <1>5 DEF Restamps
    <3> QED BY <3>1, <3>2
  <2>3. x = Absent => x1 = Absent
    BY <2>2, ReplayCases DEF Live
  <2>4. x # Absent => y1 = x1
    BY <2>1 DEF Keeps
  <2> QED BY Zenon, <2>1, <2>3, <2>4 DEF Keeps
<1> QED BY <1>2, <1>3, <1>4, <1>5 DEF Touches

\* A record appended to the journal and mirrored into the tail keeps the tail ahead.
LEMMA AheadStep ==
  ASSUME NEW k \in Keys, NEW t \in Times, NEW x \in Slot, NEW f \in Effect, NEW g \in Effect,
         Sound(f, t), Ahead(f, x, t, k), Plain(k), Touches(g, k)
  PROVE  Ahead(Then(f, g, t), ReplayKey(g, x, t), t, k)'
<1> DEFINE h == Then(f, g, t)
<1>c. Composes(Then(f, g, t), f, g, t)
  BY ThenCases
<1>1. ReplayKey(h, ReplayKey(g, x, t), t) = ReplayKey(g, x, t)
  BY ThenAbsorbed DEF Ahead
<1>2. ASSUME Pending(k)' = NoEffect, h.do = "stamp", data'[k] # Absent
      PROVE  Journalled(data'[k]).exp = h.exp
  <2>1. CASE Leaves(g, k)
    <3>1. h = f /\ Pending(k) = NoEffect /\ data'[k] = data[k]
      BY <1>2, <2>1, <1>c DEF Composes, Leaves, NoEffect
    <3> QED BY Zenon, <1>2, <3>1 DEF Ahead
  <2>2. CASE Appends(g, k)
    <3>1. g.do # "stamp" /\ g = Pending(k) /\ data'[k] = data[k]
      BY <2>2 DEF Appends, Plain
    <3>2. g.do = "none"
      <4>1. DelEffect.do # "stamp"
        BY DEF DelEffect
      <4> QED BY <1>2, <3>1, <4>1, EffectCases, <1>c DEF Composes
    <3>3. g = NoEffect /\ h = f
      BY <3>2, EffectCases, <1>c DEF Composes, DelEffect
    <3> QED BY Zenon, <1>2, <3>1, <3>3 DEF Ahead
  <2>3. CASE Prepares(g, k)
    <3>1. NoEffect # DelEffect /\ \A e : NoEffect # PutEffect(e)
      BY DEF NoEffect, DelEffect, PutEffect
    <3> QED BY Zenon, <1>2, <2>3, <3>1 DEF Prepares
  <2>4. CASE Restamps(g, k)
    <3>1. PICK d \in Deadlines : /\ data[k] \in Entry /\ data'[k] = [data[k] EXCEPT !.exp = d]
                                 /\ g = StampEffect(unixMillis(d))
      BY <1>2, <2>4 DEF Restamps
    <3>2. Journalled(data'[k]).exp = unixMillis(d)
      BY <3>1, KeyspaceAssumption DEF Journalled, Entry, Deadlines, Times, Never
    <3>3. g.do = "stamp" /\ g.exp = unixMillis(d) /\ g.exp \in Int /\ t \in Int
      BY <3>1, MillisType, KeyspaceAssumption DEF StampEffect, Deadlines, Times
    <3>4. h \in {DelEffect, g} \/ h = PutEffect([f.entry EXCEPT !.exp = g.exp])
      BY <3>3, EffectCases, <1>c DEF Composes
    <3>5. h = g
      BY <1>2, <3>4 DEF DelEffect, PutEffect
    <3> QED BY <3>2, <3>3, <3>5
  <2> QED BY <2>1, <2>2, <2>3, <2>4 DEF Touches
<1> QED BY Zenon, <1>1, <1>2 DEF Ahead

-----------------------------------------------------------------------------
(***************************************************************************)
(* Reading a key into the snapshot.                                        *)
(***************************************************************************)

\* What the snapshot's record of a slot replays to, and the new file's slot.
FromSnapshot(s, t) == IF s = Absent THEN Absent ELSE ReplayKey(PutEffect(s), Absent, t)
InFile(f, s, t)    == ReplayKey(f, FromSnapshot(s, t), t)

\* A snapshot's record brings its slot back unless it has expired meanwhile.
LEMMA SnapshotReplays ==
  ASSUME NEW s \in Slot, NEW t \in Times
  PROVE  /\ FromSnapshot(s, t) \in Slot
         /\ FromSnapshot(s, t) = IF s = Absent \/ Expired(s, t) THEN Absent ELSE s
         /\ FromSnapshot(s, t) # Absent => ~Expired(FromSnapshot(s, t), t)
BY DEF FromSnapshot, ReplayKey, PutEffect, Slot

\* The new file's slot is well typed and not expired.
LEMMA InFileType ==
  ASSUME NEW f \in Effect, NEW s \in Slot, NEW t \in Times
  PROVE  /\ InFile(f, s, t) \in Slot
         /\ InFile(f, s, t) # Absent => ~Expired(InFile(f, s, t), t)
BY SnapshotReplays, ReplayKeyType, ReplayKeyFresh DEF InFile

\* A mirrored record does to the new file what it does to the old one.
LEMMA InFileStep ==
  ASSUME NEW f \in Effect, NEW g \in Effect, NEW s \in Slot, NEW t \in Times, Sound(f, t)
  PROVE  InFile(Then(f, g, t), s, t) = ReplayKey(g, InFile(f, s, t), t)
BY SnapshotReplays, ThenReplays DEF InFile

\* When the snapshot reads a key, at any moment and whatever command is changing the key,
\* the file becomes as good as the journal.
LEMMA SnapshotAgrees ==
  ASSUME TypeOK, NEW k \in Keys, NEW t \in Times, t >= now, NEW n \in Times, n <= now,
         NEW x \in Slot, NEW f \in Effect, Sound(f, t), Ahead(f, x, t, k), Agrees(x, t, k), Plain(k),
         NEW s, s = IF Live(data[k], n) THEN Journalled(data[k]) ELSE Absent
  PROVE  s \in Slot /\ Agrees(InFile(f, s, t), t, k) /\ Keeps(x, InFile(f, s, t), t, k)
<1> DEFINE z == FromSnapshot(s, t)
           w == InFile(f, s, t)
<1>0. data[k] \in Slot /\ Pending(k) \in Effect
  BY PendingType DEF TypeOK
<1>1. s \in Slot
  BY <1>0, JournalledType DEF Slot, Live
<1>2. /\ z \in Slot /\ z = IF s = Absent \/ Expired(s, t) THEN Absent ELSE s
      /\ w \in Slot /\ (w # Absent => ~Expired(w, t)) /\ w = ReplayKey(f, z, t)
  BY <1>1, SnapshotReplays, InFileType DEF InFile
<1>3. CASE Pending(k) # NoEffect
  \* the pending record overrides whatever is there
  <2>1. Pending(k).do \in {"del", "put"}
    BY <1>0, <1>3, EffectCases DEF Plain
  <2>2. Recovered(w, t, k) = Recovered(x, t, k)
    BY <1>0, <1>2, <2>1, ReplayCases DEF Recovered
  <2> QED BY Zenon, <1>1, <1>2, <2>2 DEF Agrees, Keeps
<1>4. CASE Pending(k) = NoEffect
  <2>1. Recovered(w, t, k) = w /\ Recovered(x, t, k) = x
    BY <1>4, ReplayNothing DEF Recovered
  <2>2. SUFFICES /\ w # Absent => data[k] # Absent /\ w = Journalled(data[k])
                 /\ data[k] # Absent /\ data[k].exp = Never => w = data[k]
                 /\ x # Absent => w = x
    BY Zenon, <1>1, <1>2, <2>1 DEF Agrees, Keeps
  <2>3. /\ x # Absent => ~Expired(x, t)
        /\ x # Absent => data[k] # Absent /\ x = Journalled(data[k])
        /\ data[k] # Absent /\ data[k].exp = Never => x = data[k]
    BY Zenon, <2>1 DEF Agrees
  <2>4. z # Absent => data[k] \in Entry /\ z = Journalled(data[k]) /\ Live(z, t)
    BY <1>0, <1>2 DEF Live, Slot
  \* what the journal brings back is alive, so the snapshot finds it alive
  <2>5. x # Absent => z = x
    <3> SUFFICES ASSUME x # Absent PROVE z = x
      OBVIOUS
    <3>1. data[k] \in Entry /\ data[k] # Absent /\ x = Journalled(data[k]) /\ ~Expired(x, t)
      BY <1>0, <2>3 DEF Slot
    <3>2. Live(data[k], n)
      <4>1. CASE data[k].exp = Never
        BY <3>1, <4>1 DEF Live, Expired
      <4>2. CASE data[k].exp # Never
        <5>1. data[k].exp \in Deadlines /\ x.exp = unixMillis(data[k].exp)
          BY <3>1, <4>2 DEF Entry, Journalled
        <5>2. unixMillis(data[k].exp) \in Deadlines /\ unixMillis(data[k].exp) <= data[k].exp
              /\ unixMillis(data[k].exp) # Never
          BY <5>1, MillisType
        <5>3. x.exp > t
          BY <3>1, <5>1, <5>2, KeyspaceAssumption DEF Expired, Deadlines, Times
        <5>4. data[k].exp > n
          BY <5>1, <5>2, <5>3, KeyspaceAssumption DEF Deadlines, Times, TypeOK
        <5>5. ~(data[k].exp <= n)
          BY <5>1, <5>4, KeyspaceAssumption DEF Deadlines, Times
        <5> QED BY <3>1, <5>5 DEF Live, Expired
      <4> QED BY <4>1, <4>2
    <3> QED BY <1>2, <3>1, <3>2
  <2>6. data[k] # Absent /\ data[k].exp = Never => x = data[k] /\ x # Absent
    BY <2>3
  <2>7. ReplayKey(f, x, t) = x
    BY DEF Ahead
  <2>8. CASE f.do = "none"
    <3>1. w = z
      BY <1>2, <2>8, ReplayCases
    <3> QED BY <2>4, <2>5, <2>6, <3>1, AbsentNotEntry
  <2>9. CASE f.do \in {"del", "put"}
    <3>1. w = x
      BY <1>2, <2>7, <2>9, ReplayCases
    <3> QED BY <2>3, <3>1
  <2>10. CASE f.do = "stamp"
    <3>1. f.exp > t /\ f.exp \in Deadlines
      BY <2>10, EffectCases DEF Sound
    <3>2. ASSUME w # Absent PROVE data[k] # Absent /\ w = Journalled(data[k])
      <4>1. Live(z, t) /\ w = [z EXCEPT !.exp = f.exp]
        BY <1>2, <2>10, <3>2, ReplayCases
      <4>2. data[k] \in Entry /\ data[k] # Absent /\ z = Journalled(data[k]) /\ z \in Entry
        BY <2>4, <4>1, AbsentNotEntry, JournalledType DEF Live
      <4>3. z.exp = f.exp
        BY <1>4, <2>10, <4>2 DEF Ahead
      <4>4. [z EXCEPT !.exp = f.exp] = z
        BY <4>2, <4>3 DEF Entry
      <4> QED BY <4>1, <4>2, <4>4
    <3>3. x # Absent => w = x
      BY <1>2, <2>5, <2>7
    <3> QED BY <2>6, <3>2, <3>3
  <2> QED BY <2>8, <2>9, <2>10, EffectCases
<1> QED BY <1>3, <1>4, <1>1

-----------------------------------------------------------------------------
(***************************************************************************)
(* The invariant.                                                          *)
(***************************************************************************)
Snapped(k) == rpc = "install" \/ (rpc = "snapshot" /\ ShardOf[k] \notin left)

Following(t, k) ==
    /\ Sound(tail[t][k], t)
    /\ ~Snapped(k) => Ahead(tail[t][k], replayed[t][k], t, k)
    /\ Snapped(k) => /\ Agrees(InFile(tail[t][k], snap[k], t), t, k)
                     /\ Keeps(replayed[t][k], InFile(tail[t][k], snap[k], t), t, k)

Followed == rewriting => \A t \in Times, k \in Keys : t >= now => Following(t, k)

RewriteInv ==
    /\ Durably /\ RewriteTypeOK /\ snapNow <= now
    /\ \A k \in Keys : Plain(k)
    /\ Faithful /\ Followed

\* InFile names what Rewritten computes.
LEMMA RewrittenInFile ==
  ASSUME NEW t \in Times, NEW k \in Keys PROVE Rewritten(t, k) = InFile(tail[t][k], snap[k], t)
BY DEF Rewritten, InFile, FromSnapshot

\* Installing another file changes nothing that the store's own invariant speaks of.
LEMMA DurablyKept ==
  ASSUME Durably, UNCHANGED <<now, shardVars, gate, wlock, pc, cmdVars, rec>>,
         replayed' \in [Times -> [Keys -> Slot]]
  PROVE  Durably'
<1>0. /\ now' = now /\ data' = data /\ expiring' = expiring /\ used' = used /\ attached' = attached
      /\ gate' = gate /\ wlock' = wlock /\ pc' = pc /\ req' = req /\ t0' = t0 /\ ptr' = ptr
      /\ new' = new /\ todo' = todo /\ found' = found /\ rec' = rec
  BY DEF shardVars, cmdVars
<1>1. TypeOK'
  BY <1>0 DEF Durably, Base, TypeOK
<1>2. Shape'
  BY Zenon, <1>0 DEF Durably, Base, Shape, CmdShape
<1>3. Locks'
  BY Zenon, <1>0 DEF Durably, Base, Locks, CmdLocks
<1>4. GateHeld'
  BY Zenon, <1>0 DEF Durably, GateHeld
<1>5. Attached'
  BY Zenon, <1>0 DEF Durably, Attached
<1>6. RmwHeld'
  BY Zenon, <1>0 DEF Durably, RmwHeld, RmwSafe
<1> QED BY <1>1, <1>2, <1>3, <1>4, <1>5, <1>6 DEF Durably, Base

\* A step of the store, mirrored into the tail of a rewrite under way, seen at one key.
LEMMA FollowingStep ==
  ASSUME RewriteInv, NEW t \in Times, NEW k \in Keys, t >= now, rewriting, NEW g \in Effect, Touches(g, k),
         replayed'[t][k] = ReplayKey(g, replayed[t][k], t), tail'[t][k] = Then(tail[t][k], g, t),
         UNCHANGED <<rpc, snap, left>>
  PROVE  Following(t, k)'
<1>0. TypeOK /\ Plain(k) /\ Following(t, k)
  BY DEF RewriteInv, Durably, Base, Followed
<1>1. PICK x \in Slot, f \in Effect, s \in Slot : x = replayed[t][k] /\ f = tail[t][k] /\ s = snap[k]
  BY <1>0 DEF TypeOK, RewriteInv, RewriteTypeOK, Record
<1> DEFINE x1 == ReplayKey(g, x, t)
           f1 == Then(f, g, t)
           w  == InFile(f, s, t)
           w1 == InFile(f1, s, t)
<1>2. replayed'[t][k] = x1 /\ tail'[t][k] = f1 /\ snap'[k] = s /\ (Snapped(k)' <=> Snapped(k))
  BY <1>1 DEF Snapped
<1>3. Sound(f, t) /\ Sound(f1, t)
  BY <1>0, <1>1, ThenSound DEF Following
<1>4. ASSUME ~Snapped(k) PROVE Ahead(f1, x1, t, k)'
  <2>1. Ahead(f, x, t, k)
    BY Zenon, <1>0, <1>1, <1>4 DEF Following
  <2> QED BY Zenon, <1>0, <1>3, <2>1, AheadStep
<1>5. ASSUME Snapped(k) PROVE Agrees(w1, t, k)' /\ Keeps(x1, w1, t, k)'
  <2>1. Agrees(w, t, k) /\ Keeps(x, w, t, k)
    BY <1>0, <1>1, <1>5 DEF Following
  <2>2. w \in Slot /\ w1 = ReplayKey(g, w, t)
    BY <1>3, InFileType, InFileStep
  <2>3. Agrees(ReplayKey(g, w, t), t, k)'
    BY <1>0, <2>1, <2>2, AgreesStep
  <2>4. Keeps(x1, ReplayKey(g, w, t), t, k)'
    BY <2>1, <2>2, KeepsStep
  <2> QED BY <2>2, <2>3, <2>4
<1>6. /\ ~Snapped(k)' => Ahead(tail[t][k], replayed[t][k], t, k)'
      /\ Snapped(k)' => /\ Agrees(InFile(tail[t][k], snap[k], t), t, k)'
                        /\ Keeps(replayed[t][k], InFile(tail[t][k], snap[k], t), t, k)'
  BY Zenon, <1>2, <1>4, <1>5 DEF Ahead, Agrees, Keeps, Recovered
<1> QED BY <1>2, <1>3, <1>6 DEF Following

\* The part of a step that concerns the store: clients, sampler and clock.
StoreStep ==
    \/ \E p \in Clients : ClientStep(p)
    \/ (\E k \in Keys : expireSample(k)) /\ UNCHANGED rewriteVars
    \/ Tick /\ UNCHANGED rewriteVars
    \/ UNCHANGED allVars

\* Such a step is one of module Store.
LEMMA StoreStepNext == StoreStep => [Next]_vars
BY DEF StoreStep, ClientStep, Next, allVars

\* Such a step appends one record, and mirrors it into the tail of a rewrite under way.
LEMMA StoreStepMirrors ==
  ASSUME Durable, RewriteInv, StoreStep
  PROVE  /\ UNCHANGED <<rewriting, rpc, snapNow, snap, left>>
         /\ now' = now \/ now' = now + 1
         /\ tail' \in [Times -> Record]
         /\ \A k \in Keys : \E g \in Effect :
              /\ Touches(g, k)
              /\ \A t \in Times : t >= now =>
                   /\ replayed'[t][k] = ReplayKey(g, replayed[t][k], t)
                   /\ rewriting => tail'[t][k] = Then(tail[t][k], g, t)
<1>0. Durably /\ Base /\ TypeOK /\ tail \in [Times -> Record]
  BY DEF RewriteInv, RewriteTypeOK, Durably, Base
<1>1. ASSUME NEW p \in Clients, ClientStep(p)
      PROVE  /\ UNCHANGED <<rewriting, rpc, snapNow, snap, left>>
             /\ now' = now
             /\ tail' \in [Times -> Record]
             /\ \A k \in Keys : \E g \in Effect :
                  /\ Touches(g, k)
                  /\ \A t \in Times : t >= now =>
                       /\ replayed'[t][k] = ReplayKey(g, replayed[t][k], t)
                       /\ rewriting => tail'[t][k] = Then(tail[t][k], g, t)
  <2>1. /\ Journals(p) \in Record /\ now' = now
        /\ \A k \in Keys : Touches(Journals(p)[k], k)
        /\ \A t \in Times, k \in Keys :
             replayed'[t][k] = ReplayKey(Journals(p)[k], replayed[t][k], t)
    BY <1>0, <1>1, ClientTouches DEF ClientStep
  <2>2. rewriting => \A t \in Times, k \in Keys : tail'[t][k] = Then(tail[t][k], Journals(p)[k], t)
    BY <1>1 DEF ClientStep, Mirror
  <2>3. tail' \in [Times -> Record]
    <3>1. CASE rewriting
      <4>1. ASSUME NEW t \in Times, NEW k \in Keys
            PROVE  Then(tail[t][k], Journals(p)[k], t) \in Effect
        <5>1. tail[t][k] \in Effect /\ Journals(p)[k] \in Effect
          BY <1>0, <2>1 DEF Record
        <5> QED BY <5>1, ThenType
      <4> QED BY <1>1, <3>1, <4>1 DEF ClientStep, Mirror, Record
    <3>2. CASE ~rewriting
      BY <1>0, <1>1, <3>2 DEF ClientStep, Mirror
    <3> QED BY <3>1, <3>2
  <2>4. ASSUME NEW k \in Keys
        PROVE  \E g \in Effect :
                 /\ Touches(g, k)
                 /\ \A t \in Times : t >= now =>
                      /\ replayed'[t][k] = ReplayKey(g, replayed[t][k], t)
                      /\ rewriting => tail'[t][k] = Then(tail[t][k], g, t)
    <3>1. PICK g \in Effect : g = Journals(p)[k]
      BY <2>1 DEF Record
    <3>2. Touches(g, k)
      BY Zenon, <2>1, <3>1
    <3> QED BY <2>1, <2>2, <3>1, <3>2
  <2> QED BY <1>1, <2>1, <2>3, <2>4 DEF ClientStep
<1>2. ASSUME (\E j \in Keys : expireSample(j)) \/ Tick \/ UNCHANGED vars, UNCHANGED rewriteVars
      PROVE  /\ UNCHANGED <<rewriting, rpc, snapNow, snap, left>>
             /\ now' = now \/ now' = now + 1
             /\ tail' \in [Times -> Record]
             /\ \A k \in Keys : \E g \in Effect :
                  /\ Touches(g, k)
                  /\ \A t \in Times : t >= now =>
                       /\ replayed'[t][k] = ReplayKey(g, replayed[t][k], t)
                       /\ rewriting => tail'[t][k] = Then(tail[t][k], g, t)
  <2>1. /\ replayed' = replayed /\ (now' = now \/ now' = now + 1)
        /\ \A k \in Keys : Touches(NoEffect, k)
    BY <1>0, <1>2, OthersTouch
  <2>2. UNCHANGED <<rewriting, tail, rpc, snapNow, snap, left>>
    BY <1>2 DEF rewriteVars
  <2>3. ASSUME NEW k \in Keys, NEW t \in Times
        PROVE  /\ replayed'[t][k] = ReplayKey(NoEffect, replayed[t][k], t)
               /\ tail'[t][k] = Then(tail[t][k], NoEffect, t)
    BY <2>1, <2>2, ReplayNothing DEF Then, NoEffect
  <2>4. NoEffect \in Effect
    BY EffectTypes
  <2> QED BY Zenon, <1>0, <2>1, <2>2, <2>3, <2>4
<1> QED BY <1>1, <1>2 DEF StoreStep, allVars

\* A step of the store keeps the invariant.
LEMMA StoreStepKeeps ==
  ASSUME Durable, RewriteInv, StoreStep
  PROVE  RewriteInv'
<1>0. TypeOK /\ now \in Int /\ snapNow \in Int
  BY KeyspaceAssumption DEF RewriteInv, RewriteTypeOK, Durably, Base, TypeOK, Times
<1>m. /\ UNCHANGED <<rewriting, rpc, snapNow, snap, left>>
      /\ now' = now \/ now' = now + 1
      /\ tail' \in [Times -> Record]
      /\ \A k \in Keys : \E g \in Effect :
           /\ Touches(g, k)
           /\ \A t \in Times : t >= now =>
                /\ replayed'[t][k] = ReplayKey(g, replayed[t][k], t)
                /\ rewriting => tail'[t][k] = Then(tail[t][k], g, t)
  BY StoreStepMirrors
<1>1. Durably'
  BY StoreStepNext, DurableStep DEF RewriteInv
<1>n. rewriting' = rewriting /\ (now' = now \/ now' = now + 1)
  BY Zenon, <1>m
<1>2. RewriteTypeOK' /\ snapNow' <= now'
  BY <1>0, <1>m DEF RewriteInv, RewriteTypeOK
<1>3. ASSUME NEW k \in Keys PROVE Plain(k)'
  BY <1>m, PlainStep DEF RewriteInv
<1>4. Faithful'
  BY StoreStepNext, FaithfulStep DEF RewriteInv
<1>5. Followed'
  <2> SUFFICES ASSUME rewriting', NEW t \in Times, NEW k \in Keys, t >= now'
               PROVE  Following(t, k)'
    BY DEF Followed
  <2>0. t \in Int
    BY KeyspaceAssumption DEF Times
  <2>1. rewriting /\ t >= now
    BY <1>0, <1>n, <2>0
  <2> QED BY <1>m, <2>1, FollowingStep
<1> QED BY <1>1, <1>2, <1>3, <1>4, <1>5 DEF RewriteInv

\* Nothing that the invariant says of the store changes in a step of the rewrite alone.
LEMMA StoreAlone ==
  ASSUME RewriteInv, UNCHANGED vars
  PROVE  /\ Durably' /\ Faithful' /\ (\A k \in Keys : Plain(k)')
         /\ \A t \in Times, k \in Keys, x \in Slot, y \in Slot, f \in Effect :
              /\ Agrees(x, t, k) => Agrees(x, t, k)'
              /\ Keeps(x, y, t, k) => Keeps(x, y, t, k)'
              /\ Ahead(f, x, t, k) => Ahead(f, x, t, k)'
<1>0. /\ UNCHANGED <<now, shardVars, gate, wlock, pc, cmdVars, rec>> /\ replayed' = replayed
      /\ data' = data /\ now' = now /\ \A k \in Keys : Pending(k)' = Pending(k)
  BY DEF vars, shardVars, Pending
<1>1. Durably'
  BY <1>0, DurablyKept DEF RewriteInv, Durably, Base, TypeOK
<1>2. \A k \in Keys : Plain(k)'
  BY Zenon, <1>0 DEF RewriteInv, Plain
<1>3. ASSUME NEW t \in Times, NEW k \in Keys, NEW x \in Slot
      PROVE  Recovered(x, t, k)' = Recovered(x, t, k)
  BY Zenon, <1>0 DEF Recovered
<1>4. ASSUME NEW t \in Times, NEW k \in Keys, NEW x \in Slot, NEW y \in Slot, NEW f \in Effect
      PROVE  /\ Agrees(x, t, k) => Agrees(x, t, k)'
             /\ Keeps(x, y, t, k) => Keeps(x, y, t, k)'
             /\ Ahead(f, x, t, k) => Ahead(f, x, t, k)'
  <2>1. Agrees(x, t, k) => Agrees(x, t, k)'
    BY Zenon, <1>0, <1>3 DEF Agrees
  <2>2. Keeps(x, y, t, k) => Keeps(x, y, t, k)'
    BY Zenon, <1>3 DEF Keeps
  <2>3. Ahead(f, x, t, k) => Ahead(f, x, t, k)'
    BY Zenon, <1>0 DEF Ahead
  <2> QED BY <2>1, <2>2, <2>3
<1>5. Faithful'
  <2> SUFFICES ASSUME NEW t \in Times, NEW k \in Keys, t >= now' PROVE Agrees(replayed[t][k], t, k)'
    BY DEF Faithful
  <2>1. PICK x \in Slot : x = replayed[t][k]
    BY DEF RewriteInv, Durably, Base, TypeOK
  <2>2. Agrees(x, t, k)'
    BY <1>0, <1>4, <2>1, EffectTypes DEF RewriteInv, Faithful
  <2> QED BY <1>0, <2>1, <2>2 DEF Agrees, Recovered
<1> QED BY <1>1, <1>2, <1>4, <1>5

\* The beginning of a rewrite: an empty tail is ahead of nothing.
LEMMA BeginKeeps == RewriteInv /\ BeginRewrite => RewriteInv'
<1> SUFFICES ASSUME RewriteInv, BeginRewrite PROVE RewriteInv'
  OBVIOUS
<1>0. UNCHANGED vars /\ tail' = NoTail /\ rpc' = "start" /\ rewriting' = TRUE
      /\ UNCHANGED <<snapNow, snap, left>> /\ now' = now /\ replayed' = replayed
  BY DEF BeginRewrite, vars
<1>1. Durably' /\ Faithful' /\ (\A k \in Keys : Plain(k)')
  BY <1>0, StoreAlone
<1>2. RewriteTypeOK' /\ snapNow' <= now'
  BY Zenon, <1>0, StoreTypes DEF RewriteInv, RewriteTypeOK, NoTail
<1>3. ASSUME NEW t \in Times, NEW k \in Keys PROVE Following(t, k)'
  <2>1. tail'[t][k] = NoEffect /\ ~Snapped(k)'
    BY <1>0 DEF NoTail, NoRecord, Snapped
  <2>2. Sound(NoEffect, t) /\ NoEffect.do # "stamp"
    BY DEF Sound, NoEffect
  <2>3. ReplayKey(NoEffect, replayed'[t][k], t) = replayed'[t][k]
    BY ReplayNothing
  <2>4. Ahead(tail[t][k], replayed[t][k], t, k)'
    BY Zenon, <2>1, <2>2, <2>3 DEF Ahead
  <2> QED BY Zenon, <2>1, <2>2, <2>4 DEF Following
<1> QED BY <1>1, <1>2, <1>3 DEF RewriteInv, Followed

\* The clock of the snapshot is read, and no shard yet.
LEMMA StartKeeps == RewriteInv /\ StartSnapshot => RewriteInv'
<1> SUFFICES ASSUME RewriteInv, StartSnapshot PROVE RewriteInv'
  OBVIOUS
<1>0. /\ UNCHANGED vars /\ rpc = "start" /\ rpc' = "snapshot" /\ snapNow' = now /\ left' = Shards
      /\ rewriting' = rewriting /\ tail' = tail /\ snap' = snap /\ now' = now /\ replayed' = replayed
  BY DEF StartSnapshot, vars
<1>1. Durably' /\ Faithful' /\ (\A k \in Keys : Plain(k)')
  BY <1>0, StoreAlone
<1>2. now \in Times /\ now \in Int /\ rewriting
  <2>1. now \in Times /\ now \in Int
    BY KeyspaceAssumption DEF RewriteInv, Durably, Base, TypeOK, Times
  <2>2. rpc # "idle"
    BY <1>0
  <2> QED BY Zenon, <2>1, <2>2 DEF RewriteInv, RewriteTypeOK
<1>3. RewriteTypeOK' /\ snapNow' <= now'
  BY <1>0, <1>2 DEF RewriteInv, RewriteTypeOK
<1>4. ASSUME NEW t \in Times, NEW k \in Keys, t >= now PROVE Following(t, k)'
  <2>1. PICK x \in Slot, f \in Effect : x = replayed[t][k] /\ f = tail[t][k]
    BY DEF RewriteInv, Durably, Base, TypeOK, RewriteTypeOK, Record
  <2>2. ~Snapped(k) /\ ~Snapped(k)'
    BY <1>0, StoreTypes DEF Snapped
  <2>3. Sound(f, t) /\ Ahead(f, x, t, k)
    BY Zenon, <1>2, <1>4, <2>1, <2>2 DEF RewriteInv, Followed, Following
  <2>4. Ahead(f, x, t, k)'
    BY <1>0, <2>3, StoreAlone
  <2>5. Ahead(tail[t][k], replayed[t][k], t, k)' /\ Sound(tail[t][k], t)'
    BY <1>0, <2>1, <2>3, <2>4 DEF Ahead
  <2> QED BY Zenon, <2>2, <2>5 DEF Following
<1> QED BY <1>0, <1>1, <1>3, <1>4 DEF RewriteInv, Followed

\* A shard is read into the snapshot.
LEMMA SnapshotKeeps ==
  ASSUME RewriteInv, NEW s \in Shards, AOFSnapshot(s)
  PROVE  RewriteInv'
<1>0. /\ UNCHANGED vars /\ rpc = "snapshot" /\ s \in left /\ left' = left \ {s}
      /\ rpc' = IF left = {s} THEN "install" ELSE "snapshot"
      /\ rewriting' = rewriting /\ tail' = tail /\ snapNow' = snapNow
      /\ now' = now /\ replayed' = replayed
      /\ snap' = [k \in Keys |->
                    IF ShardOf[k] # s THEN snap[k]
                    ELSE IF Live(data[k], snapNow) THEN Journalled(data[k]) ELSE Absent]
  BY DEF AOFSnapshot, vars
<1>1. Durably' /\ Faithful' /\ (\A k \in Keys : Plain(k)')
  BY Zenon, <1>0, StoreAlone
<1>2. TypeOK /\ rewriting
  <2>1. TypeOK
    BY DEF RewriteInv, Durably, Base
  <2>2. rpc # "idle"
    BY <1>0
  <2> QED BY Zenon, <2>1, <2>2 DEF RewriteInv, RewriteTypeOK
<1>3. ASSUME NEW k \in Keys PROVE snap'[k] \in Slot
  <2>1. snap[k] \in Slot /\ data[k] \in Slot
    BY <1>2 DEF RewriteInv, RewriteTypeOK, TypeOK
  <2> QED BY <1>0, <2>1, JournalledType DEF Slot, Live
<1>4. RewriteTypeOK' /\ snapNow' <= now'
  <2>1. rpc' \in {"snapshot", "install"} /\ rpc # "idle" /\ rpc' # "idle"
    BY <1>0
  <2>2. rewriting' = (rpc' # "idle")
    BY Zenon, <1>0, <2>1 DEF RewriteInv, RewriteTypeOK
  <2>3. snap' \in [Keys -> Slot]
    BY <1>0, <1>3
  <2>4. left' \subseteq Shards /\ tail' \in [Times -> Record] /\ snapNow' \in Times
    BY <1>0 DEF RewriteInv, RewriteTypeOK
  <2> QED BY <1>0, <2>1, <2>2, <2>3, <2>4 DEF RewriteInv, RewriteTypeOK
<1>5. ASSUME NEW t \in Times, NEW k \in Keys, t >= now PROVE Following(t, k)'
  <2>1. PICK x \in Slot, f \in Effect, d \in Slot : x = replayed[t][k] /\ f = tail[t][k] /\ d = snap'[k]
    BY <1>2, <1>3 DEF RewriteInv, TypeOK, RewriteTypeOK, Record
  <2> DEFINE w == InFile(f, d, t)
  <2>2. Following(t, k) /\ Sound(f, t)
    BY <1>2, <1>5, <2>1 DEF RewriteInv, Followed, Following
  <2>3. w \in Slot
    BY InFileType
  <2>4. /\ Ahead(f, x, t, k) => Ahead(f, x, t, k)'
        /\ Agrees(w, t, k) => Agrees(w, t, k)'
        /\ Keeps(x, w, t, k) => Keeps(x, w, t, k)'
    BY Zenon, <1>0, <2>3, StoreAlone
  <2>5. CASE ShardOf[k] = s
    <3>1. Snapped(k)' /\ ~Snapped(k)
      BY <1>0, <2>5 DEF Snapped
    <3>2. Ahead(f, x, t, k)
      BY <2>1, <2>2, <3>1 DEF Following
    <3>3. Agrees(x, t, k) /\ Plain(k) /\ snapNow \in Times /\ snapNow <= now
      BY <1>5, <2>1 DEF RewriteInv, Faithful, RewriteTypeOK
    <3>4. d = IF Live(data[k], snapNow) THEN Journalled(data[k]) ELSE Absent
      BY <1>0, <2>1, <2>5
    <3>5. Agrees(w, t, k) /\ Keeps(x, w, t, k)
      BY <1>2, <1>5, <2>2, <3>2, <3>3, <3>4, SnapshotAgrees
    <3>6. Agrees(InFile(tail[t][k], snap[k], t), t, k)'
          /\ Keeps(replayed[t][k], InFile(tail[t][k], snap[k], t), t, k)' /\ Sound(tail[t][k], t)'
      BY Zenon, <1>0, <2>1, <2>2, <2>4, <3>5 DEF Agrees, Keeps, Recovered
    <3> QED BY Zenon, <3>1, <3>6 DEF Following
  <2>6. CASE ShardOf[k] # s /\ Snapped(k)
    <3>1. Snapped(k)' /\ d = snap[k]
      BY <1>0, <2>1, <2>6 DEF Snapped
    <3>2. Agrees(w, t, k) /\ Keeps(x, w, t, k)
      BY <2>1, <2>2, <2>6, <3>1 DEF Following
    <3>3. Agrees(InFile(tail[t][k], snap[k], t), t, k)'
          /\ Keeps(replayed[t][k], InFile(tail[t][k], snap[k], t), t, k)' /\ Sound(tail[t][k], t)'
      BY <1>0, <2>1, <2>2, <2>4, <3>2 DEF Agrees, Keeps, Recovered
    <3> QED BY Zenon, <3>1, <3>3 DEF Following
  <2>7. CASE ShardOf[k] # s /\ ~Snapped(k)
    <3>1. ~Snapped(k)'
      BY <1>0, <2>7 DEF Snapped
    <3>2. Ahead(f, x, t, k)
      BY <2>1, <2>2, <2>7 DEF Following
    <3>3. Ahead(tail[t][k], replayed[t][k], t, k)' /\ Sound(tail[t][k], t)'
      BY Zenon, <1>0, <2>1, <2>2, <2>4, <3>2 DEF Ahead
    <3> QED BY Zenon, <3>1, <3>3 DEF Following
  <2> QED BY <2>5, <2>6, <2>7
<1> QED BY Zenon, <1>0, <1>1, <1>4, <1>5 DEF RewriteInv, Followed

\* A rewrite that ends, one way or the other, leaves nothing to follow.
LEMMA EndTypes ==
  ASSUME RewriteInv, EndRewrite, now' = now
  PROVE  RewriteTypeOK' /\ snapNow' <= now' /\ Followed'
<1>1. /\ rewriting' = FALSE /\ tail' = NoTail /\ rpc' = "idle" /\ snapNow' = Res /\ snap' = NoSnap
      /\ left' = left
  BY DEF EndRewrite
<1>2. NoTail \in [Times -> Record] /\ NoSnap \in [Keys -> Slot] /\ Res \in Times
  BY StoreTypes DEF NoTail, NoSnap, Slot
<1>3. rewriting' = (rpc' # "idle") /\ Followed'
  BY Zenon, <1>1 DEF Followed
<1>4. Res <= now
  BY KeyspaceAssumption DEF RewriteInv, Durably, Base, TypeOK, Times
<1> QED BY <1>1, <1>2, <1>3, <1>4 DEF RewriteInv, RewriteTypeOK

\* The old file stays.
LEMMA AbortKeeps == RewriteInv /\ abortRewrite => RewriteInv'
<1> SUFFICES ASSUME RewriteInv, abortRewrite PROVE RewriteInv'
  OBVIOUS
<1>1. EndRewrite /\ UNCHANGED vars /\ now' = now
  BY DEF abortRewrite, vars
<1> QED BY <1>1, StoreAlone, EndTypes DEF RewriteInv

\* The new file takes the place of the old one, agrees with the store, and keeps what the
\* old one would have brought back.
LEMMA FinishKeeps ==
  ASSUME RewriteInv, FinishRewrite
  PROVE  /\ RewriteInv'
         /\ \A t \in Times, k \in Keys :
              t >= now /\ Pending(k) = NoEffect /\ replayed[t][k] # Absent =>
                replayed'[t][k] = replayed[t][k]
<1>0. /\ EndRewrite /\ rpc = "install" /\ UNCHANGED <<now, shardVars, gate, wlock, pc, cmdVars, rec>>
      /\ replayed' = [t \in Times |-> [k \in Keys |-> Rewritten(t, k)]]
  BY DEF FinishRewrite, EndRewrite
<1>1. /\ now' = now /\ data' = data /\ \A k \in Keys : Snapped(k) /\ Pending(k)' = Pending(k)
  BY <1>0 DEF shardVars, Pending, Snapped
<1>2. TypeOK /\ rewriting
  <2>1. TypeOK
    BY DEF RewriteInv, Durably, Base
  <2>2. rpc # "idle"
    BY <1>0
  <2> QED BY Zenon, <2>1, <2>2 DEF RewriteInv, RewriteTypeOK
<1>3. ASSUME NEW t \in Times, NEW k \in Keys
      PROVE  \E w \in Slot : w = InFile(tail[t][k], snap[k], t) /\ replayed'[t][k] = w
  <2>1. tail[t][k] \in Effect /\ snap[k] \in Slot
    BY DEF RewriteInv, RewriteTypeOK, Record
  <2> QED BY <1>0, <2>1, InFileType, RewrittenInFile
<1>4. replayed' \in [Times -> [Keys -> Slot]]
  <2>1. \A t \in Times, k \in Keys : Rewritten(t, k) \in Slot
    BY <1>0, <1>3
  <2> QED BY <1>0, <2>1
<1>5. Durably'
  BY <1>0, <1>4, DurablyKept DEF RewriteInv
<1>6. \A k \in Keys : Plain(k)'
  BY Zenon, <1>1 DEF RewriteInv, Plain
<1>7. ASSUME NEW t \in Times, NEW k \in Keys, t >= now
      PROVE  /\ Agrees(replayed[t][k], t, k)'
             /\ Pending(k) = NoEffect /\ replayed[t][k] # Absent => replayed'[t][k] = replayed[t][k]
  <2>1. PICK w \in Slot : w = InFile(tail[t][k], snap[k], t) /\ replayed'[t][k] = w
    BY <1>3
  <2>2. Agrees(w, t, k) /\ Keeps(replayed[t][k], w, t, k)
    BY Zenon, <1>1, <1>2, <1>7, <2>1 DEF RewriteInv, Followed, Following
  <2>3. Recovered(w, t, k)' = Recovered(w, t, k)
    BY Zenon, <1>1 DEF Recovered
  <2>4. Agrees(w, t, k)'
    BY Zenon, <1>1, <2>2, <2>3 DEF Agrees
  <2>5. Agrees(replayed[t][k], t, k)'
    BY Zenon, <2>1, <2>4 DEF Agrees, Recovered
  <2>6. ASSUME Pending(k) = NoEffect, replayed[t][k] # Absent PROVE w = replayed[t][k]
    BY <2>2, <2>6, ReplayNothing DEF Keeps, Recovered
  <2> QED BY <2>1, <2>5, <2>6
<1>8. Faithful'
  BY <1>1, <1>7 DEF Faithful
<1> QED BY <1>0, <1>1, <1>5, <1>6, <1>7, <1>8, EndTypes DEF RewriteInv

\* The initial state satisfies the invariant.
LEMMA RewriteInvInit == RewriteInit => RewriteInv
<1> SUFFICES ASSUME RewriteInit PROVE RewriteInv
  OBVIOUS
<1>1. Durably /\ Faithful
  BY DurableInit, FaithfulInit DEF RewriteInit
<1>2. ASSUME NEW k \in Keys PROVE Plain(k)
  BY Zenon DEF RewriteInit, Init, Plain, Pending, NoEffect
<1>3. /\ rewriting = FALSE /\ tail = NoTail /\ rpc = "idle" /\ snapNow = Res /\ snap = NoSnap
      /\ left = {} /\ now = Res
  BY DEF RewriteInit, Init
<1>4. NoTail \in [Times -> Record] /\ NoSnap \in [Keys -> Slot] /\ Res \in Times /\ Res <= Res
  BY StoreTypes, KeyspaceAssumption DEF NoTail, NoSnap, Slot
<1>5. rewriting = (rpc # "idle") /\ Followed
  BY Zenon, <1>3 DEF Followed
<1>6. RewriteTypeOK /\ snapNow <= now
  BY <1>3, <1>4, <1>5 DEF RewriteTypeOK
<1> QED BY <1>1, <1>2, <1>5, <1>6 DEF RewriteInv

\* Every step keeps the invariant.
LEMMA RewriteInvStep ==
  ASSUME Durable, RewriteInv, [RewriteNext]_allVars
  PROVE  RewriteInv'
<1>1. CASE StoreStep
  BY <1>1, StoreStepKeeps
<1>2. CASE BeginRewrite \/ StartSnapshot \/ abortRewrite
  BY <1>2, BeginKeeps, StartKeeps, AbortKeeps
<1>3. CASE \E s \in Shards : AOFSnapshot(s)
  BY <1>3, SnapshotKeeps
<1>4. CASE FinishRewrite
  BY <1>4, FinishKeeps
<1> QED BY <1>1, <1>2, <1>3, <1>4 DEF RewriteNext, StoreStep

\* A rewrite steps through its stages with well-formed snapshots and tails, and
\* Log.rewriting is set exactly while one is under way.
THEOREM RewriteTypeCorrect == ASSUME Durable PROVE RewriteSpec => []RewriteTypeOK
<1>1. RewriteInv /\ [RewriteNext]_allVars => RewriteInv'
  BY RewriteInvStep
<1>2. RewriteInv => RewriteTypeOK
  BY DEF RewriteInv
<1> QED BY <1>1, <1>2, RewriteInvInit, PTL DEF RewriteSpec

\* Rewriting the journal under load, any number of times, never makes a restart invent data.
THEOREM RewriteInventsNothing == ASSUME Durable PROVE RewriteSpec => []ReplayNeverInvents
<1>1. RewriteInv /\ [RewriteNext]_allVars => RewriteInv'
  BY RewriteInvStep
<1>2. RewriteInv => ReplayNeverInvents
  BY FaithfulImplies DEF RewriteInv
<1> QED BY <1>1, <1>2, RewriteInvInit, PTL DEF RewriteSpec

\* Nor does it cost a key without a deadline.
THEOREM RewriteKeepsPersistent == ASSUME Durable PROVE RewriteSpec => []PersistentKeysSurvive
<1>1. RewriteInv /\ [RewriteNext]_allVars => RewriteInv'
  BY RewriteInvStep
<1>2. RewriteInv => PersistentKeysSurvive
  BY FaithfulImplies DEF RewriteInv
<1> QED BY <1>1, <1>2, RewriteInvInit, PTL DEF RewriteSpec

\* Whatever a restart would have found in the old file it finds in the new one, however the
\* snapshot, the tail and the mutations interleaved.
THEOREM RewriteIsLossless == ASSUME Durable PROVE RewriteSpec => RewriteLosesNothing
<1> DEFINE Kept == \A t \in Times, k \in Keys :
                     t >= now /\ Pending(k) = NoEffect /\ replayed[t][k] # Absent =>
                       replayed'[t][k] = replayed[t][k]
<1>1. RewriteInv /\ [RewriteNext]_allVars => RewriteInv'
  BY RewriteInvStep
<1>2. RewriteInv /\ [RewriteNext]_allVars => [Installs => Kept]_allVars
  <2> SUFFICES ASSUME RewriteInv, RewriteNext, Installs PROVE Kept
    OBVIOUS
  <2>1. CASE FinishRewrite
    BY <2>1, FinishKeeps
  <2>2. CASE \E p \in Clients : ClientStep(p)
    BY <2>2 DEF ClientStep, Installs
  <2>3. CASE UNCHANGED vars \/ UNCHANGED rewriteVars
    BY <2>3 DEF vars, rewriteVars, Installs
  <2> QED BY <2>1, <2>2, <2>3
          DEF RewriteNext, BeginRewrite, StartSnapshot, AOFSnapshot, abortRewrite
<1> QED BY <1>1, <1>2, RewriteInvInit, PTL DEF RewriteSpec, RewriteLosesNothing

\* A rewrite beside the store disturbs nothing that a command in progress remembers.
LEMMA LinearUnderRewrite ==
  ASSUME Durable, RewriteInv, Linear, [RewriteNext]_allVars
  PROVE  Linear'
<1>1. CASE StoreStep
  BY <1>1, StoreStepNext, DurableStep, OriginStep, PreparedStep DEF Linear
<1>2. CASE ~StoreStep
  <2>1. UNCHANGED <<now, shardVars, gate, wlock, pc, cmdVars, rec>>
    <3>1. CASE UNCHANGED vars
      BY <3>1 DEF vars
    <3>2. CASE FinishRewrite
      BY <3>2 DEF FinishRewrite
    <3> QED BY <1>2, <3>1, <3>2
            DEF RewriteNext, StoreStep, BeginRewrite, StartSnapshot, AOFSnapshot, abortRewrite, allVars
  <2>2. /\ now' = now /\ data' = data /\ pc' = pc /\ req' = req /\ t0' = t0 /\ ptr' = ptr
        /\ new' = new /\ todo' = todo
    BY <2>1 DEF shardVars, cmdVars
  <2>3. Durably'
    BY RewriteInvStep DEF RewriteInv
  <2>4. Origins'
    BY Zenon, <2>2 DEF Linear, Origins, Origin
  <2>5. Readiness'
    BY Zenon, <2>2 DEF Linear, Readiness, Prepared, Computed
  <2> QED BY <2>3, <2>4, <2>5 DEF Linear
<1> QED BY <1>1, <1>2

\* And commands stay atomic while a rewrite runs beside them.
THEOREM RewriteIsInvisible == ASSUME Durable PROVE RewriteSpec => ImplementsAtomic
<1>1. RewriteInit => Atomic!Init
  <2> SUFFICES ASSUME RewriteInit PROVE Atomic!Init
    OBVIOUS
  <2>1. Init /\ \A p \in Clients, k \in Keys : ~InBatch(p, k)
    BY DEF RewriteInit, Init, InBatch
  <2>2. kvBar = [k \in Keys |-> Absent]
    BY <2>1 DEF Init, kvBar
  <2> QED BY <2>1, <2>2 DEF Init, Atomic!Init
<1>2. RewriteInv /\ Linear /\ [RewriteNext]_allVars => RewriteInv' /\ Linear'
  BY RewriteInvStep, LinearUnderRewrite
<1>3. Linear /\ Linear' /\ [RewriteNext]_allVars => [Atomic!Next]_<<now, kvBar>>
  <2> SUFFICES ASSUME Linear, Linear', [RewriteNext]_allVars PROVE [Atomic!Next]_<<now, kvBar>>
    OBVIOUS
  <2>1. BarExact /\ BarExact'
    BY BarIsExact, BarStaysExact DEF Linear
  <2>2. CASE StoreStep
    BY <2>1, <2>2, StoreStepNext, StepRefines
  <2>3. CASE UNCHANGED vars
    BY <2>1, <2>3, StepRefines
  <2>4. CASE FinishRewrite
    <3>1. /\ now' = now /\ data' = data /\ req' = req
          /\ \A p \in Clients, j \in Keys : InBatch(p, j)' <=> InBatch(p, j)
      BY <2>4 DEF FinishRewrite, shardVars, cmdVars, InBatch
    <3>2. kvBar' = kvBar
      BY <2>1, <3>1, BarSame
    <3> QED BY <3>1, <3>2
  <2> QED BY <2>2, <2>3, <2>4
          DEF RewriteNext, StoreStep, BeginRewrite, StartSnapshot, AOFSnapshot, abortRewrite
<1>4. RewriteInit => RewriteInv /\ Linear
  BY RewriteInvInit, LinearInit DEF RewriteInit
<1> QED BY <1>1, <1>2, <1>3, <1>4, PTL DEF RewriteSpec, ImplementsAtomic, Atomic!Spec

-----------------------------------------------------------------------------
(***************************************************************************)
(* The memory counters.  Each shard's counter is the sum of the sizes of   *)
(* its entries; the store never holds more than finitely many.             *)
(***************************************************************************)
INSTANCE SumProofs

\* The entries of all shards, and the size of each.
Stored == {k \in Keys : data[k] # Absent}
Sizes  == [k \in Keys |-> SizeAt(k)]
Finite == IsFiniteSet(Stored)

\* A slot's contribution to a sum over any finite set of keys, taken on its own.
LEMMA SplitKey ==
  ASSUME NEW S \in SUBSET Keys, IsFiniteSet(S), NEW k, NEW f, \A x \in S : f[x] \in Int,
         k \notin S => f[k] = 0
  PROVE  SumFunctionOnSet(f, S) = f[k] + SumFunctionOnSet(f, S \ {k})
<1>1. CASE k \in S
  BY <1>1, SumRemove
<1>2. CASE k \notin S
  <2>1. S \ {k} = S
    BY <1>2
  <2>2. SumFunctionOnSet(f, S \ {k}) = SumFunctionOnSet(f, S)
    BY <2>1, Zenon
  <2>3. SumFunctionOnSet(f, S) \in Int
    BY SumInt
  <2> QED BY <1>2, <2>2, <2>3
<1> QED BY <1>1, <1>2

\* One key's slot changes, and its shard's counter by the difference.
LEMMA UsedChange ==
  ASSUME TypeOK, TypeOK', Finite, UsedExact, NEW k \in Keys,
         \A j \in Keys \ {k} : data'[j] = data[j],
         used' = [used EXCEPT ![ShardOf[k]] = used[ShardOf[k]] - SizeAt(k) + SizeAt(k)']
  PROVE  Finite' /\ UsedExact'
<1>1. Finite'
  <2>1. IsFiniteSet(Stored \cup {k})
    BY FS_AddElement DEF Finite
  <2>2. Stored' \subseteq Stored \cup {k}
    BY DEF Stored
  <2> QED BY <2>1, <2>2, FS_Subset DEF Finite
<1>2. ASSUME NEW s \in Shards PROVE used'[s] = SumFunctionOnSet(Sizes', Entries(s)')
  <2> DEFINE A == Entries(s)
             B == Entries(s)'
  <2>1. /\ A \subseteq Stored /\ B \subseteq Stored' /\ A \in SUBSET Keys /\ B \in SUBSET Keys
        /\ A \ {k} = B \ {k} /\ (s # ShardOf[k] => A = B /\ k \notin A)
        /\ (s = ShardOf[k] /\ k \notin A => data[k] = Absent)
        /\ (s = ShardOf[k] /\ k \notin B => data'[k] = Absent)
    BY DEF Entries, Stored
  <2>2. used[s] = SumFunctionOnSet(Sizes, A)
    BY DEF UsedExact, Sizes
  <2> HIDE DEF A, B
  <2>3. IsFiniteSet(A) /\ IsFiniteSet(B) /\ IsFiniteSet(A \ {k})
    <3>1. IsFiniteSet(A) /\ IsFiniteSet(B)
      BY <1>1, <2>1, FS_Subset DEF Finite
    <3> QED BY <3>1, FS_RemoveElement, FS_Subset
  <2>4. \A j \in Keys : Sizes[j] = SizeAt(j) /\ Sizes'[j] = SizeAt(j)' /\ SizeAt(j) \in Int
    BY SizeAtType DEF Sizes
  <2>5. \A j \in Keys : SizeAt(j)' \in Int
    <3>1. \A j \in Keys : data'[j] \in Entry \cup {Absent}
      BY DEF TypeOK, Slot
    <3>2. \A j \in Keys, e \in Entry : Size[<<j, e.val>>] \in Int
      BY Zenon, SizeType
    <3> QED BY <3>1, <3>2 DEF SizeAt
  <2>6. \A j \in Keys \ {k} : Sizes[j] = Sizes'[j]
    BY Zenon, <2>4 DEF SizeAt
  <2>7. SumFunctionOnSet(Sizes, A \ {k}) = SumFunctionOnSet(Sizes', A \ {k})
    BY Zenon, <2>1, <2>3, <2>6, SumSame
  <2>8. SumFunctionOnSet(Sizes', A \ {k}) = SumFunctionOnSet(Sizes', B \ {k})
    BY <2>1, Zenon
  <2>9. CASE s = ShardOf[k]
    <3>1. k \notin A => Sizes[k] = 0
      BY <2>1, <2>4, <2>9 DEF SizeAt
    <3>2. k \notin B => Sizes'[k] = 0
      BY <2>1, <2>4, <2>9 DEF SizeAt
    <3>3. SumFunctionOnSet(Sizes, A) = Sizes[k] + SumFunctionOnSet(Sizes, A \ {k})
      <4>1. \A x \in A : Sizes[x] \in Int
        BY Zenon, <2>1, <2>4
      <4> QED BY Zenon, <2>1, <2>3, <3>1, <4>1, SplitKey
    <3>4. SumFunctionOnSet(Sizes', B) = Sizes'[k] + SumFunctionOnSet(Sizes', B \ {k})
      <4>1. \A x \in B : Sizes'[x] \in Int
        BY Zenon, <2>1, <2>4, <2>5
      <4> QED BY Zenon, <2>1, <2>3, <3>2, <4>1, SplitKey
    <3>5. SumFunctionOnSet(Sizes, A \ {k}) \in Int
      BY <2>1, <2>3, <2>4, SumInt
    <3>6. used'[s] = used[s] - Sizes[k] + Sizes'[k]
      BY Zenon, <2>4, <2>9 DEF TypeOK
    <3>7. used[s] \in Int /\ Sizes[k] \in Int /\ Sizes'[k] \in Int
      BY Zenon, <2>4, <2>5 DEF TypeOK
    <3>8. used'[s] = SumFunctionOnSet(Sizes', B)
      <4>1. PICK a, b, c \in Int : a = SumFunctionOnSet(Sizes, A \ {k}) /\ b = Sizes[k] /\ c = Sizes'[k]
        BY Zenon, <3>5, <3>7
      <4>2. used[s] = b + a
        BY Zenon, <2>2, <3>3, <4>1
      <4>3. SumFunctionOnSet(Sizes', B) = c + a
        BY Zenon, <2>7, <2>8, <3>4, <4>1
      <4>4. used'[s] = used[s] - b + c
        BY Zenon, <3>6, <4>1
      <4>5. used'[s] = c + a
        BY <4>2, <4>4
      <4> QED BY Zenon, <4>3, <4>5
    <3> QED BY <3>8 DEF B
  <2>10. CASE s # ShardOf[k]
    <3>1. used'[s] = used[s]
      BY <2>10 DEF TypeOK
    <3>2. \A j \in A : Sizes[j] = Sizes'[j]
      BY <2>1, <2>6, <2>10
    <3>3. SumFunctionOnSet(Sizes, A) = SumFunctionOnSet(Sizes', A)
      BY <2>3, <3>2, SumSame
    <3>4. SumFunctionOnSet(Sizes', A) = SumFunctionOnSet(Sizes', B)
      BY <2>1, <2>10, Zenon
    <3>5. used'[s] = SumFunctionOnSet(Sizes', B)
      BY <2>2, <3>1, <3>3, <3>4
    <3> QED BY <3>5 DEF B
  <2> QED BY <2>9, <2>10
<1> QED BY <1>1, <1>2 DEF UsedExact, Sizes

\* Every step keeps the counters exact.
LEMMA UsedStep ==
  ASSUME Base, Base', Finite, UsedExact, [Next]_vars
  PROVE  Finite' /\ UsedExact'
<1> USE DEF Base
<1>1. CASE UNCHANGED <<data, expiring, used>>
  BY <1>1 DEF Finite, Stored, UsedExact, Entries, SizeAt
<1>2. ASSUME NEW k \in Keys, NEW e \in Entry, setLockedInWriteLockedShard(k, e)
      PROVE  Finite' /\ UsedExact'
  <2>1. data'[k] = e /\ \A j \in Keys \ {k} : data'[j] = data[j]
    BY <1>2, SetData
  <2>2. SizeAt(k)' = Size[<<k, e.val>>]
    BY <2>1, AbsentNotEntry DEF SizeAt
  <2>3. used' = [used EXCEPT ![ShardOf[k]] = used[ShardOf[k]] - SizeAt(k) + SizeAt(k)']
    BY <1>2, <2>2 DEF setLockedInWriteLockedShard
  <2> QED BY Zenon, <2>1, <2>3, UsedChange
<1>3. ASSUME NEW k \in Keys, deleteLockedInWriteLockedShard(k) PROVE Finite' /\ UsedExact'
  <2>1. data'[k] = Absent /\ \A j \in Keys \ {k} : data'[j] = data[j]
    BY <1>3, DelData
  <2>2. SizeAt(k)' = 0 /\ SizeAt(k) \in Int /\ used[ShardOf[k]] \in Int
    BY Zenon, <2>1, SizeAtType, StoreTypes DEF SizeAt, TypeOK
  <2>2a. used[ShardOf[k]] - SizeAt(k) + SizeAt(k)' = used[ShardOf[k]] - SizeAt(k)
    BY <2>2
  <2>3. used' = [used EXCEPT ![ShardOf[k]] = used[ShardOf[k]] - SizeAt(k) + SizeAt(k)']
    BY <1>3, <2>2a, Zenon DEF deleteLockedInWriteLockedShard
  <2> QED BY Zenon, <2>1, <2>3, UsedChange
<1>4. ASSUME NEW p \in Clients, ExpireAtEnd(p) PROVE Finite' /\ UsedExact'
  <2>0. PICK k \in Keys : k = req[p].key
    BY DEF TypeOK, Request
  <2>1. data[k] \in Entry /\ req[p].exp \in Deadlines
    BY <1>4, <2>0 DEF TypeOK, Request, Shape, CmdShape, Locks, CmdLocks, ExpireAtEnd, Slot
  <2>2. data'[k] = [data[k] EXCEPT !.exp = req[p].exp] /\ (\A j \in Keys \ {k} : data'[j] = data[j]) /\ used' = used
    BY <1>4, <2>0, <2>1 DEF ExpireAtEnd, TypeOK
  <2>3. data'[k] \in Entry /\ data'[k].val = data[k].val
    BY <2>1, <2>2 DEF Entry
  <2>4. SizeAt(k)' = SizeAt(k)
    BY <2>1, <2>3, AbsentNotEntry DEF SizeAt
  <2>5. SizeAt(k) \in Int /\ used[ShardOf[k]] \in Int /\ ShardOf[k] \in Shards
    BY <2>1, SizeAtType, StoreTypes DEF TypeOK
  <2>6. used[ShardOf[k]] - SizeAt(k) + SizeAt(k)' = used[ShardOf[k]]
    BY <2>4, <2>5
  <2>7. used' = [used EXCEPT ![ShardOf[k]] = used[ShardOf[k]] - SizeAt(k) + SizeAt(k)']
    <3>1. used = [used EXCEPT ![ShardOf[k]] = used[ShardOf[k]]]
      BY <2>5 DEF TypeOK
    <3> QED BY <2>2, <2>6, <3>1, Zenon
  <2> QED BY Zenon, <2>2, <2>7, UsedChange
<1> QED BY <1>1, <1>2, <1>3, <1>4, ShardEffects

\* The memory counters are exact in every reachable state, with or without a journal.
THEOREM UsedIsExact == Spec => []UsedExact
<1>1. Init => Finite /\ UsedExact
  <2> SUFFICES ASSUME Init PROVE Finite /\ UsedExact
    OBVIOUS
  <2>1. Stored = {} /\ \A s \in Shards : Entries(s) = {} /\ used[s] = 0
    BY DEF Init, Stored, Entries
  <2>2. SumFunctionOnSet(Sizes, {}) = 0
    BY SumEmpty
  <2>3. \A s \in Shards : SumFunctionOnSet(Sizes, Entries(s)) = 0
    BY <2>1, <2>2, Zenon
  <2>4. Finite
    BY <2>1, FS_EmptySet DEF Finite
  <2> QED BY Zenon, <2>1, <2>3, <2>4 DEF UsedExact, Sizes
<1>2. Base /\ Base' /\ Finite /\ UsedExact /\ [Next]_vars => Finite' /\ UsedExact'
  BY UsedStep
<1> QED BY <1>1, <1>2, BaseInvariant, PTL DEF Spec

-----------------------------------------------------------------------------
(***************************************************************************)
(* Deadlock.                                                               *)
(***************************************************************************)

\* The clients never all wait for each other's locks, with a journal or without one.
THEOREM DeadlockFree == Spec => []NoDeadlock
<1>1. HighestShard
  <2> SUFFICES ASSUME NEW T \in SUBSET Shards, T # {}
               PROVE  \E h \in T : \A s \in T : s <= h
    BY DEF HighestShard
  <2>1. T \in SUBSET Nat /\ NumShards \in Nat /\ \A n \in T : n <= NumShards
    BY StoreAssumption DEF Shards
  <2>2. PICK h \in T : \A s \in T : h >= s
    BY <2>1, Greatest
  <2> QED BY <2>1, <2>2
<1>2. Base /\ InOrder => NoDeadlock
  BY <1>1, SomebodyRuns
<1> QED BY <1>2, BaseInvariant, LocksInOrder, PTL
=============================================================================
