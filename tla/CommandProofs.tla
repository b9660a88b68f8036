--------------------------- MODULE CommandProofs ---------------------------
(* What holds of the keyspace under every command, for all keys, strings,    *)
(* widths of integers and arguments.                                         *)
(*                                                                           *)
(* The inductive invariant says of every key that its object is sound: of    *)
(* its type, finite, and no collection without elements.  Every command      *)
(* builds its new store from the old one by removing keys, by putting sound  *)
(* objects and by giving new deadlines; the lemmas say that these keep a     *)
(* store sound.                                                              *)
EXTENDS Commands, FiniteSetTheorems, WellFoundedInduction, TLAPS

FiniteMembers == {S \in SUBSET Fields : IsFiniteSet(S)}
FiniteZSets == {z \in SortedSets : IsFiniteSet(DOMAIN z)}

IsFiniteCollection(o) ==
  /\ Type(o) = "set" => IsFiniteSet(Payload(o))
  /\ Type(o) = "zset" => IsFiniteSet(DOMAIN Payload(o))

Sound(o) == o \in Object /\ ~IsEmptyCollection(o) /\ IsFiniteCollection(o)

SoundStore(d) ==
  /\ d = [k \in DOMAIN d |-> d[k]]
  /\ DOMAIN d \subseteq Keys
  /\ \A k \in DOMAIN d : Sound(d[k])

IInv == /\ SoundStore(data)
        /\ clock \in 0..MaxTime
        /\ up \in BOOLEAN

-----------------------------------------------------------------------------
(* Integers. *)

LEMMA WrapInRange == ASSUME NEW n \in Int PROVE Wrap(n) \in LongLong
<1> DEFINE M == 2 * (LLMax + 1)
<1>1. LLMax \in Nat
  BY LongLongAssumption
<1>2. M \in Nat \ {0}
  BY <1>1
<1>3. n + LLMax + 1 \in Int
  BY <1>1
<1>4. \A a \in Int, b \in Nat \ {0} : a % b \in 0..b - 1
  OBVIOUS
<1> HIDE DEF M
<1>5. (n + LLMax + 1) % M \in 0..M - 1
  BY <1>2, <1>3, <1>4
<1>6. M = 2 * (LLMax + 1)
  BY DEF M
<1> QED
  BY <1>1, <1>5, <1>6 DEF Wrap, LongLong

LEMMA SecondsInRange == ASSUME NEW n \in Int PROVE n * Sec \in Int
BY SecAssumption

LEMMA FromCharsType == ASSUME NEW s \in Str
                       PROVE  FromChars(s) \in LongLong \cup {NotNumber}
BY FromCharsAssumption

LEMMA NoExpiryInRange == NoExpiry \in LongLong
BY LongLongAssumption DEF NoExpiry, LongLong

LEMMA ZeroText == ToChars(0) \in Str
BY LongLongAssumption, ToCharsAssumption DEF LongLong

(* doIncrLike either reports an error or returns a number of the type. *)
LEMMA IncrementInRange ==
  ASSUME NEW s \in Str, NEW delta \in LongLong, DoIncrLike(s, delta).error = "none"
  PROVE  /\ DoIncrLike(s, delta).number \in LongLong
         /\ ToChars(DoIncrLike(s, delta).number) \in Str
<1> DEFINE n == FromChars(s)
<1>1. LLMax \in Nat
  BY LongLongAssumption
<1>2. n \in LongLong \cup {NotNumber}
  BY FromCharsType
<1>3. /\ n # NotNumber
      /\ ~(delta > 0 /\ n > LLMax - delta)
      /\ ~(delta < 0 /\ n < (-LLMax - 1) - delta)
      /\ DoIncrLike(s, delta).number = n + delta
  BY DEF DoIncrLike
<1>4. n + delta \in LongLong
  BY <1>1, <1>2, <1>3 DEF LongLong
<1> QED
  BY <1>3, <1>4, ToCharsAssumption

-----------------------------------------------------------------------------
(* Objects. *)

LEMMA ObjectParts ==
  ASSUME NEW o, Sound(o)
  PROVE  /\ o.value \in Value /\ o.expiresAt \in LongLong
         /\ o = [value |-> o.value, expiresAt |-> o.expiresAt]
BY DEF Sound, Object

LEMMA SoundString ==
  ASSUME NEW s \in Str, NEW e \in LongLong
  PROVE  Sound(StringObject(s, e))
<1> DEFINE o == StringObject(s, e)
<1>1. o.value = <<"string", s>> /\ o.expiresAt = e
  BY DEF StringObject
<1>2. <<"string", s>> \in Value
  BY DEF Value
<1>3. o \in Object
  BY <1>2 DEF StringObject, Object
<1>4. Type(o) = "string"
  BY <1>1 DEF Type
<1>5. ~IsEmptyCollection(o) /\ IsFiniteCollection(o)
  BY <1>4 DEF IsEmptyCollection, IsFiniteCollection
<1> QED
  BY <1>3, <1>5 DEF Sound

LEMMA SoundList ==
  ASSUME NEW l \in Seq(Str), l # <<>>, NEW e \in LongLong
  PROVE  Sound([value |-> <<"list", l>>, expiresAt |-> e])
<1> DEFINE o == [value |-> <<"list", l>>, expiresAt |-> e]
<1>1. <<"list", l>> \in Value
  BY DEF Value
<1>2. o \in Object
  BY <1>1 DEF Object
<1>3. Type(o) = "list" /\ Payload(o) = l
  BY DEF Type, Payload
<1>4. ~IsEmptyCollection(o) /\ IsFiniteCollection(o)
  BY <1>3 DEF IsEmptyCollection, IsFiniteCollection
<1> QED
  BY <1>2, <1>4 DEF Sound

LEMMA SoundSet ==
  ASSUME NEW S \in FiniteMembers, S # {}, NEW e \in LongLong
  PROVE  Sound([value |-> <<"set", S>>, expiresAt |-> e])
<1> DEFINE o == [value |-> <<"set", S>>, expiresAt |-> e]
<1>1. <<"set", S>> \in Value /\ IsFiniteSet(S)
  BY DEF Value, FiniteMembers
<1>2. o \in Object
  BY <1>1 DEF Object
<1>3. Type(o) = "set" /\ Payload(o) = S
  BY DEF Type, Payload
<1>4. ~IsEmptyCollection(o) /\ IsFiniteCollection(o)
  BY <1>1, <1>3 DEF IsEmptyCollection, IsFiniteCollection
<1> QED
  BY <1>2, <1>4 DEF Sound

LEMMA SoundHash ==
  ASSUME NEW h \in Hashes, DOMAIN h # {}, NEW e \in LongLong
  PROVE  Sound([value |-> <<"hash", h>>, expiresAt |-> e])
<1> DEFINE o == [value |-> <<"hash", h>>, expiresAt |-> e]
<1>1. <<"hash", h>> \in Value
  BY DEF Value
<1>2. o \in Object
  BY <1>1 DEF Object
<1>3. Type(o) = "hash" /\ Payload(o) = h
  BY DEF Type, Payload
<1>4. ~IsEmptyCollection(o) /\ IsFiniteCollection(o)
  BY <1>3 DEF IsEmptyCollection, IsFiniteCollection
<1> QED
  BY <1>2, <1>4 DEF Sound

LEMMA SoundZSet ==
  ASSUME NEW z \in FiniteZSets, DOMAIN z # {}, NEW e \in LongLong
  PROVE  Sound([value |-> <<"zset", z>>, expiresAt |-> e])
<1> DEFINE o == [value |-> <<"zset", z>>, expiresAt |-> e]
<1>1. <<"zset", z>> \in Value /\ IsFiniteSet(DOMAIN z)
  BY DEF Value, FiniteZSets
<1>2. o \in Object
  BY <1>1 DEF Object
<1>3. Type(o) = "zset" /\ Payload(o) = z
  BY DEF Type, Payload
<1>4. ~IsEmptyCollection(o) /\ IsFiniteCollection(o)
  BY <1>1, <1>3 DEF IsEmptyCollection, IsFiniteCollection
<1> QED
  BY <1>2, <1>4 DEF Sound

(* The payload of a sound object is what its type says. *)
LEMMA PayloadType ==
  ASSUME NEW o, Sound(o)
  PROVE  /\ Type(o) = "string" => Payload(o) \in Str
         /\ Type(o) = "list" => Payload(o) \in Seq(Str) /\ Payload(o) # <<>>
         /\ Type(o) = "set" => Payload(o) \in FiniteMembers /\ Payload(o) # {}
         /\ Type(o) = "hash" => Payload(o) \in Hashes /\ DOMAIN Payload(o) # {}
         /\ Type(o) = "zset" => Payload(o) \in FiniteZSets /\ DOMAIN Payload(o) # {}
<1>1. o.value \in Value
  BY ObjectParts
<1>2. PICK type, p : /\ o.value = <<type, p>>
                     /\ \/ type = "string" /\ p \in Str
                        \/ type = "list" /\ p \in Seq(Str)
                        \/ type = "set" /\ p \in SUBSET Fields
                        \/ type = "hash" /\ p \in Hashes
                        \/ type = "zset" /\ p \in SortedSets
  BY <1>1 DEF Value
<1>3. Type(o) = type /\ Payload(o) = p
  BY <1>2 DEF Type, Payload
<1>4. ~IsEmptyCollection(o) /\ IsFiniteCollection(o)
  BY DEF Sound
<1> QED
  BY <1>2, <1>3, <1>4 DEF IsEmptyCollection, IsFiniteCollection, FiniteMembers, FiniteZSets

(* A new deadline leaves an object sound. *)
LEMMA SoundDeadline ==
  ASSUME NEW o, Sound(o), NEW e \in LongLong
  PROVE  Sound([o EXCEPT !.expiresAt = e])
<1> DEFINE p == [o EXCEPT !.expiresAt = e]
<1>1. p \in Object /\ p.value = o.value
  BY DEF Sound, Object
<1>2. Type(p) = Type(o) /\ Payload(p) = Payload(o)
  BY <1>1 DEF Type, Payload
<1> HIDE DEF p
<1>3. ~IsEmptyCollection(p) /\ IsFiniteCollection(p)
  BY <1>2 DEF Sound, IsEmptyCollection, IsFiniteCollection
<1> QED
  BY <1>1, <1>3 DEF Sound, p

-----------------------------------------------------------------------------
(* Stores. *)

LEMMA EmptyStore == SoundStore([k \in {} |-> 0])
BY DEF SoundStore

LEMMA RestrictSound ==
  ASSUME NEW d, SoundStore(d), NEW S \in SUBSET DOMAIN d
  PROVE  SoundStore(Restrict(d, S)) /\ DOMAIN Restrict(d, S) = S
BY DEF SoundStore, Restrict

LEMMA EraseSound ==
  ASSUME NEW d, SoundStore(d), NEW k
  PROVE  SoundStore(Erase(d, k))
BY RestrictSound DEF Erase

LEMMA PutSound ==
  ASSUME NEW d, SoundStore(d), NEW k \in Keys, NEW o, Sound(o)
  PROVE  SoundStore(Put(d, k, o))
BY DEF SoundStore, Put

(* Looking at a key keeps the store sound and every key it leaves as it was. *)
LEMMA LookSound ==
  ASSUME NEW d, SoundStore(d), NEW k, NEW t
  PROVE  /\ SoundStore(ExpireIfNeeded(d, k, t))
         /\ DOMAIN ExpireIfNeeded(d, k, t) \subseteq DOMAIN d
         /\ \A x \in DOMAIN ExpireIfNeeded(d, k, t) : ExpireIfNeeded(d, k, t)[x] = d[x]
<1>1. SoundStore(Erase(d, k))
  BY EraseSound
<1> QED
  BY <1>1 DEF ExpireIfNeeded, Erase, Restrict

LEMMA ExpireEachSound ==
  ASSUME NEW d, SoundStore(d), NEW ks, NEW ts
  PROVE  SoundStore(ExpireEach(d, ks, ts))
BY RestrictSound DEF ExpireEach

LEMMA SetExpireSound ==
  ASSUME NEW d, SoundStore(d), NEW k, NEW e \in LongLong
  PROVE  SoundStore(SetExpire(d, k, e))
<1>1. CASE k \notin DOMAIN d
  BY <1>1 DEF SetExpire
<1>2. CASE k \in DOMAIN d
  <2>1. Sound([d[k] EXCEPT !.expiresAt = e])
    BY <1>2, SoundDeadline DEF SoundStore
  <2>2. SetExpire(d, k, e) = [d EXCEPT ![k] = [d[k] EXCEPT !.expiresAt = e]]
    BY <1>2 DEF SetExpire, SoundStore
  <2> QED
    BY <2>1, <2>2 DEF SoundStore
<1> QED
  BY <1>1, <1>2

(* A value that may replace another one under the same deadline. *)
LEMMA SetValueSound ==
  ASSUME NEW d, SoundStore(d), NEW k \in DOMAIN d, NEW v,
         \A e \in LongLong : Sound([value |-> v, expiresAt |-> e])
  PROVE  SoundStore(SetValue(d, k, v))
<1> DEFINE o == [d[k] EXCEPT !.value = v]
<1>1. Sound(d[k])
  BY DEF SoundStore
<1>2. o = [value |-> v, expiresAt |-> d[k].expiresAt]
  BY <1>1, ObjectParts
<1>3. Sound(o)
  BY <1>1, <1>2, ObjectParts
<1>4. SetValue(d, k, v) = [d EXCEPT ![k] = o]
  BY DEF SetValue, SoundStore
<1> HIDE DEF o
<1> QED
  BY <1>3, <1>4 DEF SoundStore

LEMMA RenameSound ==
  ASSUME NEW d, SoundStore(d), NEW old \in Keys, NEW new \in Keys,
         NEW overwrite, NEW t
  PROVE  SoundStore(Rename(d, old, new, overwrite, t).store)
<1> DEFINE d1 == ExpireIfNeeded(d, old, t[1])
           d2 == ExpireIfNeeded(d1, new, t[2])
           moved == Put(Erase(d2, old), new, d2[old])
<1>1. SoundStore(d1)
  BY LookSound
<1>2. SoundStore(d2)
  BY <1>1, LookSound
<1>3. old \in DOMAIN d2 => SoundStore(moved)
  <2> SUFFICES ASSUME old \in DOMAIN d2
               PROVE  SoundStore(moved)
    OBVIOUS
  <2>1. Sound(d2[old])
    BY <1>2 DEF SoundStore
  <2>2. SoundStore(Erase(d2, old))
    BY <1>2, EraseSound
  <2> QED
    BY <2>1, <2>2, PutSound
<1>4. \/ Rename(d, old, new, overwrite, t).store = d1
      \/ Rename(d, old, new, overwrite, t).store = d2
      \/ old \in DOMAIN d2 /\ Rename(d, old, new, overwrite, t).store = moved
  BY DEF Rename
<1> HIDE DEF d1, d2, moved
<1> QED
  BY <1>1, <1>2, <1>3, <1>4

(* A non-empty set of indexes has a last one. *)
LEMMA LastOfBounded ==
  ASSUME NEW n \in Nat, NEW I \in SUBSET (1..n), I # {}
  PROVE  \E i \in I : \A j \in I : j <= i
<1> DEFINE From(i) == i..n
           T == {From(i) : i \in I}
<1>1. IsFiniteSet(1..n)
  BY FS_Interval
<1>2. T \subseteq FiniteSubsetsOf(1..n) /\ T # {}
  <2>1. \A i \in I : From(i) \subseteq 1..n
    OBVIOUS
  <2>2. \A i \in I : IsFiniteSet(From(i))
    BY <1>1, <2>1, FS_Subset
  <2> QED
    BY <2>1, <2>2 DEF FiniteSubsetsOf
<1>3. PICK x \in T : \A y \in T : <<y, x>> \notin StrictSubsetOrdering(1..n)
  BY <1>2, FS_StrictSubsetOrderingWellFounded, WFMin
<1>4. PICK i \in I : x = From(i)
  OBVIOUS
<1>5. \A j \in I : ~(i < j)
  <2> SUFFICES ASSUME NEW j \in I, i < j
               PROVE  FALSE
    OBVIOUS
  <2>1. From(j) \subseteq From(i) /\ From(j) # From(i) /\ From(i) \subseteq 1..n
    <3>1. i \in From(i) /\ i \notin From(j)
      OBVIOUS
    <3> QED
      BY <3>1
  <2>2. <<From(j), From(i)>> \in StrictSubsetOrdering(1..n)
    BY <2>1 DEF StrictSubsetOrdering
  <2> QED
    BY <1>3, <1>4, <2>2
<1> QED
  BY <1>5

(* MSET and MSETNX. *)
LEMMA SetAllSound ==
  ASSUME NEW d, SoundStore(d), NEW pairs \in Seq(Keys \X Str)
  PROVE  SoundStore(SetAll(d, pairs))
<1> DEFINE named == {pairs[i][1] : i \in DOMAIN pairs}
           final(k) == CHOOSE i \in DOMAIN pairs :
                         pairs[i][1] = k /\ \A j \in DOMAIN pairs : pairs[j][1] = k => j <= i
           new == SetAll(d, pairs)
<1>1. \A i \in DOMAIN pairs : pairs[i][1] \in Keys /\ pairs[i][2] \in Str
  OBVIOUS
<1>2. \A k \in named : final(k) \in DOMAIN pairs
  <2> SUFFICES ASSUME NEW k \in named
               PROVE  final(k) \in DOMAIN pairs
    OBVIOUS
  <2> DEFINE I == {i \in DOMAIN pairs : pairs[i][1] = k}
  <2>1. I # {} /\ I \subseteq 1..Len(pairs)
    OBVIOUS
  <2>2. \E i \in I : \A j \in I : j <= i
    <3> HIDE DEF I
    <3>1. Len(pairs) \in Nat
      OBVIOUS
    <3> QED
      BY <2>1, <3>1, LastOfBounded
  <2> QED
    BY <2>2
<1>3. /\ DOMAIN new = DOMAIN d \cup named
      /\ \A k \in named : new[k] = StringObject(pairs[final(k)][2], NoExpiry)
      /\ \A k \in DOMAIN d \ named : new[k] = d[k]
      /\ new = [k \in DOMAIN new |-> new[k]]
  BY DEF SetAll
<1>4. \A k \in named : Sound(new[k])
  <2> SUFFICES ASSUME NEW k \in named
               PROVE  Sound(new[k])
    OBVIOUS
  <2>1. new[k] = StringObject(pairs[final(k)][2], NoExpiry)
    BY <1>3
  <2>2. pairs[final(k)][2] \in Str
    BY <1>1, <1>2
  <2> HIDE DEF final, new, named
  <2> QED
    BY <2>1, <2>2, SoundString, NoExpiryInRange
<1>5. named \subseteq Keys
  BY <1>1
<1> HIDE DEF new, named
<1> QED
  BY <1>3, <1>4, <1>5 DEF SoundStore, new

-----------------------------------------------------------------------------
(* How a command ends. *)

LEMMA ReadingsLater ==
  ASSUME NEW n \in Nat \ {0}, NEW t \in Readings(n)
  PROVE  \A i \in 1..n : t[i] \in Later
BY DEF Readings

LEMMA LaterInRange ==
  ASSUME IInv, NEW t \in Later
  PROVE  t \in 0..MaxTime /\ t \in LongLong
BY MaxTimeAssumption, LongLongAssumption DEF Later, IInv, LongLong

LEMMA DoneKeeps ==
  ASSUME IInv, NEW call, NEW t \in Later, NEW d, SoundStore(d), NEW reply,
         Done(call, t, d, reply)
  PROVE  IInv'
<1>1. data' = d /\ clock' = t /\ up' = up
  BY DEF Done
<1>2. t \in 0..MaxTime
  BY LaterInRange
<1>3. SoundStore(data)'
  BY <1>1 DEF SoundStore
<1> QED
  BY <1>1, <1>2, <1>3 DEF IInv

LEMMA NullDereferenceKeeps ==
  ASSUME IInv, NEW call, NEW t \in Later, NEW d, SoundStore(d),
         NullDereference(call, t, d)
  PROVE  IInv'
<1>1. data' = d /\ clock' = t /\ up' = FALSE
  BY DEF NullDereference
<1>2. t \in 0..MaxTime
  BY LaterInRange
<1>3. SoundStore(data)'
  BY <1>1 DEF SoundStore
<1> QED
  BY <1>1, <1>2, <1>3 DEF IInv

(* The commands that look at their key and leave the rest alone, and those   *)
(* that put a string without a deadline there.                               *)
LEMMA LookKeeps ==
  ASSUME IInv, NEW call, NEW k, NEW u, NEW t \in Later, NEW reply,
         Done(call, t, ExpireIfNeeded(data, k, u), reply)
  PROVE  IInv'
<1>1. SoundStore(ExpireIfNeeded(data, k, u))
  BY LookSound DEF IInv
<1> QED
  BY <1>1, DoneKeeps

LEMMA PutStringKeeps ==
  ASSUME IInv, NEW call, NEW k \in Keys, NEW v \in Str, NEW t \in Later, NEW reply,
         Done(call, t, Put(ExpireIfNeeded(data, k, t), k, StringObject(v, NoExpiry)), reply)
  PROVE  IInv'
<1>1. SoundStore(ExpireIfNeeded(data, k, t))
  BY LookSound DEF IInv
<1>2. SoundStore(Put(ExpireIfNeeded(data, k, t), k, StringObject(v, NoExpiry)))
  BY <1>1, PutSound, SoundString, NoExpiryInRange
<1> QED
  BY <1>2, DoneKeeps

-----------------------------------------------------------------------------
(* The commands on keys. *)

LEMMA DelKeeps == ASSUME IInv, NEW ks, Del(ks) PROVE IInv'
<1>1. SoundStore(Restrict(data, DOMAIN data \ {ks[i] : i \in DOMAIN ks}))
  BY RestrictSound DEF IInv
<1> QED
  BY <1>1, DoneKeeps DEF Del

LEMMA ExistsKeeps == ASSUME IInv, NEW ks \in KeyLists, Exists(ks) PROVE IInv'
<1>1. Len(ks) \in Nat \ {0}
  BY ArgumentsAssumption
<1>2. PICK t, reply :
        /\ t \in Readings(Len(ks))
        /\ Done(<<"EXISTS", ks>>, t[Len(ks)], ExpireEach(data, ks, t), reply)
  BY DEF Exists
<1>3. t[Len(ks)] \in Later
  BY <1>1, <1>2, ReadingsLater
<1>4. SoundStore(ExpireEach(data, ks, t))
  BY ExpireEachSound DEF IInv
<1> QED
  BY <1>2, <1>3, <1>4, DoneKeeps

LEMMA SaturateInRange ==
  ASSUME IInv, NEW t \in Later, NEW n \in LongLong, n > 0
  PROVE  Saturate(t, n) \in LongLong
<1>1. t \in 0..MaxTime
  BY LaterInRange
<1> QED
  BY <1>1, MaxTimeAssumption, LongLongAssumption DEF Saturate, LongLong

LEMMA PExpireByKeeps ==
  ASSUME IInv, NEW call, NEW k, NEW n, PExpireBy(call, k, n)
  PROVE  IInv'
<1>1. PICK t \in Readings(2) :
        LET d == ExpireIfNeeded(data, k, t[1])
        IN  \/ Done(call, t[2], d, IntReply(0))
            \/ Done(call, t[2], d, NotInteger)
            \/ Done(call, t[2], Erase(d, k), IntReply(1))
            \/ /\ n \in LongLong /\ n > 0
               /\ Done(call, t[2], SetExpire(d, k, Saturate(t[2], n)), IntReply(1))
  BY DEF PExpireBy
<1> DEFINE d == ExpireIfNeeded(data, k, t[1])
<1>2. t[2] \in Later
  BY ReadingsLater
<1>3. SoundStore(d)
  BY LookSound DEF IInv
<1> HIDE DEF d
<1>4. SoundStore(Erase(d, k))
  BY <1>3, EraseSound
<1>5. n \in LongLong /\ n > 0 => SoundStore(SetExpire(d, k, Saturate(t[2], n)))
  BY <1>2, <1>3, SaturateInRange, SetExpireSound
<1> QED
  BY <1>1, <1>2, <1>3, <1>4, <1>5, DoneKeeps DEF d

LEMMA PExpireAtTimeKeeps ==
  ASSUME IInv, NEW call, NEW k, NEW n, PExpireAtTime(call, k, n)
  PROVE  IInv'
<1>1. PICK t \in Readings(2) :
        LET d == ExpireIfNeeded(data, k, t[1])
        IN  \/ Done(call, t[2], d, IntReply(0))
            \/ Done(call, t[2], d, NotInteger)
            \/ Done(call, t[2], Erase(d, k), IntReply(1))
            \/ n \in LongLong /\ Done(call, t[2], SetExpire(d, k, n), IntReply(1))
  BY DEF PExpireAtTime
<1> DEFINE d == ExpireIfNeeded(data, k, t[1])
<1>2. t[2] \in Later
  BY ReadingsLater
<1>3. SoundStore(d)
  BY LookSound DEF IInv
<1> HIDE DEF d
<1>4. SoundStore(Erase(d, k))
  BY <1>3, EraseSound
<1>5. n \in LongLong => SoundStore(SetExpire(d, k, n))
  BY <1>3, SetExpireSound
<1> QED
  BY <1>1, <1>2, <1>3, <1>4, <1>5, DoneKeeps DEF d

LEMMA PersistKeeps == ASSUME IInv, NEW k, Persist(k) PROVE IInv'
<1>1. PICK t, reply :
        /\ t \in Later
        /\ Done(<<"PERSIST", k>>, t, SetExpire(ExpireIfNeeded(data, k, t), k, NoExpiry), reply)
  BY DEF Persist
<1>2. SoundStore(SetExpire(ExpireIfNeeded(data, k, t), k, NoExpiry))
  BY LookSound, SetExpireSound, NoExpiryInRange DEF IInv
<1> QED
  BY <1>1, <1>2, DoneKeeps

LEMMA TtlKeeps == ASSUME IInv, NEW k, PTtl(k) \/ TtlSeconds(k) PROVE IInv'
<1>1. \A t \in Readings(3) : t[3] \in Later
  BY ReadingsLater
<1>2. CASE PTtl(k)
  BY <1>1, <1>2, LookKeeps DEF PTtl
<1>3. CASE TtlSeconds(k)
  BY <1>1, <1>3, LookKeeps DEF TtlSeconds
<1> QED
  BY <1>2, <1>3

LEMMA MoveKeeps ==
  ASSUME IInv, NEW old \in Keys, NEW new \in Keys, NEW u, NEW overwrite, NEW ts,
         NEW call, NEW t \in Later, NEW reply,
         Done(call, t, Rename(ExpireIfNeeded(data, old, u), old, new, overwrite, ts).store, reply)
  PROVE  IInv'
<1>1. SoundStore(ExpireIfNeeded(data, old, u))
  BY LookSound DEF IInv
<1>2. SoundStore(Rename(ExpireIfNeeded(data, old, u), old, new, overwrite, ts).store)
  BY <1>1, RenameSound
<1> QED
  BY <1>2, DoneKeeps

LEMMA RenameKeeps ==
  ASSUME IInv, NEW old \in Keys, NEW new \in Keys, RenameKey(old, new) \/ RenameNx(old, new)
  PROVE  IInv'
<1>1. \A t \in Readings(3) : t[3] \in Later
  BY ReadingsLater
<1>2. CASE RenameKey(old, new)
  BY <1>1, <1>2, LookKeeps, MoveKeeps DEF RenameKey
<1>3. CASE RenameNx(old, new)
  BY <1>1, <1>3, LookKeeps, MoveKeeps DEF RenameNx
<1> QED
  BY <1>2, <1>3

LEMMA TypeKeeps == ASSUME IInv, NEW k, TypeOf(k) PROVE IInv'
BY LookKeeps DEF TypeOf

LEMMA OnKeysKeeps == ASSUME IInv, OnKeys PROVE IInv'
BY DelKeeps, ExistsKeeps, PExpireByKeeps, PExpireAtTimeKeeps, PersistKeeps, TtlKeeps,
   RenameKeeps, TypeKeeps
   DEF OnKeys, PExpire, Expire, PExpireAt, ExpireAt

-----------------------------------------------------------------------------
(* The commands on strings. *)

LEMMA SetKeeps ==
  ASSUME IInv, NEW k \in Keys, NEW v \in Str, NEW options \in OptionLists, Set(k, v, options)
  PROVE  IInv'
<1>1. PICK t, p, reply :
        /\ t \in Readings(Len(options) + 1)
        /\ p \in Parsed
        /\ LET call == <<"SET", k, v, options>>
               end == t[Len(options) + 1]
               d == ExpireIfNeeded(data, k, end)
           IN  \/ Done(call, end, data, reply)
               \/ Done(call, end, d, reply)
               \/ Done(call, end, Put(d, k, StringObject(v, p.expireTime)), reply)
  BY DEF Set
<1> DEFINE end == t[Len(options) + 1]
           d == ExpireIfNeeded(data, k, end)
<1>2. end \in Later
  <2>1. Len(options) \in Nat
    BY ArgumentsAssumption
  <2> QED
    BY <1>1, <2>1, ReadingsLater
<1>3. SoundStore(data) /\ SoundStore(d)
  BY LookSound DEF IInv
<1>4. p.expireTime \in LongLong
  BY <1>1 DEF Parsed
<1>5. SoundStore(Put(d, k, StringObject(v, p.expireTime)))
  <2> HIDE DEF d
  <2> QED
    BY <1>3, <1>4, SoundString, PutSound
<1> QED
  BY <1>1, <1>2, <1>3, <1>5, DoneKeeps

(* GET, GETRANGE and STRLEN only look; GETSET and SETNX may write. *)
LEMMA StringReadersKeep ==
  ASSUME IInv, NEW k, NEW first, NEW end, Get(k) \/ StrLen(k) \/ GetRange(k, first, end)
  PROVE  IInv'
<1>1. CASE Get(k)
  BY <1>1, LookKeeps DEF Get
<1>2. CASE StrLen(k)
  BY <1>2, LookKeeps DEF StrLen
<1>3. CASE GetRange(k, first, end)
  BY <1>3, LookKeeps DEF GetRange
<1> QED
  BY <1>1, <1>2, <1>3

LEMMA StringWritersKeep ==
  ASSUME IInv, NEW k \in Keys, NEW v \in Str, GetSet(k, v) \/ SetNx(k, v)
  PROVE  IInv'
<1>1. CASE GetSet(k, v)
  BY <1>1, LookKeeps, PutStringKeeps DEF GetSet
<1>2. CASE SetNx(k, v)
  BY <1>2, LookKeeps, PutStringKeeps DEF SetNx
<1> QED
  BY <1>1, <1>2

LEMMA MGetKeeps == ASSUME IInv, NEW ks \in KeyLists, MGet(ks) PROVE IInv'
<1>1. Len(ks) \in Nat \ {0}
  BY ArgumentsAssumption
<1>2. PICK t, reply :
        /\ t \in Readings(Len(ks))
        /\ Done(<<"MGET", ks>>, t[Len(ks)], ExpireEach(data, ks, t), reply)
  BY DEF MGet
<1>3. t[Len(ks)] \in Later
  BY <1>1, <1>2, ReadingsLater
<1>4. SoundStore(ExpireEach(data, ks, t))
  BY ExpireEachSound DEF IInv
<1> QED
  BY <1>2, <1>3, <1>4, DoneKeeps

LEMMA MSetKeeps == ASSUME IInv, NEW pairs \in PairLists, MSet(pairs) PROVE IInv'
<1>1. PICK t \in Later : Done(<<"MSET", pairs>>, t, SetAll(data, pairs), OkReply)
  BY DEF MSet
<1>2. SoundStore(SetAll(data, pairs))
  BY SetAllSound, ArgumentsAssumption DEF IInv
<1> QED
  BY <1>1, <1>2, DoneKeeps

LEMMA MSetNxKeeps == ASSUME IInv, NEW pairs \in PairLists, MSetNx(pairs) PROVE IInv'
<1> DEFINE ks == [i \in DOMAIN pairs |-> pairs[i][1]]
<1>1. pairs \in Seq(Keys \X Str) /\ Len(pairs) \in Nat \ {0}
  <2>1. pairs \in Seq(Keys \X Str) \ {<<>>}
    BY ArgumentsAssumption
  <2>2. \A q \in Seq(Keys \X Str) \ {<<>>} : Len(q) \in Nat \ {0}
    OBVIOUS
  <2> QED
    BY <2>1, <2>2
<1>2. ks \in Seq(Keys) /\ Len(ks) = Len(pairs) /\ DOMAIN ks = 1..Len(pairs)
  BY <1>1
<1> HIDE DEF ks
<1>3. PICK t \in Readings(Len(pairs)) :
        \/ \E i \in DOMAIN ks : 
             Done(<<"MSETNX", pairs>>, t[i], ExpireEach(data, SubSeq(ks, 1, i), t), IntReply(0))
        \/ Done(<<"MSETNX", pairs>>, t[Len(ks)],
                SetAll(ExpireEach(data, ks, t), pairs), IntReply(1))
  BY DEF MSetNx, ks
<1>4. CASE \E i \in DOMAIN ks : 
             Done(<<"MSETNX", pairs>>, t[i], ExpireEach(data, SubSeq(ks, 1, i), t), IntReply(0))
  <2>1. PICK i \in DOMAIN ks : 
          Done(<<"MSETNX", pairs>>, t[i], ExpireEach(data, SubSeq(ks, 1, i), t), IntReply(0))
    BY <1>4
  <2>2. t[i] \in Later
    BY <1>1, <1>2, ReadingsLater
  <2>3. SoundStore(ExpireEach(data, SubSeq(ks, 1, i), t))
    BY ExpireEachSound DEF IInv
  <2> QED
    BY <2>1, <2>2, <2>3, DoneKeeps
<1>5. CASE Done(<<"MSETNX", pairs>>, t[Len(ks)],
                SetAll(ExpireEach(data, ks, t), pairs), IntReply(1))
  <2>1. t[Len(ks)] \in Later
    BY <1>1, <1>2, ReadingsLater
  <2>2. SoundStore(SetAll(ExpireEach(data, ks, t), pairs))
    BY <1>1, ExpireEachSound, SetAllSound DEF IInv
  <2> QED
    BY <1>5, <2>1, <2>2, DoneKeeps
<1> QED
  BY <1>3, <1>4, <1>5

LEMMA SetForKeeps ==
  ASSUME IInv, NEW call, NEW k \in Keys, NEW v \in Str, NEW n, NEW perUnit \in Int,
         SetFor(call, k, v, n, perUnit)
  PROVE  IInv'
<1>1. PICK t, reply :
        /\ t \in Later
        /\ \/ Done(call, t, data, reply)
           \/ /\ n \in LongLong
              /\ Done(call, t, Put(data, k, StringObject(v, Wrap(t + Wrap(n * perUnit)))), reply)
  BY DEF SetFor
<1>a. t \in Later
  BY <1>1
<1>2. n \in LongLong => Wrap(t + Wrap(n * perUnit)) \in LongLong
  <2> SUFFICES ASSUME n \in LongLong
               PROVE  Wrap(t + Wrap(n * perUnit)) \in LongLong
    OBVIOUS
  <2>1. n * perUnit \in Int
    BY LongLongAssumption DEF LongLong
  <2>2. Wrap(n * perUnit) \in Int
    BY <2>1, WrapInRange, LongLongAssumption DEF LongLong
  <2>3. t \in Int
    BY <1>a, LaterInRange
  <2>4. t + Wrap(n * perUnit) \in Int
    BY <2>2, <2>3
  <2> QED
    BY <2>4, WrapInRange
<1>3. n \in LongLong => SoundStore(Put(data, k, StringObject(v, Wrap(t + Wrap(n * perUnit)))))
  BY <1>2, SoundString, PutSound DEF IInv
<1> QED
  BY <1>1, <1>3, DoneKeeps DEF IInv

LEMMA IncrementByKeeps ==
  ASSUME IInv, NEW call, NEW k \in Keys, NEW delta \in LongLong, IncrementBy(call, k, delta)
  PROVE  IInv'
<1>1. PICK t, reply :
        /\ t \in Later
        /\ LET d == ExpireIfNeeded(data, k, t)
               e == IF k \in DOMAIN d THEN d ELSE Put(d, k, StringObject(ToChars(0), NoExpiry))
               r == DoIncrLike(Payload(e[k]), delta)
           IN  \/ Done(call, t, d, reply)
               \/ Done(call, t, e, reply)
               \/ /\ ~IsOther(d, k) /\ r.error = "none"
                  /\ Done(call, t, SetValue(e, k, <<"string", ToChars(r.number)>>), reply)
  BY DEF IncrementBy
<1>a. t \in Later
  BY <1>1
<1> DEFINE d == ExpireIfNeeded(data, k, t)
           e == IF k \in DOMAIN d THEN d ELSE Put(d, k, StringObject(ToChars(0), NoExpiry))
           r == DoIncrLike(Payload(e[k]), delta)
           sum == SetValue(e, k, <<"string", ToChars(r.number)>>)
<1>2. SoundStore(d)
  BY LookSound DEF IInv
<1>3. Sound(StringObject(ToChars(0), NoExpiry))
  BY ZeroText, NoExpiryInRange, SoundString
<1>4. SoundStore(e) /\ k \in DOMAIN e
  <2> HIDE DEF d
  <2>1. CASE k \in DOMAIN d
    BY <1>2, <2>1
  <2>2. CASE k \notin DOMAIN d
    <3>1. e = Put(d, k, StringObject(ToChars(0), NoExpiry))
      BY <2>2
    <3>2. k \in DOMAIN e
      BY <3>1 DEF Put
    <3> QED
      BY <1>2, <1>3, <3>1, <3>2, PutSound
  <2> QED
    BY <2>1, <2>2
<1>5. ~IsOther(d, k) => Type(e[k]) = "string"
  <2> HIDE DEF d
  <2>1. CASE k \in DOMAIN d
    BY <2>1 DEF IsOther
  <2>2. CASE k \notin DOMAIN d
    BY <2>2 DEF Put, StringObject, Type
  <2> QED
    BY <2>1, <2>2
<1>6. ~IsOther(d, k) /\ r.error = "none" => SoundStore(sum)
  <2> SUFFICES ASSUME ~IsOther(d, k), r.error = "none"
               PROVE  SoundStore(sum)
    OBVIOUS
  <2>1. Sound(e[k])
    BY <1>4 DEF SoundStore
  <2>2. Payload(e[k]) \in Str
    BY <1>5, <2>1, PayloadType
  <2>3. ToChars(r.number) \in Str
    BY <2>2, IncrementInRange
  <2> DEFINE v == <<"string", ToChars(r.number)>>
  <2>4. \A x \in LongLong : Sound([value |-> v, expiresAt |-> x])
    BY <2>3, SoundString DEF StringObject
  <2> HIDE DEF d, e, r, v
  <2>5. SoundStore(SetValue(e, k, v))
    BY <1>4, <2>4, SetValueSound
  <2> QED
    BY <2>5 DEF v
<1>7. \/ Done(call, t, d, reply)
      \/ Done(call, t, e, reply)
      \/ ~IsOther(d, k) /\ r.error = "none" /\ Done(call, t, sum, reply)
  BY <1>1
<1> HIDE DEF d, e, r, sum
<1> QED
  BY <1>a, <1>2, <1>4, <1>6, <1>7, DoneKeeps

LEMMA IncrementsKeep ==
  ASSUME IInv, NEW k \in Keys, NEW s \in Str,
         Incr(k) \/ Decr(k) \/ IncrBy(k, s) \/ DecrBy(k, s)
  PROVE  IInv'
<1>1. 1 \in LongLong /\ -1 \in LongLong
  BY LongLongAssumption DEF LongLong
<1>2. \A n \in LongLong : Wrap(-n) \in LongLong
  <2> SUFFICES ASSUME NEW n \in LongLong
               PROVE  Wrap(-n) \in LongLong
    OBVIOUS
  <2>1. -n \in Int
    BY LongLongAssumption DEF LongLong
  <2> QED
    BY <2>1, WrapInRange
<1>3. ASSUME NEW call, RefuseIncrement(call, s)
      PROVE  IInv'
  BY <1>3, DoneKeeps DEF RefuseIncrement, IInv
<1>4. CASE Incr(k) \/ Decr(k)
  BY <1>1, <1>4, IncrementByKeeps DEF Incr, Decr
<1>5. CASE IncrBy(k, s)
  BY <1>3, <1>5, IncrementByKeeps DEF IncrBy
<1>6. CASE DecrBy(k, s)
  BY <1>2, <1>3, <1>6, IncrementByKeeps DEF DecrBy
<1> QED
  BY <1>4, <1>5, <1>6

LEMMA AppendKeeps ==
  ASSUME IInv, NEW k \in Keys, NEW v \in Str, AppendTo(k, v)
  PROVE  IInv'
<1>1. PICK t, reply :
        /\ t \in Later
        /\ LET call == <<"APPEND", k, v>>
               d == ExpireIfNeeded(data, k, t)
               s == Payload(d[k]) \o v
           IN  \/ Done(call, t, d, reply)
               \/ /\ IsString(d, k) /\ s \in Str
                  /\ Done(call, t, SetValue(d, k, <<"string", s>>), reply)
               \/ Done(call, t, Put(d, k, StringObject(v, NoExpiry)), reply)
  BY DEF AppendTo
<1>a. t \in Later
  BY <1>1
<1> DEFINE d == ExpireIfNeeded(data, k, t)
           s == Payload(d[k]) \o v
           longer == SetValue(d, k, <<"string", s>>)
           new == Put(d, k, StringObject(v, NoExpiry))
<1>2. SoundStore(d)
  BY LookSound DEF IInv
<1>3. IsString(d, k) /\ s \in Str => SoundStore(longer)
  <2> SUFFICES ASSUME k \in DOMAIN d, s \in Str
               PROVE  SoundStore(longer)
    BY DEF IsString
  <2> HIDE DEF d, s
  <2>1. \A x \in LongLong : Sound([value |-> <<"string", s>>, expiresAt |-> x])
    BY SoundString DEF StringObject
  <2> QED
    BY <1>2, <2>1, SetValueSound
<1>4. SoundStore(new)
  <2> HIDE DEF d
  <2> QED
    BY <1>2, PutSound, SoundString, NoExpiryInRange
<1>5. \/ Done(<<"APPEND", k, v>>, t, d, reply)
      \/ IsString(d, k) /\ s \in Str /\ Done(<<"APPEND", k, v>>, t, longer, reply)
      \/ Done(<<"APPEND", k, v>>, t, new, reply)
  BY <1>1
<1> HIDE DEF d, s, longer, new
<1> QED
  BY <1>a, <1>2, <1>3, <1>4, <1>5, DoneKeeps

LEMMA OnStringsKeeps == ASSUME IInv, OnStrings PROVE IInv'
<1>1. IntArgs \subseteq Str /\ Texts \subseteq Str
  BY ArgumentsAssumption
<1>2. Sec \in Int /\ 1 \in Int
  BY SecAssumption
<1>3. CASE \E k \in Keys, v \in Texts, o \in OptionLists : Set(k, v, o)
  BY <1>1, <1>3, SetKeeps
<1>4. CASE \/ \E k \in Keys : Get(k) \/ StrLen(k)
           \/ \E k \in Keys, first, end \in IntArgs : GetRange(k, first, end)
  BY <1>4, StringReadersKeep
<1>5. CASE \E k \in Keys, v \in Texts : GetSet(k, v) \/ SetNx(k, v)
  BY <1>1, <1>5, StringWritersKeep
<1>6. CASE \E k \in Keys, v \in Texts : AppendTo(k, v)
  BY <1>1, <1>6, AppendKeeps
<1>7. CASE \E ks \in KeyLists : MGet(ks)
  BY <1>7, MGetKeeps
<1>8. CASE \E pairs \in PairLists : MSet(pairs) \/ MSetNx(pairs)
  BY <1>8, MSetKeeps, MSetNxKeeps
<1>9. CASE \E k \in Keys, s \in IntArgs, v \in Texts : SetEx(k, s, v) \/ PSetEx(k, s, v)
  BY <1>1, <1>2, <1>9, SetForKeeps DEF SetEx, PSetEx
<1>10. CASE \E k \in Keys : Incr(k) \/ Decr(k)
  BY <1>10, ZeroText, IncrementsKeep
<1>11. CASE \E k \in Keys, s \in IntArgs : IncrBy(k, s) \/ DecrBy(k, s)
  BY <1>1, <1>11, IncrementsKeep
<1> QED
  BY <1>3, <1>4, <1>5, <1>6, <1>7, <1>8, <1>9, <1>10, <1>11 DEF OnStrings

-----------------------------------------------------------------------------
(* The commands on lists, sets and hashes. *)

LEMMA DeadlineOr ==
  ASSUME NEW d, SoundStore(d), NEW k
  PROVE  ExpiryOr(d, k) \in LongLong
BY NoExpiryInRange, ObjectParts DEF SoundStore, ExpiryOr

(* A writer may put any value that is sound under every deadline. *)
LEMMA PutCollectionKeeps ==
  ASSUME IInv, NEW call, NEW k \in Keys, NEW t \in Later, NEW v, NEW reply,
         \A e \in LongLong : Sound([value |-> v, expiresAt |-> e]),
         Done(call, t, PutCollection(ExpireIfNeeded(data, k, t), k, v), reply)
  PROVE  IInv'
<1> DEFINE d == ExpireIfNeeded(data, k, t)
<1>1. SoundStore(d)
  BY LookSound DEF IInv
<1>2. SoundStore(PutCollection(d, k, v))
  <2> HIDE DEF d
  <2> QED
    BY <1>1, DeadlineOr, PutSound DEF PutCollection
<1> QED
  BY <1>2, DoneKeeps

(* The collection a writer starts from. *)
LEMMA PayloadOrType ==
  ASSUME IInv, NEW k, NEW t, NEW empty
  PROVE  LET d == ExpireIfNeeded(data, k, t)
         IN  /\ empty \in Seq(Str) /\ ~HasOther(d, k, "list")
                => PayloadOr(d, k, empty) \in Seq(Str)
             /\ empty \in FiniteMembers /\ ~HasOther(d, k, "set")
                => PayloadOr(d, k, empty) \in FiniteMembers
             /\ empty \in Hashes /\ ~HasOther(d, k, "hash")
                => PayloadOr(d, k, empty) \in Hashes
<1> DEFINE d == ExpireIfNeeded(data, k, t)
<1>1. SoundStore(d)
  BY LookSound DEF IInv
<1> HIDE DEF d
<1>2. CASE k \in DOMAIN d
  <2>1. Sound(d[k])
    BY <1>1, <1>2 DEF SoundStore
  <2> QED
    BY <1>2, <2>1, PayloadType DEF HasOther, PayloadOr, d
<1>3. CASE k \notin DOMAIN d
  BY <1>3 DEF PayloadOr, d
<1> QED
  BY <1>2, <1>3

LEMMA PushedType ==
  ASSUME NEW vs \in Seq(Str) \ {<<>>}, NEW l \in Seq(Str)
  PROVE  ReverseOf(vs) \o l \in Seq(Str) \ {<<>>}
<1>1. Len(vs) \in Nat \ {0} /\ \A i \in 1..Len(vs) : vs[i] \in Str
  OBVIOUS
<1>2. ReverseOf(vs) \in Seq(Str) /\ Len(ReverseOf(vs)) = Len(vs)
  BY <1>1 DEF ReverseOf
<1>3. ReverseOf(vs) \o l \in Seq(Str) /\ Len(ReverseOf(vs) \o l) = Len(vs) + Len(l)
  BY <1>2
<1> QED
  BY <1>1, <1>3

LEMMA LPushKeeps ==
  ASSUME IInv, NEW k \in Keys, NEW vs \in ValueLists, LPush(k, vs)
  PROVE  IInv'
<1>1. PICK t \in Later :
        LET call == <<"LPUSH", k, vs>>
            d == ExpireIfNeeded(data, k, t)
            l == ReverseOf(vs) \o PayloadOr(d, k, <<>>)
        IN  \/ Done(call, t, d, WrongType)
            \/ /\ ~HasOther(d, k, "list")
               /\ Done(call, t, PutCollection(d, k, <<"list", l>>), IntReply(Len(l)))
  BY DEF LPush
<1> DEFINE d == ExpireIfNeeded(data, k, t)
           l == ReverseOf(vs) \o PayloadOr(d, k, <<>>)
<1>2. CASE Done(<<"LPUSH", k, vs>>, t, d, WrongType)
  BY <1>2, LookKeeps
<1>3. CASE /\ ~HasOther(d, k, "list")
           /\ Done(<<"LPUSH", k, vs>>, t, PutCollection(d, k, <<"list", l>>), IntReply(Len(l)))
  <2>1. PayloadOr(d, k, <<>>) \in Seq(Str)
    <3>1. <<>> \in Seq(Str)
      OBVIOUS
    <3> HIDE DEF l
    <3> QED
      BY <1>3, <3>1, PayloadOrType
  <2>2. vs \in Seq(Str) \ {<<>>}
    BY ArgumentsAssumption
  <2>3. l \in Seq(Str) /\ l # <<>>
    BY <2>1, <2>2, PushedType
  <2> HIDE DEF l
  <2>4. \A e \in LongLong : Sound([value |-> <<"list", l>>, expiresAt |-> e])
    BY <2>3, SoundList
  <2> QED
    BY <1>3, <2>4, PutCollectionKeeps
<1> QED
  BY <1>1, <1>2, <1>3

(* A sequence names finitely many elements. *)
LEMMA NamedFinite ==
  ASSUME NEW S, NEW s \in Seq(S)
  PROVE  IsFiniteSet({s[i] : i \in DOMAIN s})
<1> DEFINE T == {s[i] : i \in DOMAIN s}
<1>1. Len(s) \in Nat /\ DOMAIN s = 1..Len(s) /\ s \in [1..Len(s) -> S]
  OBVIOUS
<1>2. s \in Surjection(1..Len(s), T)
  BY <1>1 DEF Surjection
<1>3. IsFiniteSet(1..Len(s))
  BY <1>1, FS_Interval
<1> QED
  BY <1>2, <1>3, FS_Surjection

LEMMA SAddKeeps ==
  ASSUME IInv, NEW k \in Keys, NEW vs \in FieldLists, SAdd(k, vs)
  PROVE  IInv'
<1>1. PICK t, reply :
        /\ t \in Later
        /\ LET call == <<"SADD", k, vs>>
               d == ExpireIfNeeded(data, k, t)
               old == PayloadOr(d, k, {})
               new == {vs[i] : i \in DOMAIN vs} \ old
           IN  \/ Done(call, t, d, WrongType)
               \/ /\ ~HasOther(d, k, "set")
                  /\ Done(call, t, PutCollection(d, k, <<"set", old \cup new>>), reply)
  BY DEF SAdd
<1>a. t \in Later
  BY <1>1
<1> DEFINE d == ExpireIfNeeded(data, k, t)
           old == PayloadOr(d, k, {})
           new == {vs[i] : i \in DOMAIN vs} \ old
           S == old \cup new
<1>2. CASE Done(<<"SADD", k, vs>>, t, d, WrongType)
  BY <1>a, <1>2, LookKeeps
<1>3. CASE ~HasOther(d, k, "set") /\ Done(<<"SADD", k, vs>>, t, PutCollection(d, k, <<"set", S>>), reply)
  <2>1. old \in FiniteMembers
    BY <1>3, FS_EmptySet, PayloadOrType DEF FiniteMembers
  <2>2. vs \in Seq(Fields) \ {<<>>}
    BY ArgumentsAssumption
  <2>3. {vs[i] : i \in DOMAIN vs} \in FiniteMembers
    BY <2>2, NamedFinite DEF FiniteMembers
  <2>4. vs[1] \in {vs[i] : i \in DOMAIN vs}
    BY <2>2
  <2>5. S \in FiniteMembers /\ S # {}
    <3> HIDE DEF old
    <3>1. S = {vs[i] : i \in DOMAIN vs} \cup old
      OBVIOUS
    <3> QED
      BY <2>1, <2>3, <2>4, <3>1, FS_Union DEF FiniteMembers
  <2> HIDE DEF S
  <2>6. \A e \in LongLong : Sound([value |-> <<"set", S>>, expiresAt |-> e])
    BY <2>5, SoundSet
  <2> QED
    BY <1>a, <1>3, <2>6, PutCollectionKeeps
<1> QED
  BY <1>1, <1>2, <1>3

(* LPOP, SMEMBERS and HGET look twice, and may die at the second look. *)
LEMMA LookTwiceKeeps ==
  ASSUME IInv, NEW call, NEW k, NEW u, NEW w, NEW t \in Later, NEW reply,
         LET d == ExpireIfNeeded(ExpireIfNeeded(data, k, u), k, w)
         IN  NullDereference(call, t, d) \/ Done(call, t, d, reply)
  PROVE  IInv'
<1>1. SoundStore(ExpireIfNeeded(data, k, u))
  BY LookSound DEF IInv
<1>2. SoundStore(ExpireIfNeeded(ExpireIfNeeded(data, k, u), k, w))
  BY <1>1, LookSound
<1> QED
  BY <1>2, DoneKeeps, NullDereferenceKeeps

LEMMA CollectionReadersKeep ==
  ASSUME IInv, NEW k, NEW f, SMembers(k) \/ HGet(k, f)
  PROVE  IInv'
<1>1. \A t \in Readings(2) : t[2] \in Later
  BY ReadingsLater
<1>2. CASE SMembers(k)
  BY <1>1, <1>2, LookKeeps, LookTwiceKeeps DEF SMembers
<1>3. CASE HGet(k, f)
  BY <1>1, <1>3, LookKeeps, LookTwiceKeeps DEF HGet
<1> QED
  BY <1>2, <1>3

LEMMA TailType ==
  ASSUME NEW l \in Seq(Str), Len(l) > 1
  PROVE  Tail(l) \in Seq(Str) /\ Tail(l) # <<>>
<1>1. Tail(l) \in Seq(Str) /\ Len(Tail(l)) = Len(l) - 1
  OBVIOUS
<1>2. Len(l) \in Nat
  OBVIOUS
<1>3. Len(Tail(l)) > 0
  BY <1>1, <1>2
<1>4. \A q \in Seq(Str) : Len(q) > 0 => q # <<>>
  OBVIOUS
<1> QED
  BY <1>1, <1>3, <1>4

LEMMA LPopKeeps == ASSUME IInv, NEW k \in Keys, LPop(k) PROVE IInv'
<1>1. PICK t, reply :
        /\ t \in Readings(2)
        /\ LET call == <<"LPOP", k>>
               d1 == ExpireIfNeeded(data, k, t[1])
               d2 == ExpireIfNeeded(d1, k, t[2])
               l == Payload(d2[k])
           IN  \/ Done(call, t[2], d1, reply)
               \/ NullDereference(call, t[2], d2)
               \/ Done(call, t[2], d2, reply)
               \/ /\ HasType(d2, k, "list")
                  /\ Done(call, t[2],
                          CASE Len(l) = 0 -> d2
                            [] Len(l) = 1 -> Erase(d2, k)
                            [] Len(l) > 1 -> SetValue(d2, k, <<"list", Tail(l)>>), reply)
  BY DEF LPop
<1> DEFINE call == <<"LPOP", k>>
           d1 == ExpireIfNeeded(data, k, t[1])
           d2 == ExpireIfNeeded(d1, k, t[2])
           l == Payload(d2[k])
           rest == CASE Len(l) = 0 -> d2
                     [] Len(l) = 1 -> Erase(d2, k)
                     [] Len(l) > 1 -> SetValue(d2, k, <<"list", Tail(l)>>)
<1>2. t[2] \in Later
  BY <1>1, ReadingsLater
<1>3. SoundStore(d1)
  BY LookSound DEF IInv
<1>4. SoundStore(d2)
  <2> HIDE DEF d1
  <2> QED
    BY <1>3, LookSound
<1>5. HasType(d2, k, "list") => SoundStore(rest)
  <2> HIDE DEF d2
  <2> SUFFICES ASSUME k \in DOMAIN d2, Type(d2[k]) = "list"
               PROVE  SoundStore(rest)
    BY DEF HasType
  <2>1. Sound(d2[k])
    BY <1>4 DEF SoundStore
  <2>2. l \in Seq(Str) /\ Len(l) \in Nat
    BY <2>1, PayloadType
  <2> HIDE DEF l
  <2>3. CASE Len(l) = 0
    BY <1>4, <2>3
  <2>4. CASE Len(l) = 1
    BY <1>4, <2>4, EraseSound
  <2>5. CASE Len(l) > 1
    <3>1. Tail(l) \in Seq(Str) /\ Tail(l) # <<>>
      <4> HIDE DEF rest
      <4> QED
        BY <2>2, <2>5, TailType
    <3> DEFINE v == <<"list", Tail(l)>>
    <3>2. \A e \in LongLong : Sound([value |-> v, expiresAt |-> e])
      BY <3>1, SoundList
    <3> HIDE DEF v
    <3>3. SoundStore(SetValue(d2, k, v))
      BY <1>4, <3>2, SetValueSound
    <3>4. rest = SetValue(d2, k, v)
      BY <2>2, <2>5 DEF v
    <3> QED
      BY <3>3, <3>4
  <2>6. Len(l) = 0 \/ Len(l) = 1 \/ Len(l) > 1
    <3>1. \A n \in Nat : n = 0 \/ n = 1 \/ n > 1
      OBVIOUS
    <3>2. Len(l) \in Nat
      BY <2>2
    <3> HIDE DEF rest
    <3> QED
      BY <3>1, <3>2
  <2> HIDE DEF rest
  <2> QED
    BY <2>3, <2>4, <2>5, <2>6
<1>6. \/ Done(call, t[2], d1, reply)
      \/ NullDereference(call, t[2], d2)
      \/ Done(call, t[2], d2, reply)
      \/ HasType(d2, k, "list") /\ Done(call, t[2], rest, reply)
  BY <1>1
<1> HIDE DEF call, d1, d2, l, rest
<1> QED
  BY <1>2, <1>3, <1>4, <1>5, <1>6, DoneKeeps, NullDereferenceKeeps

LEMMA PutFieldType ==
  ASSUME NEW h \in Hashes, NEW f \in Fields, NEW v \in Str
  PROVE  /\ Put(h, f, v) \in Hashes
         /\ f \in DOMAIN Put(h, f, v)
         /\ DOMAIN Put(h, f, v) # {}
<1> DEFINE p == Put(h, f, v)
<1>1. PICK F \in SUBSET Fields : h \in [F -> Str]
  BY DEF Hashes
<1>2. p \in [F \cup {f} -> Str]
  BY <1>1 DEF Put
<1>3. F \cup {f} \in SUBSET Fields
  OBVIOUS
<1>4. p \in Hashes
  BY <1>2, <1>3 DEF Hashes
<1>5. f \in DOMAIN p
  BY <1>2
<1> QED
  BY <1>4, <1>5

LEMMA EmptyHash == ASSUME NEW v PROVE [x \in {} |-> v] \in Hashes
BY DEF Hashes

LEMMA HSetKeeps ==
  ASSUME IInv, NEW k \in Keys, NEW f \in Fields, NEW v \in Str, HSet(k, f, v)
  PROVE  IInv'
<1>1. PICK t, reply :
        /\ t \in Later
        /\ LET call == <<"HSET", k, f, v>>
               d == ExpireIfNeeded(data, k, t)
               h == PayloadOr(d, k, [x \in {} |-> v])
           IN  \/ Done(call, t, d, WrongType)
               \/ /\ ~HasOther(d, k, "hash")
                  /\ Done(call, t, PutCollection(d, k, <<"hash", Put(h, f, v)>>), reply)
  BY DEF HSet
<1>a. t \in Later
  BY <1>1
<1> DEFINE d == ExpireIfNeeded(data, k, t)
           h == PayloadOr(d, k, [x \in {} |-> v])
           g == Put(h, f, v)
<1>2. CASE Done(<<"HSET", k, f, v>>, t, d, WrongType)
  BY <1>a, <1>2, LookKeeps
<1>3. CASE /\ ~HasOther(d, k, "hash")
           /\ Done(<<"HSET", k, f, v>>, t, PutCollection(d, k, <<"hash", g>>), reply)
  <2>1. h \in Hashes
    BY <1>3, EmptyHash, PayloadOrType
  <2> HIDE DEF h
  <2>2. g \in Hashes /\ DOMAIN g # {}
    BY <2>1, PutFieldType
  <2> HIDE DEF g
  <2>3. \A e \in LongLong : Sound([value |-> <<"hash", g>>, expiresAt |-> e])
    BY <2>2, SoundHash
  <2> QED
    BY <1>a, <1>3, <2>3, PutCollectionKeeps
<1> QED
  BY <1>1, <1>2, <1>3

LEMMA HIncrByKeeps ==
  ASSUME IInv, NEW k \in Keys, NEW f \in Fields, NEW s \in Str, HIncrBy(k, f, s)
  PROVE  IInv'
<1>1. PICK t, reply :
        /\ t \in Later
        /\ LET call == <<"HINCRBY", k, f, s>>
               d == ExpireIfNeeded(data, k, t)
               h == PayloadOr(d, k, [x \in {} |-> s])
               g == IF f \in DOMAIN h THEN h ELSE Put(h, f, ToChars(0))
               r == DoIncrLike(g[f], FromChars(s))
           IN  \/ Done(call, t, data, reply)
               \/ Done(call, t, d, reply)
               \/ /\ ~HasOther(d, k, "hash")
                  /\ Done(call, t, PutCollection(d, k, <<"hash", g>>), reply)
               \/ /\ FromChars(s) # NotNumber /\ ~HasOther(d, k, "hash") /\ r.error = "none"
                  /\ Done(call, t, PutCollection(d, k, <<"hash", Put(g, f, ToChars(r.number))>>),
                          reply)
  BY DEF HIncrBy
<1>a. t \in Later
  BY <1>1
<1> DEFINE call == <<"HINCRBY", k, f, s>>
           d == ExpireIfNeeded(data, k, t)
           h == PayloadOr(d, k, [x \in {} |-> s])
           g == IF f \in DOMAIN h THEN h ELSE Put(h, f, ToChars(0))
           r == DoIncrLike(g[f], FromChars(s))
           sum == Put(g, f, ToChars(r.number))
<1>2. CASE Done(call, t, data, reply) \/ Done(call, t, d, reply)
  BY <1>a, <1>2, DoneKeeps, LookKeeps DEF IInv
<1>3. ~HasOther(d, k, "hash") => g \in Hashes /\ f \in DOMAIN g
  <2> SUFFICES ASSUME ~HasOther(d, k, "hash")
               PROVE  g \in Hashes /\ f \in DOMAIN g
    OBVIOUS
  <2>1. h \in Hashes
    BY EmptyHash, PayloadOrType
  <2> HIDE DEF h
  <2> QED
    BY <2>1, ZeroText, PutFieldType
<1>4. CASE /\ ~HasOther(d, k, "hash")
           /\ Done(call, t, PutCollection(d, k, <<"hash", g>>), reply)
  <2> HIDE DEF g
  <2>1. \A e \in LongLong : Sound([value |-> <<"hash", g>>, expiresAt |-> e])
    BY <1>3, <1>4, SoundHash
  <2> QED
    BY <1>a, <1>4, <2>1, PutCollectionKeeps
<1>5. CASE /\ FromChars(s) # NotNumber /\ ~HasOther(d, k, "hash") /\ r.error = "none"
           /\ Done(call, t, PutCollection(d, k, <<"hash", sum>>), reply)
  <2> HIDE DEF g
  <2>1. g[f] \in Str
    BY <1>3, <1>5 DEF Hashes
  <2>2. FromChars(s) \in LongLong
    BY <1>5, FromCharsType
  <2>3. ToChars(r.number) \in Str
    BY <1>5, <2>1, <2>2, IncrementInRange
  <2> HIDE DEF r
  <2>4. sum \in Hashes /\ DOMAIN sum # {}
    BY <1>3, <1>5, <2>3, PutFieldType
  <2> HIDE DEF sum
  <2>5. \A e \in LongLong : Sound([value |-> <<"hash", sum>>, expiresAt |-> e])
    BY <2>4, SoundHash
  <2> QED
    BY <1>a, <1>5, <2>5, PutCollectionKeeps
<1> QED
  BY <1>1, <1>2, <1>4, <1>5

LEMMA OnCollectionsKeeps == ASSUME IInv, OnCollections PROVE IInv'
<1>1. IntArgs \subseteq Str /\ Texts \subseteq Str
  BY ArgumentsAssumption
<1>2. CASE \E k \in Keys, vs \in ValueLists : LPush(k, vs)
  BY <1>2, LPushKeeps
<1>3. CASE \E k \in Keys, vs \in FieldLists : SAdd(k, vs)
  BY <1>3, SAddKeeps
<1>4. CASE \E k \in Keys : LPop(k)
  BY <1>4, LPopKeeps
<1>5. CASE \/ \E k \in Keys : SMembers(k)
           \/ \E k \in Keys, f \in Fields : HGet(k, f)
  BY <1>5, CollectionReadersKeep
<1>6. CASE \E k \in Keys, f \in Fields, v \in Texts : HSet(k, f, v)
  BY <1>1, <1>6, HSetKeeps
<1>7. CASE \E k \in Keys, f \in Fields, s \in IntArgs : HIncrBy(k, f, s)
  BY <1>1, <1>7, HIncrByKeeps
<1> QED
  BY <1>2, <1>3, <1>4, <1>5, <1>6, <1>7 DEF OnCollections

-----------------------------------------------------------------------------
(* The commands on sorted sets. *)

LEMMA EmptyZSet == [m \in {} |-> 0] \in FiniteZSets
<1>1. [m \in {} |-> 0] \in SortedSets
  BY DEF SortedSets
<1>2. IsFiniteSet(DOMAIN [m \in {} |-> 0])
  BY FS_EmptySet
<1> QED
  BY <1>1, <1>2 DEF FiniteZSets

LEMMA ZSetOrType ==
  ASSUME NEW d, SoundStore(d), NEW k, ~HasNoZSet(d, k)
  PROVE  ZSetOr(d, k, [m \in {} |-> 0]) \in FiniteZSets
<1>1. CASE k \in DOMAIN d
  <2>1. Sound(d[k])
    BY <1>1 DEF SoundStore
  <2>2. Type(d[k]) = "zset"
    BY <1>1 DEF HasNoZSet
  <2> QED
    BY <1>1, <2>1, <2>2, PayloadType DEF ZSetOr
<1>2. CASE k \notin DOMAIN d
  BY <1>2, EmptyZSet DEF ZSetOr
<1> QED
  BY <1>1, <1>2

LEMMA PutZSetSound ==
  ASSUME NEW d, SoundStore(d), NEW k \in Keys, NEW z \in FiniteZSets, DOMAIN z # {}
  PROVE  SoundStore(PutZSet(d, k, z))
<1> DEFINE e == IF k \in DOMAIN d THEN d[k].expiresAt ELSE NoExpiry
<1>1. e \in LongLong
  BY NoExpiryInRange, ObjectParts DEF SoundStore
<1>2. PutZSet(d, k, z) = Put(d, k, [value |-> <<"zset", z>>, expiresAt |-> e])
  BY DEF PutZSet
<1> HIDE DEF e
<1> QED
  BY <1>1, <1>2, SoundZSet, PutSound

(* The store after ZADD or ZINCRBY put the sorted set z. *)
LEMMA PutZSetKeeps ==
  ASSUME IInv, NEW call, NEW k \in Keys, NEW t \in Later, NEW reply,
         NEW z \in FiniteZSets, DOMAIN z # {},
         Done(call, t, PutZSet(ExpireIfNeeded(data, k, t), k, z), reply)
  PROVE  IInv'
<1>1. SoundStore(ExpireIfNeeded(data, k, t))
  BY LookSound DEF IInv
<1>2. SoundStore(PutZSet(ExpireIfNeeded(data, k, t), k, z))
  BY <1>1, PutZSetSound
<1> QED
  BY <1>2, DoneKeeps

(* Each member that ZADD names gets the last of its scores. *)
LEMMA ZAddedType ==
  ASSUME NEW z \in FiniteZSets, NEW pairs \in Seq(Str \X Fields) \ {<<>>},
         \A i \in DOMAIN pairs : FromCharsDouble(pairs[i][1]) # NotNumber
  PROVE  ZAdded(z, pairs) \in FiniteZSets /\ DOMAIN ZAdded(z, pairs) # {}
<1> DEFINE named == {pairs[i][2] : i \in DOMAIN pairs}
           final(m) == CHOOSE i \in DOMAIN pairs :
                         /\ pairs[i][2] = m
                         /\ \A j \in DOMAIN pairs : pairs[j][2] = m => j <= i
           new == ZAdded(z, pairs)
<1>1. PICK F \in SUBSET Fields : z \in [F -> Score]
  BY DEF FiniteZSets, SortedSets
<1>2. \A i \in DOMAIN pairs : pairs[i][1] \in Str /\ pairs[i][2] \in Fields
  OBVIOUS
<1>3. \A i \in DOMAIN pairs : FromCharsDouble(pairs[i][1]) \in Score
  BY <1>2, FromCharsDoubleAssumption
<1>4. \A m \in named : final(m) \in DOMAIN pairs
  <2> SUFFICES ASSUME NEW m \in named
               PROVE  final(m) \in DOMAIN pairs
    OBVIOUS
  <2> DEFINE I == {i \in DOMAIN pairs : pairs[i][2] = m}
  <2>1. I # {} /\ I \subseteq 1..Len(pairs)
    OBVIOUS
  <2>2. \E i \in I : \A j \in I : j <= i
    <3> HIDE DEF I
    <3>1. Len(pairs) \in Nat
      OBVIOUS
    <3> QED
      BY <2>1, <3>1, LastOfBounded
  <2> QED
    BY <2>2
<1>5. /\ DOMAIN new = DOMAIN z \cup named
      /\ \A m \in named : new[m] = FromCharsDouble(pairs[final(m)][1])
      /\ \A m \in DOMAIN z \ named : new[m] = z[m]
      /\ new = [m \in DOMAIN new |-> new[m]]
  BY DEF ZAdded
<1>6. named \subseteq Fields /\ pairs[1][2] \in named
  BY <1>2
<1>7. \A m \in DOMAIN new : new[m] \in Score
  <2> HIDE DEF named, final, new
  <2> QED
    BY <1>1, <1>3, <1>4, <1>5
<1>8. DOMAIN new \in SUBSET Fields /\ DOMAIN new # {}
  <2> HIDE DEF named, final, new
  <2> QED
    BY <1>1, <1>5, <1>6
<1>9. new \in [DOMAIN new -> Score]
  <2> HIDE DEF named, final, new
  <2> QED
    BY <1>5, <1>7
<1>10. IsFiniteSet(DOMAIN new)
  <2> DEFINE members == [i \in DOMAIN pairs |-> pairs[i][2]]
  <2>1. members \in Seq(Fields) /\ DOMAIN members = DOMAIN pairs
    BY <1>2
  <2>2. named = {members[i] : i \in DOMAIN members}
    <3>1. \A i \in DOMAIN pairs : members[i] = pairs[i][2]
      OBVIOUS
    <3> HIDE DEF members
    <3> QED
      BY <2>1, <3>1
  <2>3. IsFiniteSet(named)
    <3> HIDE DEF named, members
    <3> QED
      BY <2>1, <2>2, NamedFinite
  <2>4. IsFiniteSet(DOMAIN z)
    BY DEF FiniteZSets
  <2> HIDE DEF named, final, new, members
  <2>5. IsFiniteSet(DOMAIN z \cup named)
    BY <2>3, <2>4, FS_Union
  <2>6. DOMAIN new = DOMAIN z \cup named
    BY <1>5
  <2> QED
    BY <2>5, <2>6
<1> QED
  BY <1>8, <1>9, <1>10 DEF FiniteZSets, SortedSets

LEMMA ZAddKeeps ==
  ASSUME IInv, NEW k \in Keys, NEW pairs \in ScoredLists, ZAdd(k, pairs)
  PROVE  IInv'
<1>1. PICK t, reply :
        /\ t \in Later
        /\ LET call == <<"ZADD", k, pairs>>
               d == ExpireIfNeeded(data, k, t)
               z == ZSetOr(d, k, [m \in {} |-> 0])
           IN  \/ Done(call, t, data, NotFloat)
               \/ Done(call, t, d, WrongType)
               \/ /\ \A i \in DOMAIN pairs : FromCharsDouble(pairs[i][1]) # NotNumber
                  /\ ~HasNoZSet(d, k)
                  /\ Done(call, t, PutZSet(d, k, ZAdded(z, pairs)), reply)
  BY DEF ZAdd
<1>a. t \in Later
  BY <1>1
<1> DEFINE call == <<"ZADD", k, pairs>>
           d == ExpireIfNeeded(data, k, t)
           z == ZSetOr(d, k, [m \in {} |-> 0])
           new == ZAdded(z, pairs)
<1>2. CASE Done(call, t, data, NotFloat) \/ Done(call, t, d, WrongType)
  BY <1>a, <1>2, DoneKeeps, LookKeeps DEF IInv
<1>3. CASE /\ \A i \in DOMAIN pairs : FromCharsDouble(pairs[i][1]) # NotNumber
           /\ ~HasNoZSet(d, k)
           /\ Done(call, t, PutZSet(d, k, new), reply)
  <2>1. SoundStore(d)
    BY LookSound DEF IInv
  <2>2. z \in FiniteZSets
    <3> HIDE DEF d
    <3> QED
      BY <1>3, <2>1, ZSetOrType
  <2>3. pairs \in Seq(Str \X Fields) \ {<<>>}
    BY ArgumentsAssumption
  <2>4. new \in FiniteZSets /\ DOMAIN new # {}
    <3> HIDE DEF z
    <3> QED
      BY <1>3, <2>2, <2>3, ZAddedType
  <2> HIDE DEF new
  <2> QED
    BY <1>a, <1>3, <2>4, PutZSetKeeps
<1> QED
  BY <1>1, <1>2, <1>3

LEMMA PutScoreType ==
  ASSUME NEW z \in FiniteZSets, NEW m \in Fields, NEW x \in Score
  PROVE  Put(z, m, x) \in FiniteZSets /\ DOMAIN Put(z, m, x) # {}
<1> DEFINE p == Put(z, m, x)
<1>1. PICK F \in SUBSET Fields : z \in [F -> Score]
  BY DEF FiniteZSets, SortedSets
<1>2. p \in [F \cup {m} -> Score]
  BY <1>1 DEF Put
<1>3. F \cup {m} \in SUBSET Fields
  OBVIOUS
<1>4. p \in FiniteZSets
  <2>1. IsFiniteSet(DOMAIN z) /\ DOMAIN z = F
    BY <1>1 DEF FiniteZSets
  <2>2. IsFiniteSet(DOMAIN p)
    BY <1>2, <2>1, FS_AddElement
  <2> QED
    BY <1>2, <1>3, <2>2 DEF FiniteZSets, SortedSets
<1>5. m \in DOMAIN p
  BY <1>2
<1> QED
  BY <1>4, <1>5

LEMMA ZIncrByKeeps ==
  ASSUME IInv, NEW k \in Keys, NEW s, NEW m \in Fields, ZIncrBy(k, s, m)
  PROVE  IInv'
<1>1. PICK t, sum, reply :
        /\ t \in Later
        /\ LET call == <<"ZINCRBY", k, s, m>>
               d == ExpireIfNeeded(data, k, t)
               z == ZSetOr(d, k, [n \in {} |-> 0])
           IN  \/ Done(call, t, data, NotFloat)
               \/ Done(call, t, d, WrongType)
               \/ /\ ~HasNoZSet(d, k) /\ sum \in Score
                  /\ Done(call, t, PutZSet(d, k, Put(z, m, sum)), reply)
  BY DEF ZIncrBy
<1>a. t \in Later
  BY <1>1
<1> DEFINE call == <<"ZINCRBY", k, s, m>>
           d == ExpireIfNeeded(data, k, t)
           z == ZSetOr(d, k, [n \in {} |-> 0])
           new == Put(z, m, sum)
<1>2. CASE Done(call, t, data, NotFloat) \/ Done(call, t, d, WrongType)
  BY <1>a, <1>2, DoneKeeps, LookKeeps DEF IInv
<1>3. CASE /\ ~HasNoZSet(d, k) /\ sum \in Score
           /\ Done(call, t, PutZSet(d, k, new), reply)
  <2>1. SoundStore(d)
    BY LookSound DEF IInv
  <2>2. z \in FiniteZSets
    <3> HIDE DEF d
    <3> QED
      BY <1>3, <2>1, ZSetOrType
  <2>3. new \in FiniteZSets /\ DOMAIN new # {}
    <3> HIDE DEF z
    <3> QED
      BY <1>3, <2>2, PutScoreType
  <2> HIDE DEF new
  <2> QED
    BY <1>a, <1>3, <2>3, PutZSetKeeps
<1> QED
  BY <1>1, <1>2, <1>3

(* The readers look at most once; what they reply does not matter here.      *)
LEMMA ZReadersKeep ==
  ASSUME IInv, NEW k, NEW s, NEW u, NEW option,
         \/ ZAddUnpaired(k) \/ ZCard(k) \/ ZCount(k, s, u) \/ ZLexCount(k, s, u)
         \/ ZRange(k, s, u, option) \/ ZRangeByScore(k, s, u, option)
  PROVE  IInv'
<1>1. PICK call, t, reply :
        t \in Later /\ (Done(call, t, data, reply) \/ Done(call, t, ExpireIfNeeded(data, k, t), reply))
  <2>1. CASE ZAddUnpaired(k)
    BY <2>1 DEF ZAddUnpaired
  <2>2. CASE ZCard(k)
    BY <2>2 DEF ZCard, ZRead
  <2>3. CASE ZCount(k, s, u)
    BY <2>3 DEF ZCount, ZRead, ZRefuse
  <2>4. CASE ZLexCount(k, s, u)
    BY <2>4 DEF ZLexCount, ZRead
  <2>5. CASE ZRange(k, s, u, option)
    BY <2>5 DEF ZRange, ZRead, ZRefuse
  <2>6. CASE ZRangeByScore(k, s, u, option)
    BY <2>6 DEF ZRangeByScore, ZRead, ZRefuse
  <2> QED
    BY <2>1, <2>2, <2>3, <2>4, <2>5, <2>6
<1> QED
  BY <1>1, DoneKeeps, LookKeeps DEF IInv

LEMMA StoreSound ==
  ASSUME NEW d, SoundStore(d), NEW k \in Keys, NEW z \in FiniteZSets
  PROVE  SoundStore(Store(d, k, z))
<1>1. CASE DOMAIN z = {}
  BY <1>1, EraseSound DEF Store
<1>2. CASE DOMAIN z # {}
  BY <1>2, SoundZSet, NoExpiryInRange, PutSound DEF Store
<1> QED
  BY <1>1, <1>2

(* What all sources share, the last of them holds. *)
LEMMA IntersectionFinite ==
  ASSUME NEW d, SoundStore(d), NEW ks, NEW i \in DOMAIN ks,
         ks[i] \in DOMAIN d, ~HasNoZSet(d, ks[i])
  PROVE  IsFiniteSet(DOMAIN Intersection(d, ks))
<1>1. Sound(d[ks[i]]) /\ Type(d[ks[i]]) = "zset"
  BY DEF SoundStore, HasNoZSet
<1>2. IsFiniteSet(DOMAIN Payload(d[ks[i]]))
  BY <1>1, PayloadType DEF FiniteZSets
<1>3. DOMAIN Intersection(d, ks) \subseteq DOMAIN Payload(d[ks[i]])
  BY DEF Intersection
<1> QED
  BY <1>2, <1>3, FS_Subset

LEMMA ZInterStoreKeeps ==
  ASSUME IInv, NEW dest \in Keys, NEW s, NEW ks \in SourceLists, ZInterStore(dest, s, ks)
  PROVE  IInv'
<1>1. Len(ks) \in Nat \ {0} /\ DOMAIN ks = 1..Len(ks)
  BY ArgumentsAssumption
<1>2. PICK call, t, reply, z :
        LET d == ExpireEach(data, SubSeq(ks, 1, Len(ks)), t)
        IN  /\ t \in Readings(Len(ks))
            /\ \/ Done(call, t[1], data, reply)
               \/ \E i \in DOMAIN ks : Done(call, t[i], ExpireEach(data, SubSeq(ks, 1, i), t), reply)
               \/ Done(call, t[Len(ks)], Erase(d, dest), reply)
               \/ /\ z \in SortedSets /\ z = Intersection(d, ks)
                  /\ ks[Len(ks)] \in DOMAIN d /\ ~HasNoZSet(d, ks[Len(ks)])
                  /\ Done(call, t[Len(ks)], Store(d, dest, z), reply)
  <2>1. PICK t \in Readings(Len(ks)) :
          LET call == <<"ZINTERSTORE", dest, s, ks>>
              after(i) == ExpireEach(data, SubSeq(ks, 1, i), t)
              other == {i \in DOMAIN ks : HasNoZSet(after(i), ks[i])}
              missing == \E i \in DOMAIN ks : ks[i] \notin DOMAIN after(i)
              z == Intersection(after(Len(ks)), ks)
          IN  \/ Done(call, t[1], data, NotInteger)
              \/ Done(call, t[1], data, SyntaxError)
              \/ \E i \in other : Done(call, t[i], after(i), WrongType)
              \/ Done(call, t[Len(ks)], Erase(after(Len(ks)), dest), IntReply(0))
              \/ /\ other = {} /\ ~missing /\ z \in SortedSets
                 /\ Done(call, t[Len(ks)], Store(after(Len(ks)), dest, z), IntReply(Cardinality(DOMAIN z)))
    BY DEF ZInterStore
  <2>2. Len(ks) \in DOMAIN ks
    BY <1>1
  <2> QED
    BY <2>1, <2>2
<1>3. \A i \in 1..Len(ks) : t[i] \in Later
  BY <1>1, <1>2, ReadingsLater
<1>4. \A i \in DOMAIN ks : SoundStore(ExpireEach(data, SubSeq(ks, 1, i), t))
  BY ExpireEachSound DEF IInv
<1> DEFINE d == ExpireEach(data, SubSeq(ks, 1, Len(ks)), t)
<1>5. SoundStore(d)
  BY ExpireEachSound DEF IInv
<1>6. CASE Done(call, t[1], data, reply)
  BY <1>1, <1>3, <1>6, DoneKeeps DEF IInv
<1>7. CASE \E i \in DOMAIN ks : Done(call, t[i], ExpireEach(data, SubSeq(ks, 1, i), t), reply)
  BY <1>1, <1>3, <1>4, <1>7, DoneKeeps
<1>8. CASE Done(call, t[Len(ks)], Erase(d, dest), reply)
  <2> HIDE DEF d
  <2> QED
    BY <1>1, <1>3, <1>5, <1>8, EraseSound, DoneKeeps
<1>9. CASE /\ z \in SortedSets /\ z = Intersection(d, ks)
           /\ ks[Len(ks)] \in DOMAIN d /\ ~HasNoZSet(d, ks[Len(ks)])
           /\ Done(call, t[Len(ks)], Store(d, dest, z), reply)
  <2> HIDE DEF d
  <2>1. z \in FiniteZSets
    BY <1>1, <1>5, <1>9, IntersectionFinite DEF FiniteZSets
  <2> QED
    BY <1>1, <1>3, <1>5, <1>9, <2>1, StoreSound, DoneKeeps
<1> QED
  BY <1>2, <1>6, <1>7, <1>8, <1>9

LEMMA OnSortedSetsKeeps == ASSUME IInv, OnSortedSets PROVE IInv'
<1>1. CASE \E k \in Keys, pairs \in ScoredLists : ZAdd(k, pairs)
  BY <1>1, ZAddKeeps
<1>2. CASE \E k \in Keys, s \in ScoreTexts, m \in Fields : ZIncrBy(k, s, m)
  BY <1>2, ZIncrByKeeps
<1>3. CASE \/ \E k \in Keys : ZAddUnpaired(k) \/ ZCard(k)
           \/ \E k \in Keys, s, u \in ScoreTexts : ZCount(k, s, u)
           \/ \E k \in Keys, s, u \in LexTexts : ZLexCount(k, s, u)
           \/ \E k \in Keys, s, u \in IndexTexts, option \in RangeOptions : ZRange(k, s, u, option)
           \/ \E k \in Keys, s, u \in ScoreTexts, option \in RangeOptions :
                ZRangeByScore(k, s, u, option)
  BY <1>3, ZReadersKeep
<1>4. CASE \E k \in Keys, s \in IndexTexts, ks \in SourceLists : ZInterStore(k, s, ks)
  BY <1>4, ZInterStoreKeeps
<1> QED
  BY <1>1, <1>2, <1>3, <1>4 DEF OnSortedSets

-----------------------------------------------------------------------------
(* The specification. *)

LEMMA OnServerKeeps == ASSUME IInv, OnServer PROVE IInv'
<1>1. SoundStore(data)
  BY DEF IInv
<1> QED
  BY <1>1, EmptyStore, DoneKeeps
     DEF OnServer, Ping, Echo, Time, FlushDb, UnknownCommand, WrongArity

LEMMA InitIInv == Init => IInv
BY EmptyStore, MaxTimeAssumption DEF Init, IInv

LEMMA NextKeepsIInv == IInv /\ [Next]_vars => IInv'
<1> SUFFICES ASSUME IInv, [Next]_vars
             PROVE  IInv'
  OBVIOUS
<1>1. CASE OnKeys
  BY <1>1, OnKeysKeeps
<1>2. CASE OnStrings
  BY <1>2, OnStringsKeeps
<1>3. CASE OnCollections
  BY <1>3, OnCollectionsKeeps
<1>4. CASE OnServer
  BY <1>4, OnServerKeeps
<1>5. CASE OnSortedSets
  BY <1>5, OnSortedSetsKeeps
<1>6. CASE UNCHANGED vars
  BY <1>6 DEF vars, IInv, SoundStore
<1> QED
  BY <1>1, <1>2, <1>3, <1>4, <1>5, <1>6 DEF Next

LEMMA IInvImpliesInvariants == IInv => TypeOK /\ NoEmptyCollection
BY DEF IInv, TypeOK, NoEmptyCollection, SoundStore, Sound, IsStore

(* Every command leaves every key with an object of its type and no key with *)
(* a list, set, hash or sorted set that has no elements, whatever the        *)
(* arguments, the width of the integers and the moments at which keys expire.*)
THEOREM KeyspaceCorrect == Spec => [](TypeOK /\ NoEmptyCollection)
<1>1. Spec => []IInv
  BY InitIInv, NextKeepsIInv, PTL DEF Spec
<1> QED
  BY <1>1, IInvImpliesInvariants, PTL

(* Lazy deletion is invisible: whether or not a look at any key has removed  *)
(* it because its deadline had passed, a client who looks later sees the     *)
(* same keys with the same objects.                                          *)
THEOREM LookIsInvisible ==
  ASSUME NEW d, SoundStore(d), NEW k, NEW t \in Int, NEW u \in Int, t <= u
  PROVE  Live(ExpireIfNeeded(d, k, t), u) = Live(d, u)
<1>1. CASE ~(k \in DOMAIN d /\ IsExpired(d[k], t))
  BY <1>1 DEF ExpireIfNeeded
<1>2. CASE k \in DOMAIN d /\ IsExpired(d[k], t)
  <2>1. d[k].expiresAt \in Int
    BY <1>2, ObjectParts, LongLongAssumption DEF SoundStore, LongLong
  <2>2. IsExpired(d[k], u)
    BY <1>2, <2>1 DEF IsExpired
  <2> DEFINE e == Erase(d, k)
             S == {x \in DOMAIN d : ~IsExpired(d[x], u)}
  <2>3. DOMAIN e = DOMAIN d \ {k} /\ \A x \in DOMAIN e : e[x] = d[x]
    BY DEF Erase, Restrict
  <2>4. {x \in DOMAIN e : ~IsExpired(e[x], u)} = S
    BY <2>2, <2>3
  <2>5. \A x \in S : x \in DOMAIN e /\ e[x] = d[x]
    BY <2>2, <2>3
  <2>6. Restrict(e, S) = Restrict(d, S)
    BY <2>5 DEF Restrict
  <2> QED
    BY <1>2, <2>4, <2>6 DEF ExpireIfNeeded, Live
<1> QED
  BY <1>1, <1>2
=============================================================================
