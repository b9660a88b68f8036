--------------------------- MODULE TtlViewProofs ---------------------------
(* The key, server and string commands implement the store with deadlines of *)
(* TtlStore.tla, for all keys, strings, widths of integers and arguments.    *)
(*                                                                           *)
(* The mapping shows a client the keys that have not expired,                *)
(* Live(data, clock).  Two stores agree at a time when the same keys are     *)
(* seen in both, with the same objects; what expireIfNeeded erases is seen   *)
(* by nobody, so a store and what looks have left of it agree at the time of *)
(* the last look, and a command that writes to what is left writes to the    *)
(* view.  Each handler then needs three facts: its looks are instants the    *)
(* promise may choose, what it finds is what the view shows at those         *)
(* instants, and what it writes is the promise's new view.                   *)
EXTENDS CommandProofs, SequenceTheorems

-----------------------------------------------------------------------------
(* The words of the promise are those of the commands. *)

(* The promise and the commands mean the same by the type and payload of an  *)
(* object, by the absence of a deadline (`-1`) and by the wrapping of a      *)
(* `long long`.                                                              *)
LEMMA SameTypes ==
  /\ \A o : Promise!Type(o) = Type(o) /\ Promise!Payload(o) = Payload(o)
  /\ Promise!NoExpiry = NoExpiry
  /\ \A n : Promise!Wrap(n) = Wrap(n)
BY DEF Promise!Type, Type, Promise!Payload, Payload, Promise!NoExpiry, NoExpiry, Promise!Wrap, Wrap

(* Both build replies in the same way: those of RespEncoder. *)
LEMMA SameReplies ==
  /\ Promise!OkReply = OkReply /\ Promise!NullReply = NullReply
  /\ \A x : /\ Promise!IntReply(x) = IntReply(x) /\ Promise!BulkReply(x) = BulkReply(x)
            /\ Promise!SimpleReply(x) = SimpleReply(x) /\ Promise!ArrayReply(x) = ArrayReply(x)
            /\ Promise!DoubleReply(x) = DoubleReply(x) /\ Promise!ListReply(x) = ListReply(x)
            /\ Promise!MembersReply(x) = MembersReply(x) /\ Promise!ErrReply(x) = ErrReply(x)
BY DEF OkReply, NullReply, IntReply, BulkReply, SimpleReply, ArrayReply, DoubleReply, ListReply,
       MembersReply, ErrReply, Promise!OkReply, Promise!NullReply, Promise!IntReply,
       Promise!BulkReply, Promise!SimpleReply, Promise!ArrayReply, Promise!DoubleReply,
       Promise!ListReply, Promise!MembersReply, Promise!ErrReply

(* Both have the same error replies. *)
LEMMA SameErrors ==
  /\ Promise!WrongType = WrongType /\ Promise!SyntaxError = SyntaxError
  /\ Promise!NotFloat = NotFloat /\ Promise!NotLexBound = NotLexBound
  /\ Promise!NotInteger = NotInteger /\ Promise!NoSuchKey = NoSuchKey
BY SameReplies
   DEF WrongType, SyntaxError, NotFloat, NotLexBound, NotInteger, NoSuchKey, Promise!WrongType,
       Promise!SyntaxError, Promise!NotFloat, Promise!NotLexBound, Promise!NotInteger,
       Promise!NoSuchKey

-----------------------------------------------------------------------------
(* What is visible of a store. *)

(* What the owner of a client sees of a store at time t: the keys that are   *)
(* there and have not expired.                                               *)
Seen(d, k, t) == k \in DOMAIN d /\ ~IsExpired(d[k], t)

(* Two stores that show the same keys and objects at time t. *)
Agree(d, e, t) ==
  \A k : /\ Seen(d, k, t) <=> Seen(e, k, t)
         /\ Seen(d, k, t) => d[k] = e[k]

(* e is what looks up to time t leave of d. *)
Purged(d, e, t) ==
  /\ DOMAIN e \subseteq DOMAIN d
  /\ \A k \in DOMAIN e : e[k] = d[k]
  /\ \A k \in DOMAIN d \ DOMAIN e : IsExpired(d[k], t)

(* Every deadline is a number: what it takes to compare it with the clock. *)
Timed(d) == \A k \in DOMAIN d : d[k].expiresAt \in Int

(* The deadlines of a sound store are `long long`s, so numbers. *)
LEMMA SoundIsTimed == ASSUME NEW d, SoundStore(d) PROVE Timed(d)
BY ObjectParts, LongLongAssumption DEF SoundStore, Timed, LongLong

(* Stores that agree at a time have the same view then. *)
LEMMA AgreeLive ==
  ASSUME NEW d, NEW e, NEW t, Agree(d, e, t)
  PROVE  Live(d, t) = Live(e, t)
<1> DEFINE S == {k \in DOMAIN d : ~IsExpired(d[k], t)}
<1>1. S = {k \in DOMAIN e : ~IsExpired(e[k], t)}
  BY DEF Agree, Seen
<1>2. \A k \in S : d[k] = e[k]
  BY DEF Agree, Seen
<1> QED
  BY <1>1, <1>2 DEF Live, Restrict

(* A store and what looks have left of it agree: expireIfNeeded erases       *)
(* nothing that anybody could still see.                                     *)
LEMMA PurgedAgrees ==
  ASSUME NEW d, NEW e, NEW t, Purged(d, e, t)
  PROVE  Agree(e, d, t)
BY DEF Purged, Agree, Seen

(* The clock only takes keys away from what is visible. *)
LEMMA LiveDomain ==
  ASSUME NEW d, NEW c
  PROVE  /\ \A k : k \in DOMAIN Live(d, c) <=> Seen(d, k, c)
         /\ \A k \in DOMAIN Live(d, c) : Live(d, c)[k] = d[k]
BY DEF Live, Restrict, Seen

(* What is seen later was seen earlier: deadlines are not compared with      *)
(* anything that moves backwards.                                            *)
LEMMA SeenEarlier ==
  ASSUME NEW d, Timed(d), NEW c \in Int, NEW t \in Int, c <= t, NEW k, Seen(d, k, t)
  PROVE  Seen(d, k, c)
BY DEF Timed, Seen, IsExpired

(* Taking the view of the view of an earlier time changes nothing that is    *)
(* seen.                                                                     *)
LEMMA LiveAgrees ==
  ASSUME NEW d, Timed(d), NEW c \in Int, NEW t \in Int, c <= t
  PROVE  Agree(d, Live(d, c), t) /\ Timed(Live(d, c))
<1>1. \A k \in DOMAIN Live(d, c) : k \in DOMAIN d /\ Live(d, c)[k] = d[k]
  BY LiveDomain DEF Seen
<1>2. \A k : Seen(d, k, t) => k \in DOMAIN Live(d, c)
  BY SeenEarlier, LiveDomain
<1> QED
  BY <1>1, <1>2 DEF Agree, Seen, Timed

(* The view after a command, in the words of the promise. *)
LEMMA LiveIsAlive ==
  ASSUME NEW d, Timed(d), NEW t \in Int
  PROVE  Live(d, t) = Promise!Restrict(d, {k \in DOMAIN d : Promise!AliveAt(d[k], t)})
<1>1. \A k \in DOMAIN d : Promise!AliveAt(d[k], t) <=> ~IsExpired(d[k], t)
  BY SameTypes DEF Timed, IsExpired, Promise!AliveAt
<1>2. {k \in DOMAIN d : Promise!AliveAt(d[k], t)} = {k \in DOMAIN d : ~IsExpired(d[k], t)}
  BY <1>1
<1> QED
  BY <1>2 DEF Live, Restrict, Promise!Restrict

(* Writing the same object into two stores that agree leaves them agreeing. *)
LEMMA PutAgrees ==
  ASSUME NEW d, NEW e, NEW t, Agree(d, e, t), NEW k, NEW o
  PROVE  Agree(Put(d, k, o), Put(e, k, o), t)
BY DEF Agree, Seen, Put

(* So does taking the same keys out of both. *)
LEMMA RemoveAgrees ==
  ASSUME NEW d, NEW e, NEW t, Agree(d, e, t), NEW S
  PROVE  Agree(Restrict(d, DOMAIN d \ S), Restrict(e, DOMAIN e \ S), t)
BY DEF Agree, Seen, Restrict

(* Agreement is transitive. *)
LEMMA AgreeTransitive ==
  ASSUME NEW d, NEW e, NEW f, NEW t, Agree(d, e, t), Agree(e, f, t)
  PROVE  Agree(d, f, t)
BY DEF Agree

-----------------------------------------------------------------------------
(* What a command does to the view. *)

(* The clock is a number that does not go back and an instant of a command   *)
(* is not before its start.                                                  *)
LEMMA Times ==
  ASSUME IInv, NEW t \in Later
  PROVE  clock \in Int /\ t \in Int /\ clock <= t /\ t \in Nat
BY MaxTimeAssumption DEF IInv, Later

(* A reading a command may make of the clock is an instant the promise may   *)
(* choose.                                                                   *)
LEMMA InstantOf ==
  ASSUME IInv, NEW t \in Later, NEW s \in Later, s <= t, clock' = t
  PROVE  s \in Promise!Instants
BY MaxTimeAssumption DEF IInv, Later, Promise!Instants

(* The command leaves store d: the view becomes that of any store it agrees with. *)
LEMMA BecomesAgreeing ==
  ASSUME NEW d, NEW t \in Int, data' = d, clock' = t, NEW f, Timed(f), Agree(d, f, t)
  PROVE  Promise!Becomes(f)
<1>1. Live(data, clock)' = Live(data', clock')
  OBVIOUS
<1>2. Live(data', clock') = Live(f, t)
  BY AgreeLive
<1> QED
  BY <1>1, <1>2, LiveIsAlive DEF Promise!Becomes

(* What looks have left of the store agrees with the view of before the      *)
(* command.                                                                  *)
LEMMA ViewAgrees ==
  ASSUME IInv, NEW t \in Later, NEW d, Purged(data, d, t)
  PROVE  Agree(d, Live(data, clock), t) /\ Timed(Live(data, clock))
<1>1. clock \in Int /\ t \in Int /\ clock <= t
  BY Times
<1>2. Timed(data)
  BY SoundIsTimed DEF IInv
<1>3. Agree(data, Live(data, clock), t) /\ Timed(Live(data, clock))
  BY <1>1, <1>2, LiveAgrees
<1> QED
  BY <1>3, PurgedAgrees, AgreeTransitive

(* A command that leaves what looks left of the store, and nothing else,     *)
(* changes no view: the promise's Same.                                      *)
LEMMA StaysSame ==
  ASSUME IInv, NEW t \in Later, NEW d, Purged(data, d, t), data' = d, clock' = t
  PROVE  Promise!Same
BY ViewAgrees, BecomesAgreeing, Times DEF Promise!Same

(* A command that writes one object changes the view at that key and nowhere *)
(* else: the promise's With.                                                 *)
LEMMA BecomesWith ==
  ASSUME IInv, NEW t \in Later, NEW d, Purged(data, d, t),
         NEW k, NEW v, NEW e \in Int,
         data' = Put(d, k, [value |-> v, expiresAt |-> e]), clock' = t
  PROVE  Promise!Becomes(Promise!With(k, v, e))
<1> DEFINE o == [value |-> v, expiresAt |-> e]
           new == Put(Live(data, clock), k, o)
<1>1. Agree(Put(d, k, o), new, t)
  BY ViewAgrees, PutAgrees
<1>2. Timed(new)
  <2>1. Timed(Live(data, clock)) /\ o.expiresAt \in Int
    BY ViewAgrees
  <2> HIDE DEF o
  <2> QED
    BY <2>1 DEF Timed, Put
<1>3. Promise!With(k, v, e) = new
  BY DEF Promise!With, Put
<1> HIDE DEF new
<1> QED
  BY <1>1, <1>2, <1>3, BecomesAgreeing, Times

(* A command that takes keys out takes them out of the view: the promise's   *)
(* Without.                                                                  *)
LEMMA BecomesWithout ==
  ASSUME IInv, NEW t \in Later, NEW d, Purged(data, d, t), NEW S,
         data' = Restrict(d, DOMAIN d \ S), clock' = t
  PROVE  Promise!Becomes(Promise!Without(S))
<1> DEFINE view == Live(data, clock)
           new == Restrict(view, DOMAIN view \ S)
<1>1. Agree(Restrict(d, DOMAIN d \ S), new, t)
  BY ViewAgrees, RemoveAgrees
<1>2. Timed(new)
  BY ViewAgrees DEF Timed, Restrict
<1>3. Promise!Without(S) = new
  BY DEF Promise!Without, Restrict, Promise!Restrict
<1> HIDE DEF new
<1> QED
  BY <1>1, <1>2, <1>3, BecomesAgreeing, Times

(* What a look sees is what the promise calls alive. *)
LEMMA SeesWhatIsAlive ==
  ASSUME IInv, NEW t \in Later, NEW k
  PROVE  /\ Promise!Alive(k, t) <=> Seen(data, k, t)
         /\ Promise!Alive(k, t) => Live(data, clock)[k] = data[k]
<1>1. Timed(data) /\ clock \in Int /\ t \in Int /\ clock <= t
  BY SoundIsTimed, Times DEF IInv
<1>2. k \in DOMAIN Live(data, clock) => Live(data, clock)[k] = data[k] /\ k \in DOMAIN data
  BY LiveDomain DEF Seen
<1>3. Seen(data, k, t) => k \in DOMAIN Live(data, clock)
  BY <1>1, SeenEarlier, LiveDomain
<1> QED
  BY <1>1, <1>2, <1>3, SameTypes DEF Promise!Alive, Promise!AliveAt, Seen, IsExpired, Timed

(* Database::expireIfNeeded purges, and leaves its key exactly when the key  *)
(* is seen.                                                                  *)
LEMMA LookPurges ==
  ASSUME NEW d, NEW k, NEW t
  PROVE  /\ Purged(d, ExpireIfNeeded(d, k, t), t)
         /\ k \in DOMAIN ExpireIfNeeded(d, k, t) <=> Seen(d, k, t)
BY DEF Purged, ExpireIfNeeded, Erase, Restrict, Seen

(* No look at all is a purge too: commands refused before they look. *)
LEMMA NothingPurged == ASSUME NEW d, NEW t PROVE Purged(d, d, t)
BY DEF Purged

(* Purging goes on. *)
LEMMA PurgedLater ==
  ASSUME NEW d, Timed(d), NEW e, NEW c \in Int, NEW t \in Int, c <= t, Purged(d, e, c)
  PROVE  Purged(d, e, t)
BY DEF Purged, Timed, IsExpired

(* Two purges in a row are one. *)
LEMMA PurgedTwice ==
  ASSUME NEW d, NEW e, NEW f, NEW t, Purged(d, e, t), Purged(e, f, t)
  PROVE  Purged(d, f, t)
BY DEF Purged

(* A command that looks at one key. *)
LEMMA LookOnce ==
  ASSUME IInv, NEW k, NEW t \in Later
  PROVE  LET d == ExpireIfNeeded(data, k, t)
         IN  /\ Purged(data, d, t)
             /\ k \in DOMAIN d <=> Promise!Alive(k, t)
             /\ k \in DOMAIN d => d[k] = Live(data, clock)[k] /\ d[k] = data[k]
<1>1. /\ Purged(data, ExpireIfNeeded(data, k, t), t)
      /\ k \in DOMAIN ExpireIfNeeded(data, k, t) <=> Seen(data, k, t)
  BY LookPurges
<1> QED
  BY <1>1, SeesWhatIsAlive DEF Purged

(* What the end of a command says, without the event it records. *)
LEMMA DoneIs ==
  ASSUME NEW call, NEW t, NEW d, NEW reply, Done(call, t, d, reply)
  PROVE  data' = d /\ clock' = t /\ last'.call = call /\ last'.reply = reply /\ up' = up
BY DEF Done

(* A command's only reading of the clock is an instant. *)
LEMMA NowIsAnInstant ==
  ASSUME IInv, NEW t \in Later, clock' = t
  PROVE  t \in Promise!Instants
BY InstantOf, Times

(* The promise counts as the commands do. *)
LEMMA SameCardinality == \A S : Promise!Cardinality(S) = Cardinality(S)
BY DEF Promise!Cardinality, Cardinality, Promise!ExistsBijection, ExistsBijection,
       Promise!Bijection, Bijection, Promise!Injection, Injection, Promise!Surjection, Surjection,
       Promise!IsInjective, IsInjective, Promise!Range, Range

(* Each of the n readings of a command is an instant, none later than the    *)
(* last one, which is the clock the command leaves.                          *)
LEMMA ReadingsAreInstants ==
  ASSUME IInv, NEW n \in Nat \ {0}, NEW t \in Readings(n), clock' = t[n]
  PROVE  /\ t \in Promise!Instant(n) /\ t[n] \in Later
         /\ \A i \in 1..n : t[i] \in Later /\ t[i] <= t[n] /\ t[i] \in Promise!Instants
<1>1. n \in 1..n /\ t \in [1..n -> Later]
  BY DEF Readings
<1>2. \A i \in 1..n : t[i] \in Later /\ t[i] <= t[n]
  BY <1>1 DEF Readings
<1>3. \A i \in 1..n : t[i] \in Promise!Instants
  BY <1>1, <1>2, InstantOf
<1>4. \A i \in 2..n : t[i - 1] <= t[i]
  BY DEF Readings
<1>5. t \in [1..n -> Promise!Instants]
  BY <1>1, <1>3
<1> QED
  BY <1>1, <1>2, <1>3, <1>4, <1>5 DEF Promise!Instant

(* MGET, EXISTS and DEL look at their keys one by one, each at its own       *)
(* reading; together the looks purge.                                        *)
LEMMA LookEachPurges ==
  ASSUME IInv, NEW n \in Nat \ {0}, NEW t \in Readings(n), NEW ks, DOMAIN ks = 1..n
  PROVE  Purged(data, ExpireEach(data, ks, t), t[n])
<1>1. \A i \in 1..n : t[i] \in Int /\ t[n] \in Int /\ t[i] <= t[n]
  BY Times DEF Readings
<1>2. Timed(data)
  BY SoundIsTimed DEF IInv
<1> QED
  BY <1>1, <1>2 DEF Purged, ExpireEach, Restrict, Timed, IsExpired

-----------------------------------------------------------------------------
(* src/cmd/key.cpp *)

(* TYPE is a read of the promise. *)
LEMMA TypeRefines == ASSUME IInv, NEW k, TypeOf(k) PROVE Promise!Reads
<1>1. PICK t \in Later :
        LET d == ExpireIfNeeded(data, k, t)
        IN  Done(<<"TYPE", k>>, t, d, SimpleReply(IF k \in DOMAIN d THEN Type(d[k]) ELSE "none"))
  BY DEF TypeOf
<1> DEFINE d == ExpireIfNeeded(data, k, t)
           view == Live(data, clock)
<1>2. /\ Purged(data, d, t)
      /\ (k \in DOMAIN d <=> Promise!Alive(k, t))
      /\ k \in DOMAIN d => d[k] = view[k]
  BY LookOnce
<1> HIDE DEF d
<1>3. /\ data' = d /\ clock' = t /\ last'.call = <<"TYPE", k>>
      /\ last'.reply = SimpleReply(IF Promise!Alive(k, t) THEN Type(view[k]) ELSE "none")
  BY <1>1, <1>2, DoneIs DEF d
<1>4. Promise!Same /\ t \in Promise!Instants
  BY <1>2, <1>3, StaysSame, NowIsAnInstant
<1> QED
  BY <1>3, <1>4, SameTypes, SameReplies
     DEF Promise!Reads, Promise!Called, Promise!Arg, Promise!Replies

(* PERSIST takes the deadline of the object seen away and reports whether    *)
(* there was one.                                                            *)
LEMMA PersistRefines == ASSUME IInv, NEW k, Persist(k) PROVE Promise!Expiry
<1>1. PICK t \in Later :
       LET d == ExpireIfNeeded(data, k, t)
           has == GetExpire(d, k) # NoExpiry
       IN  Done(<<"PERSIST", k>>, t, SetExpire(d, k, NoExpiry), IntReply(IF has THEN 1 ELSE 0))
  BY DEF Persist
<1> DEFINE d == ExpireIfNeeded(data, k, t)
           view == Live(data, clock)
           has == GetExpire(d, k) # NoExpiry
<1>2. /\ Purged(data, d, t)
      /\ (k \in DOMAIN d <=> Promise!Alive(k, t))
      /\ k \in DOMAIN d => d[k] = view[k] /\ d[k] = data[k]
  BY LookOnce
<1>3. /\ data' = SetExpire(d, k, NoExpiry) /\ clock' = t /\ last'.call = <<"PERSIST", k>>
      /\ last'.reply = IntReply(IF has THEN 1 ELSE 0)
  BY <1>1, DoneIs
<1>4. SoundStore(d)
  BY LookSound DEF IInv
<1> HIDE DEF d
<1>5. has <=> Promise!Alive(k, t) /\ view[k].expiresAt # NoExpiry
  BY <1>2 DEF GetExpire
<1>6. CASE has
  <2>1. k \in DOMAIN d /\ d[k] \in Object
    BY <1>2, <1>5, <1>6, <1>4 DEF SoundStore, Sound
  <2>2. SetExpire(d, k, NoExpiry) = Put(d, k, [value |-> view[k].value, expiresAt |-> NoExpiry])
    <3>1. [d[k] EXCEPT !.expiresAt = NoExpiry] = [value |-> view[k].value, expiresAt |-> NoExpiry]
      BY <2>1, <1>2 DEF Object
    <3> QED
      BY <2>1, <3>1 DEF SetExpire, Put
  <2>3. NoExpiry \in Int
    BY DEF NoExpiry
  <2>4. Promise!Becomes(Promise!With(k, view[k].value, NoExpiry))
    BY <2>2, <2>3, <1>2, <1>3, BecomesWith
  <2> QED
    BY <2>4, <1>3, <1>5, <1>6, NowIsAnInstant, SameTypes, SameReplies
       DEF Promise!Expiry, Promise!Called, Promise!Arg, Promise!Replies
<1>7. CASE ~has
  <2>1. SetExpire(d, k, NoExpiry) = d
    <3>1. CASE k \notin DOMAIN d
      BY <3>1 DEF SetExpire
    <3>2. CASE k \in DOMAIN d
      <4>1. d[k] \in Object /\ d[k].expiresAt = NoExpiry
        BY <3>2, <1>7, <1>4 DEF SoundStore, Sound, GetExpire
      <4>2. [d[k] EXCEPT !.expiresAt = NoExpiry] = d[k]
        BY <4>1 DEF Object
      <4>3. d = [x \in DOMAIN d |-> d[x]]
        BY <1>4 DEF SoundStore, IsStore
      <4>4. SetExpire(d, k, NoExpiry) = [x \in DOMAIN d |-> d[x]]
        BY <3>2, <4>2 DEF SetExpire
      <4> QED
        BY <4>3, <4>4
    <3> QED
      BY <3>1, <3>2
  <2>2. Promise!Same
    BY <2>1, <1>2, <1>3, StaysSame
  <2> QED
    BY <2>2, <1>3, <1>5, <1>7, NowIsAnInstant, SameTypes, SameReplies
       DEF Promise!Expiry, Promise!Called, Promise!Arg, Promise!Replies
<1> QED
  BY <1>6, <1>7

(* A command that looks at one key several times. *)
LEMMA LookTwice ==
  ASSUME IInv, NEW n \in Nat \ {0}, NEW t \in Readings(n), clock' = t[n], NEW i \in 1..n, NEW k
  PROVE  LET d == ExpireIfNeeded(data, k, t[i])
         IN  /\ Purged(data, d, t[n])
             /\ k \in DOMAIN d <=> Promise!Alive(k, t[i])
             /\ k \in DOMAIN d => d[k] = Live(data, clock)[k] /\ d[k] = data[k]
<1>1. t[n] \in Later /\ t[i] \in Later /\ t[i] <= t[n]
  BY ReadingsAreInstants
<1>2. t[i] \in Int /\ t[n] \in Int /\ Timed(data)
  BY <1>1, Times, SoundIsTimed DEF IInv
<1> QED
  BY <1>1, <1>2, LookOnce, PurgedLater

(* A key that a look takes for dead is dead at every later reading. *)
LEMMA DeadLater ==
  ASSUME IInv, NEW s \in Later, NEW t \in Later, s <= t, NEW k, ~Promise!Alive(k, s)
  PROVE  ~Promise!Alive(k, t)
BY Times, SeesWhatIsAlive, SeenEarlier, SoundIsTimed DEF IInv

(* Database::setExpire on a key that is there writes the deadline and keeps  *)
(* the value.                                                                *)
LEMMA SetExpireIs ==
  ASSUME NEW d, SoundStore(d), NEW k \in DOMAIN d, NEW e
  PROVE  SetExpire(d, k, e) = Put(d, k, [value |-> d[k].value, expiresAt |-> e])
<1>1. [d[k] EXCEPT !.expiresAt = e] = [value |-> d[k].value, expiresAt |-> e]
  BY DEF SoundStore, Sound, Object
<1> QED
  BY <1>1 DEF SetExpire, Put

(* PTTL and TTL are reads of the promise: at one instant the key is looked   *)
(* up, at a later one its time is counted.                                   *)
LEMMA TtlRefines == ASSUME IInv, NEW k, PTtl(k) \/ TtlSeconds(k) PROVE Promise!Reads
<1>1. PICK t \in Readings(3) :
        LET ms == TtlReply(k, t)
        IN  \/ Done(<<"PTTL", k>>, t[3], ExpireIfNeeded(data, k, t[2]), IntReply(ms))
            \/ Done(<<"TTL", k>>, t[3], ExpireIfNeeded(data, k, t[2]),
                    IntReply(IF ms <= -1 THEN ms ELSE ms \div Sec))
  BY DEF PTtl, TtlSeconds
<1> DEFINE d == ExpireIfNeeded(data, k, t[2])
           view == Live(data, clock)
           ms == TtlReply(k, t)
           left == view[k].expiresAt - t[3]
           alive == Promise!Alive(k, t[3])
<1>2. /\ data' = d /\ clock' = t[3]
      /\ \/ last'.call = <<"PTTL", k>> /\ last'.reply = IntReply(ms)
         \/ last'.call = <<"TTL", k>> /\ last'.reply = IntReply(IF ms <= -1 THEN ms ELSE ms \div Sec)
  <2>1. CASE Done(<<"PTTL", k>>, t[3], d, IntReply(ms))
    BY <2>1, DoneIs
  <2>2. CASE Done(<<"TTL", k>>, t[3], d, IntReply(IF ms <= -1 THEN ms ELSE ms \div Sec))
    BY <2>2, DoneIs
  <2> QED
    BY <1>1, <2>1, <2>2
<1>3. /\ t[1] \in Later /\ t[2] \in Later /\ t[3] \in Later /\ t[1] <= t[3] /\ t[2] <= t[3]
      /\ t[3] \in Promise!Instants
  BY <1>2, ReadingsAreInstants
<1>4. Promise!Same
  <2>1. 3 \in Nat \ {0} /\ 2 \in 1..3
    OBVIOUS
  <2>2. Purged(data, d, t[3])
    BY <1>2, <2>1, LookTwice
  <2> QED
    BY <1>2, <1>3, <2>2, StaysSame
<1>5. ms = IF ~alive THEN -2 ELSE IF view[k].expiresAt = NoExpiry THEN -1 ELSE left
  <2>1. alive => Seen(data, k, t[1]) /\ Seen(data, k, t[2])
    BY <1>3, DeadLater, SeesWhatIsAlive
  <2>2. /\ Sees(data, k, t[1]) <=> Seen(data, k, t[1])
        /\ Sees(data, k, t[2]) <=> Seen(data, k, t[2])
    BY LookPurges DEF Sees
  <2>3. alive <=> Seen(data, k, t[3])
    BY <1>3, SeesWhatIsAlive
  <2>4. alive => view[k] = data[k]
    BY <1>3, SeesWhatIsAlive
  <2>5. t[3] \in Int /\ (k \in DOMAIN data => data[k].expiresAt \in Int)
    BY <1>3, Times, SoundIsTimed DEF Timed, IInv
  <2>6. CASE alive
    <3>1. ms = Ttl(data, k, <<t[2], t[3]>>)
      BY <2>1, <2>2, <2>6 DEF TtlReply
    <3>2. Sees(data, k, t[2]) /\ Seen(data, k, t[3])
      BY <2>1, <2>2, <2>3, <2>6
    <3> QED
      BY <3>1, <3>2, <2>4, <2>5, <2>6 DEF Ttl, Seen, IsExpired
  <2>7. CASE ~alive
    <3>1. ~Sees(data, k, t[2]) \/ k \in DOMAIN data
      BY <2>2 DEF Seen
    <3>2. k \in DOMAIN data => IsExpired(data[k], t[3])
      BY <2>3, <2>7 DEF Seen
    <3> QED
      BY <3>1, <3>2, <2>5, <2>7 DEF TtlReply, Ttl, IsExpired
  <2> QED
    BY <2>6, <2>7
<1>6. alive /\ view[k].expiresAt # NoExpiry => left \in Int /\ left > 0
  BY <1>3, SeesWhatIsAlive, Times, SoundIsTimed DEF Timed, IInv, Seen, IsExpired
<1> HIDE DEF ms, d
<1>7. (Promise!Called("PTTL") \/ Promise!Called("TTL")) /\ Promise!Arg(1) = k
  BY <1>2 DEF Promise!Called, Promise!Arg
<1>8. last'.reply = IntReply(IF ~alive THEN -2
                             ELSE IF view[k].expiresAt = NoExpiry THEN -1
                             ELSE IF Promise!Called("PTTL") THEN left ELSE left \div Sec)
  BY <1>2, <1>5, <1>6 DEF Promise!Called
<1> QED
  BY <1>3, <1>4, <1>7, <1>8, SameTypes, SameReplies DEF Promise!Reads, Promise!Replies

(* EXISTS counts the keys seen, each at its own instant, a repeated key as   *)
(* often as it is named.                                                     *)
LEMMA ExistsRefines == ASSUME IInv, NEW ks \in KeyLists, Exists(ks) PROVE Promise!Reads
<1>1. Len(ks) \in Nat \ {0} /\ DOMAIN ks = 1..Len(ks)
  BY ArgumentsAssumption
<1>2. PICK t \in Readings(Len(ks)) :
        Done(<<"EXISTS", ks>>, t[Len(ks)], ExpireEach(data, ks, t),
             IntReply(Cardinality({i \in DOMAIN ks : Sees(data, ks[i], t[i])})))
  BY DEF Exists
<1>3. /\ data' = ExpireEach(data, ks, t) /\ clock' = t[Len(ks)] /\ last'.call = <<"EXISTS", ks>>
      /\ last'.reply = IntReply(Cardinality({i \in DOMAIN ks : Sees(data, ks[i], t[i])}))
  BY <1>2, DoneIs
<1>4. /\ t \in Promise!Instant(Len(ks)) /\ t[Len(ks)] \in Later
      /\ \A i \in DOMAIN ks : t[i] \in Later
  BY <1>1, <1>3, ReadingsAreInstants
<1>5. Promise!Same
  BY <1>1, <1>3, <1>4, LookEachPurges, StaysSame
<1>6. \A i \in DOMAIN ks : Sees(data, ks[i], t[i]) <=> Promise!Alive(ks[i], t[i])
  BY <1>4, SeesWhatIsAlive, LookPurges DEF Sees
<1>7. {i \in DOMAIN ks : Sees(data, ks[i], t[i])} = {i \in DOMAIN ks : Promise!Alive(ks[i], t[i])}
  BY <1>6
<1>8. last'.reply = IntReply(Promise!Cardinality({i \in DOMAIN ks : Promise!Alive(ks[i], t[i])}))
  BY <1>3, <1>7, SameCardinality
<1>9. Promise!Called("EXISTS") /\ Promise!Arg(1) = ks
  BY <1>3 DEF Promise!Called, Promise!Arg
<1> QED
  BY <1>4, <1>5, <1>8, <1>9, SameReplies DEF Promise!Reads, Promise!Replies

(* DEL takes its keys out of the view and out of what lingers, and counts    *)
(* those it finds in either.                                                 *)
LEMMA DelRefines == ASSUME IInv, NEW ks \in KeyLists, Del(ks) PROVE Promise!RenamesAndDeletes
<1> DEFINE named == {ks[i] : i \in DOMAIN ks}
<1>1. PICK t \in Later :
        Done(<<"DEL", ks>>, t, Restrict(data, DOMAIN data \ named), IntReply(Cardinality(named \cap DOMAIN data)))
  BY DEF Del
<1>2. /\ data' = Restrict(data, DOMAIN data \ named) /\ clock' = t /\ last'.call = <<"DEL", ks>>
      /\ last'.reply = IntReply(Cardinality(named \cap DOMAIN data))
  BY <1>1, DoneIs
<1> HIDE DEF named
<1>3. Promise!Becomes(Promise!Without(named))
  BY <1>2, NothingPurged, BecomesWithout
<1>4. Purgeable' \cap named = {}
  BY <1>2 DEF Purgeable, Restrict
<1>5. named \cap (DOMAIN Live(data, clock) \cup Purgeable) = named \cap DOMAIN data
  BY DEF Purgeable, Live, Restrict
<1>6. last'.reply = Promise!IntReply(Promise!Cardinality(named \cap (DOMAIN Live(data, clock) \cup Purgeable)))
  BY <1>2, <1>5, SameCardinality, SameReplies
<1>7. Promise!Called("DEL") /\ Promise!Arg(1) = ks
  BY <1>2 DEF Promise!Called, Promise!Arg
<1> QED
  BY <1>3, <1>4, <1>6, <1>7 DEF Promise!RenamesAndDeletes, Promise!Replies, named

(* A key whose deadline has passed is as good as removed. *)
LEMMA ExpiredBecomesWithout ==
  ASSUME IInv, NEW t \in Later, NEW d, Purged(data, d, t),
         NEW k, NEW o, IsExpired(o, t), data' = Put(d, k, o), clock' = t
  PROVE  Promise!Becomes(Promise!Without({k}))
<1> DEFINE view == Live(data, clock)
           new == Restrict(view, DOMAIN view \ {k})
<1>1. Agree(d, view, t) /\ Timed(view)
  BY ViewAgrees
<1>2. Agree(Put(d, k, o), new, t)
  <2> HIDE DEF view
  <2> QED
    BY <1>1 DEF Agree, Seen, Put, Restrict
<1>3. Timed(new)
  BY <1>1 DEF Timed, Restrict
<1>4. Promise!Without({k}) = new
  BY DEF Promise!Without, Restrict, Promise!Restrict
<1> HIDE DEF new
<1> QED
  BY <1>2, <1>3, <1>4, BecomesAgreeing, Times

(* Commands and promise read an amount of seconds alike: no number when the  *)
(* milliseconds do not fit a `long long`, 0 for a bare sign.                 *)
LEMMA SecondsAgree ==
  ASSUME NEW s \in Str
  PROVE  /\ SecondsArgument(s) = Promise!SecondsOf(s)
         /\ SecondsArgument(s) \in LongLong \cup {NotNumber}
         /\ FromChars(s) \in LongLong \cup {NotNumber}
<1>1. FromChars(s) \in LongLong \cup {NotNumber}
  BY FromCharsType
<1>2. NotNumber \notin LongLong /\ 0 \in LongLong
  BY NotNumberAssumption, LongLongAssumption DEF LongLong
<1> QED
  BY <1>1, <1>2 DEF SecondsArgument, Promise!SecondsOf, Promise!LongLong, LongLong

(* What PEXPIRE and its like leave of a key, whatever deadline they computed. *)
LEMMA LivesRefines ==
  ASSUME IInv, NEW t \in Later, NEW d, Purged(data, d, t), SoundStore(d), clock' = t,
         NEW k \in DOMAIN d, d[k] = Live(data, clock)[k], NEW deadline \in Int,
         \/ data' = Erase(d, k) /\ deadline <= t
         \/ data' = SetExpire(d, k, deadline) /\ deadline # NoExpiry
  PROVE  Promise!Lives(k, deadline, t)
<1> DEFINE view == Live(data, clock)
           o == [value |-> view[k].value, expiresAt |-> deadline]
<1>1. CASE data' = Erase(d, k) /\ deadline <= t
  <2>1. data' = Restrict(d, DOMAIN d \ {k})
    BY <1>1 DEF Erase
  <2> QED
    BY <1>1, <2>1, BecomesWithout DEF Promise!Lives
<1>2. CASE data' = SetExpire(d, k, deadline) /\ deadline # NoExpiry
  <2>1. data' = Put(d, k, o)
    BY <1>2, SetExpireIs
  <2>2. CASE deadline <= t
    <3>1. IsExpired(o, t)
      BY <1>2, <2>2, Times DEF IsExpired
    <3> HIDE DEF o
    <3> QED
      BY <2>1, <2>2, <3>1, ExpiredBecomesWithout DEF Promise!Lives
  <2>3. CASE ~(deadline <= t)
    BY <2>1, <2>3, BecomesWith DEF Promise!Lives
  <2> QED
    BY <2>2, <2>3
<1> QED
  BY <1>1, <1>2

(* The first look of a command that reads the clock once more before its end.*)
LEMMA FirstLook ==
  ASSUME IInv, NEW t \in Readings(2), clock' = t[2], NEW k
  PROVE  LET d == ExpireIfNeeded(data, k, t[1])
         IN  /\ Purged(data, d, t[2])
             /\ k \in DOMAIN d <=> Promise!Alive(k, t[1])
             /\ k \in DOMAIN d => d[k] = Live(data, clock)[k]
<1>1. 2 \in Nat \ {0} /\ 1 \in 1..2
  OBVIOUS
<1>2. PICK n \in Nat \ {0} : n = 2
  BY <1>1
<1>3. PICK i \in 1..n : i = 1
  BY <1>1, <1>2
<1>4. t \in Readings(n) /\ clock' = t[n]
  BY <1>2
<1>5. LET d == ExpireIfNeeded(data, k, t[i])
      IN  /\ Purged(data, d, t[n])
          /\ k \in DOMAIN d <=> Promise!Alive(k, t[i])
          /\ k \in DOMAIN d => d[k] = Live(data, clock)[k]
  BY <1>4, LookTwice
<1> QED
  BY <1>2, <1>3, <1>5

(* What PEXPIRE and EXPIRE do, once the amount is read: nothing to a key not *)
(* seen, nothing for a bad number, else a deadline counted from the second   *)
(* reading.                                                                  *)
LEMMA PExpireByDoes ==
  ASSUME IInv, NEW call, NEW k, NEW n \in LongLong \cup {NotNumber}, PExpireBy(call, k, n)
  PROVE  /\ last'.call = call
         /\ \E s \in Promise!Instant(2) :
              IF ~Promise!Alive(k, s[1]) THEN last'.reply = IntReply(0) /\ Promise!Same
              ELSE IF n = NotNumber THEN last'.reply = NotInteger /\ Promise!Same
              ELSE /\ last'.reply = IntReply(1)
                   /\ Promise!Lives(k, IF s[2] + n > LLMax THEN LLMax ELSE s[2] + n, s[2])
<1>1. PICK t \in Readings(2) :
    LET d == ExpireIfNeeded(data, k, t[1])
    IN  \/ /\ k \notin DOMAIN d
           /\ Done(call, t[2], d, IntReply(0))
        \/ /\ k \in DOMAIN d /\ n = NotNumber
           /\ Done(call, t[2], d, NotInteger)
        \/ /\ k \in DOMAIN d /\ n \in LongLong /\ n <= 0
           /\ Done(call, t[2], Erase(d, k), IntReply(1))
        \/ /\ k \in DOMAIN d /\ n \in LongLong /\ n > 0
           /\ Done(call, t[2], SetExpire(d, k, Saturate(t[2], n)), IntReply(1))
  BY DEF PExpireBy
<1> DEFINE d == ExpireIfNeeded(data, k, t[1])
           deadline == IF t[2] + n > LLMax THEN LLMax ELSE t[2] + n
<1>2. /\ clock' = t[2] /\ last'.call = call
      /\ \/ k \notin DOMAIN d /\ last'.reply = IntReply(0) /\ data' = d
         \/ k \in DOMAIN d /\ n = NotNumber /\ last'.reply = NotInteger /\ data' = d
         \/ /\ k \in DOMAIN d /\ n \in LongLong /\ last'.reply = IntReply(1)
            /\ \/ data' = Erase(d, k) /\ n <= 0
               \/ data' = SetExpire(d, k, Saturate(t[2], n)) /\ n > 0
  <2> HIDE DEF d
  <2> QED
    BY <1>1, DoneIs DEF d
<1>3. clock' = t[2] /\ 2 \in Nat \ {0} /\ 1 \in 1..2
  BY <1>2
<1>4. t \in Promise!Instant(2) /\ t[2] \in Later
  BY <1>3, ReadingsAreInstants
<1>5. /\ Purged(data, d, t[2])
      /\ (k \in DOMAIN d <=> Promise!Alive(k, t[1]))
      /\ k \in DOMAIN d => d[k] = Live(data, clock)[k]
  BY <1>3, FirstLook
<1>6. SoundStore(d)
  BY LookSound DEF IInv
<1>7. data' = d => Promise!Same
  BY <1>2, <1>4, <1>5, StaysSame
<1>8. t[2] \in Nat /\ t[2] <= LLMax /\ LLMax \in Nat
  BY <1>4, Times, LongLongAssumption, MaxTimeAssumption DEF Later
<1>9. ASSUME n \in LongLong
      PROVE  /\ deadline \in Int /\ (n <= 0 => deadline <= t[2])
             /\ n > 0 => Saturate(t[2], n) = deadline /\ deadline # NoExpiry
  BY <1>8, <1>9 DEF LongLong, Saturate, NoExpiry
<1> HIDE DEF d, deadline
<1>10. k \in DOMAIN d /\ n \in LongLong => Promise!Lives(k, deadline, t[2])
  BY <1>2, <1>4, <1>5, <1>6, <1>9, LivesRefines, NotNumberAssumption DEF LongLong
<1>11. n \in LongLong => n # NotNumber
  BY NotNumberAssumption DEF LongLong
<1>12. IF ~Promise!Alive(k, t[1]) THEN last'.reply = IntReply(0) /\ Promise!Same
       ELSE IF n = NotNumber THEN last'.reply = NotInteger /\ Promise!Same
       ELSE /\ last'.reply = IntReply(1)
            /\ Promise!Lives(k, deadline, t[2])
  BY <1>2, <1>5, <1>7, <1>10, <1>11
<1> QED
  BY <1>2, <1>4, <1>12 DEF deadline

(* The same of PEXPIREAT and EXPIREAT, whose deadline is the number given. *)
LEMMA PExpireAtTimeDoes ==
  ASSUME IInv, NEW call, NEW k, NEW n \in LongLong \cup {NotNumber}, PExpireAtTime(call, k, n)
  PROVE  /\ last'.call = call
         /\ \E s \in Promise!Instant(2) :
              IF ~Promise!Alive(k, s[1]) THEN last'.reply = IntReply(0) /\ Promise!Same
              ELSE IF n = NotNumber THEN last'.reply = NotInteger /\ Promise!Same
              ELSE /\ last'.reply = IntReply(1)
                   /\ Promise!Lives(k, IF 0 + n > LLMax THEN LLMax ELSE 0 + n, s[2])
<1>1. PICK t \in Readings(2) :
    LET d == ExpireIfNeeded(data, k, t[1])
    IN  \/ /\ k \notin DOMAIN d
           /\ Done(call, t[2], d, IntReply(0))
        \/ /\ k \in DOMAIN d /\ n = NotNumber
           /\ Done(call, t[2], d, NotInteger)
        \/ /\ k \in DOMAIN d /\ n \in LongLong /\ n <= t[2]
           /\ Done(call, t[2], Erase(d, k), IntReply(1))
        \/ /\ k \in DOMAIN d /\ n \in LongLong /\ n > t[2]
           /\ Done(call, t[2], SetExpire(d, k, n), IntReply(1))
  BY DEF PExpireAtTime
<1> DEFINE d == ExpireIfNeeded(data, k, t[1])
           deadline == IF 0 + n > LLMax THEN LLMax ELSE 0 + n
<1>2. /\ clock' = t[2] /\ last'.call = call
      /\ \/ k \notin DOMAIN d /\ last'.reply = IntReply(0) /\ data' = d
         \/ k \in DOMAIN d /\ n = NotNumber /\ last'.reply = NotInteger /\ data' = d
         \/ /\ k \in DOMAIN d /\ n \in LongLong /\ last'.reply = IntReply(1)
            /\ \/ data' = Erase(d, k) /\ n <= t[2]
               \/ data' = SetExpire(d, k, n) /\ n > t[2]
  <2> HIDE DEF d
  <2> QED
    BY <1>1, DoneIs DEF d
<1>3. clock' = t[2] /\ 2 \in Nat \ {0} /\ 1 \in 1..2
  BY <1>2
<1>4. t \in Promise!Instant(2) /\ t[2] \in Later
  BY <1>3, ReadingsAreInstants
<1>5. /\ Purged(data, d, t[2])
      /\ (k \in DOMAIN d <=> Promise!Alive(k, t[1]))
      /\ k \in DOMAIN d => d[k] = Live(data, clock)[k]
  BY <1>3, FirstLook
<1>6. SoundStore(d)
  BY LookSound DEF IInv
<1>7. data' = d => Promise!Same
  BY <1>2, <1>4, <1>5, StaysSame
<1>8. t[2] \in Nat /\ LLMax \in Nat
  BY <1>4, Times, LongLongAssumption
<1>9. ASSUME n \in LongLong
      PROVE  deadline = n /\ n \in Int /\ (n > t[2] => n # NoExpiry)
  BY <1>8, <1>9 DEF LongLong, NoExpiry
<1> HIDE DEF d, deadline
<1>10. k \in DOMAIN d /\ n \in LongLong => Promise!Lives(k, deadline, t[2])
  BY <1>2, <1>4, <1>5, <1>6, <1>9, LivesRefines, NotNumberAssumption DEF LongLong
<1>11. n \in LongLong => n # NotNumber
  BY NotNumberAssumption DEF LongLong
<1>12. IF ~Promise!Alive(k, t[1]) THEN last'.reply = IntReply(0) /\ Promise!Same
       ELSE IF n = NotNumber THEN last'.reply = NotInteger /\ Promise!Same
       ELSE /\ last'.reply = IntReply(1)
            /\ Promise!Lives(k, deadline, t[2])
  BY <1>2, <1>5, <1>7, <1>10, <1>11
<1> QED
  BY <1>2, <1>4, <1>12 DEF deadline

(* What the promise says of the four commands, its choices made. *)
LEMMA ExpiryIs ==
  ASSUME NEW name \in {"PEXPIRE", "EXPIRE", "PEXPIREAT", "EXPIREAT"}, NEW k, NEW s \in Str,
         last'.call = <<name, k, s>>, NEW n, NEW from, NEW t \in Promise!Instant(2),
         n = IF name \in {"PEXPIRE", "PEXPIREAT"} THEN FromChars(s) ELSE SecondsArgument(s),
         from = IF name \in {"PEXPIRE", "EXPIRE"} THEN t[2] ELSE 0,
         IF ~Promise!Alive(k, t[1]) THEN last'.reply = IntReply(0) /\ Promise!Same
         ELSE IF n = NotNumber THEN last'.reply = NotInteger /\ Promise!Same
         ELSE /\ last'.reply = IntReply(1)
              /\ Promise!Lives(k, IF from + n > LLMax THEN LLMax ELSE from + n, t[2])
  PROVE  Promise!Expiry
<1>1. Promise!Called(name) /\ Promise!Arg(1) = k /\ Promise!Arg(2) = s
  BY DEF Promise!Called, Promise!Arg
<1>2. SecondsArgument(s) = Promise!SecondsOf(s)
  BY SecondsAgree
<1> QED
  BY <1>1, <1>2, SameReplies, SameErrors DEF Promise!Expiry, Promise!Replies

(* The four commands that set a deadline do what the promise says of them, a *)
(* deadline in the past deleting the key.                                    *)
LEMMA ExpiresRefine ==
  ASSUME IInv, NEW k, NEW s \in Str, PExpire(k, s) \/ Expire(k, s) \/ PExpireAt(k, s) \/ ExpireAt(k, s)
  PROVE  Promise!Expiry
<1>1. FromChars(s) \in LongLong \cup {NotNumber} /\ SecondsArgument(s) \in LongLong \cup {NotNumber}
  BY SecondsAgree
<1>2. CASE PExpire(k, s)
  <2>1. PExpireBy(<<"PEXPIRE", k, s>>, k, FromChars(s))
    BY <1>2 DEF PExpire
  <2> QED
    BY <2>1, <1>1, PExpireByDoes, ExpiryIs
<1>3. CASE Expire(k, s)
  <2>1. PExpireBy(<<"EXPIRE", k, s>>, k, SecondsArgument(s))
    BY <1>3 DEF Expire
  <2> QED
    BY <2>1, <1>1, PExpireByDoes, ExpiryIs
<1>4. CASE PExpireAt(k, s)
  <2>1. PExpireAtTime(<<"PEXPIREAT", k, s>>, k, FromChars(s))
    BY <1>4 DEF PExpireAt
  <2> QED
    BY <2>1, <1>1, PExpireAtTimeDoes, ExpiryIs
<1>5. CASE ExpireAt(k, s)
  <2>1. PExpireAtTime(<<"EXPIREAT", k, s>>, k, SecondsArgument(s))
    BY <1>5 DEF ExpireAt
  <2> QED
    BY <2>1, <1>1, PExpireAtTimeDoes, ExpiryIs
<1> QED
  BY <1>2, <1>3, <1>4, <1>5

(* Putting the old object under the new name and erasing the old one moves   *)
(* it in the view: its deadline goes with it.                                *)
LEMMA MovedAgrees ==
  ASSUME IInv, NEW t \in Later, NEW d, Purged(data, d, t), clock' = t,
         NEW old, NEW new, d[old] = Live(data, clock)[old], d[old].expiresAt \in Int,
         data' = Put(Erase(d, old), new, d[old])
  PROVE  Promise!Becomes(Promise!Moved(old, new))
<1> DEFINE view == Live(data, clock)
           rest == Restrict(view, DOMAIN view \ {old})
           moved == Put(rest, new, view[old])
<1>1. Agree(d, view, t) /\ Timed(view)
  BY ViewAgrees
<1>2. Agree(Erase(d, old), rest, t)
  BY <1>1, RemoveAgrees DEF Erase
<1>3. Agree(Put(Erase(d, old), new, d[old]), moved, t)
  <2> HIDE DEF rest, view
  <2> QED
    BY <1>2, PutAgrees DEF view
<1>4. Timed(moved)
  <2>1. Timed(rest)
    BY <1>1 DEF Timed, Restrict
  <2> HIDE DEF rest
  <2> QED
    BY <2>1 DEF Timed, Put
<1>5. Promise!Moved(old, new) = moved
  BY DEF Promise!Moved, Put, Restrict
<1> HIDE DEF moved
<1> QED
  BY <1>3, <1>4, <1>5, BecomesAgreeing, Times

(* What RENAME and RENAMENX do once `old` has been seen, with their two more *)
(* looks.                                                                    *)
LEMMA RenameDoes ==
  ASSUME IInv, NEW t \in Readings(3), clock' = t[3], NEW old, NEW new,
         Promise!Alive(old, t[1]), NEW overwrite \in BOOLEAN,
         LET r == Rename(ExpireIfNeeded(data, old, t[1]), old, new, overwrite, <<t[2], t[3]>>)
         IN  data' = r.store
  PROVE  LET r == Rename(ExpireIfNeeded(data, old, t[1]), old, new, overwrite, <<t[2], t[3]>>)
         IN  \/ ~Promise!Alive(old, t[2]) /\ ~r.done /\ Promise!Same
             \/ old = new /\ Promise!Becomes(Promise!Moved(old, new))
             \/ /\ old # new /\ r.done /\ (overwrite \/ ~Promise!Alive(new, t[3]))
                /\ Promise!Becomes(Promise!Moved(old, new))
             \/ old # new /\ ~overwrite /\ ~r.done /\ Promise!Alive(new, t[3]) /\ Promise!Same
<1> DEFINE view == Live(data, clock)
           d == ExpireIfNeeded(data, old, t[1])
           d1 == ExpireIfNeeded(d, old, t[2])
           d2 == ExpireIfNeeded(d1, new, t[3])
           r == Rename(d, old, new, overwrite, <<t[2], t[3]>>)
<1>1. /\ t[1] \in Later /\ t[2] \in Later /\ t[3] \in Later
      /\ t[1] <= t[2] /\ t[2] <= t[3] /\ t[1] <= t[3]
  <2>1. \A i, j \in 1..3 : i <= j => t[i] <= t[j]
    BY DEF Readings
  <2>2. t \in [1..3 -> Later]
    BY DEF Readings
  <2> QED
    BY <2>1, <2>2
<1>2. t[1] \in Int /\ t[2] \in Int /\ t[3] \in Int
  BY <1>1, Times
<1>3. Timed(data)
  BY SoundIsTimed DEF IInv
<1>4. old \in DOMAIN d /\ d = data
  <2>1. Seen(data, old, t[1])
    BY <1>1, SeesWhatIsAlive
  <2> QED
    BY <2>1 DEF Seen, ExpireIfNeeded
<1>5. Purged(data, d1, t[2]) /\ (old \in DOMAIN d1 <=> Promise!Alive(old, t[2]))
  BY <1>1, <1>4, LookOnce
<1>6. Purged(data, d1, t[3])
  BY <1>1, <1>2, <1>3, <1>5, PurgedLater
<1>7. Purged(data, d2, t[3])
  BY <1>6, LookPurges, PurgedTwice
<1>8. data' = r.store
  OBVIOUS
<1>9. r = IF old = new \/ d1 # d THEN [done |-> old \in DOMAIN d1, store |-> d1]
          ELSE IF old \notin DOMAIN d2 \/ (~overwrite /\ new \in DOMAIN d2)
          THEN [done |-> FALSE, store |-> d2]
          ELSE [done |-> TRUE, store |-> Put(Erase(d2, old), new, d2[old])]
  BY DEF Rename
<1> HIDE DEF r
<1>10. CASE ~Promise!Alive(old, t[2])
  <2>1. d1 # d
    BY <1>4, <1>5, <1>10
  <2>2. ~r.done /\ data' = d1
    BY <1>5, <1>8, <1>9, <1>10, <2>1
  <2>3. Promise!Same
    BY <1>1, <1>6, <2>2, StaysSame
  <2> QED
    BY <1>10, <2>2, <2>3 DEF r
<1>11. CASE Promise!Alive(old, t[2])
  <2>1. d1 = data /\ d = data
    <3>1. Seen(data, old, t[2])
      BY <1>1, <1>11, SeesWhatIsAlive
    <3> QED
      BY <1>4, <3>1 DEF Seen, ExpireIfNeeded
  <2>2. old \in DOMAIN data /\ data[old] = view[old] /\ data[old].expiresAt \in Int
    BY <1>1, <1>3, <1>11, SeesWhatIsAlive DEF Seen, Timed
  <2>3. CASE old = new
    <3>1. data' = data
      BY <1>8, <1>9, <2>1, <2>3
    <3>2. Promise!Same
      BY <1>1, <3>1, NothingPurged, StaysSame
    <3>3. old \in DOMAIN view
      BY <1>11, LiveDomain, SeesWhatIsAlive, <1>1 DEF Promise!Alive
    <3>4. view = [k \in DOMAIN view |-> view[k]]
      BY DEF Live, Restrict
    <3>5. Promise!Moved(old, new) = view
      <4> HIDE DEF view
      <4>1. (DOMAIN view \ {old}) \cup {new} = DOMAIN view
        BY <2>3, <3>3
      <4>2. Promise!Moved(old, new) = [k \in DOMAIN view |-> view[k]]
        BY <2>3, <4>1 DEF Promise!Moved, view
      <4> QED
        BY <3>4, <4>2
    <3> QED
      BY <2>3, <3>2, <3>5 DEF Promise!Same
  <2>4. CASE old # new
    <3>1. /\ Purged(data, d2, t[3])
          /\ (new \in DOMAIN d2 <=> Promise!Alive(new, t[3]))
      BY <1>1, <2>1, LookOnce
    <3>2. old \in DOMAIN d2 /\ d2[old] = data[old]
      BY <2>1, <2>2, <2>4 DEF ExpireIfNeeded, Erase, Restrict
    <3>3. CASE ~overwrite /\ new \in DOMAIN d2
      <4>1. ~r.done /\ data' = d2
        BY <1>8, <1>9, <2>1, <2>4, <3>3
      <4>2. Promise!Same
        BY <1>1, <3>1, <4>1, StaysSame
      <4> QED
        BY <2>4, <3>1, <3>3, <4>1, <4>2 DEF r
    <3>4. CASE ~(~overwrite /\ new \in DOMAIN d2)
      <4>1. r.done /\ data' = Put(Erase(d2, old), new, d2[old])
        BY <1>8, <1>9, <2>1, <2>4, <3>2, <3>4
      <4>2. d2[old] = view[old] /\ d2[old].expiresAt \in Int
        BY <2>2, <3>2
      <4> HIDE DEF d2
      <4>3. Promise!Becomes(Promise!Moved(old, new))
        BY <1>1, <3>1, <4>1, <4>2, MovedAgrees
      <4> QED
        BY <2>4, <3>1, <3>4, <4>1, <4>3 DEF r
    <3> QED
      BY <3>3, <3>4
  <2> QED
    BY <2>3, <2>4
<1> QED
  BY <1>10, <1>11

(* Two of the readings of a command, in order. *)
LEMMA TwoInstants ==
  ASSUME IInv, NEW n \in Nat \ {0}, NEW t \in Readings(n), clock' = t[n],
         NEW i \in 1..n, NEW j \in 1..n, i <= j
  PROVE  <<t[i], t[j]>> \in Promise!Instant(2)
<1>1. t[i] \in Promise!Instants /\ t[j] \in Promise!Instants
  BY ReadingsAreInstants
<1>2. t[i] <= t[j]
  BY DEF Readings
<1>3. <<t[i], t[j]>> \in [1..2 -> Promise!Instants]
  BY <1>1
<1> QED
  BY <1>2, <1>3 DEF Promise!Instant

(* RENAME moves the object seen, deadline and all, says that there is none,  *)
(* or replies OK and moves nothing when the key expires between its looks.   *)
LEMMA RenameKeyRefines ==
  ASSUME IInv, NEW old, NEW new, RenameKey(old, new)
  PROVE  Promise!RenamesAndDeletes
<1>1. PICK t \in Readings(3) :
       LET call == <<"RENAME", old, new>>
           d == ExpireIfNeeded(data, old, t[1])
       IN  \/ /\ old \notin DOMAIN d
              /\ Done(call, t[3], d, NoSuchKey)
           \/ /\ old \in DOMAIN d
              /\ Done(call, t[3], Rename(d, old, new, TRUE, <<t[2], t[3]>>).store, OkReply)
  BY DEF RenameKey
<1> DEFINE d == ExpireIfNeeded(data, old, t[1])
           r == Rename(d, old, new, TRUE, <<t[2], t[3]>>)
<1>2. /\ clock' = t[3] /\ last'.call = <<"RENAME", old, new>>
      /\ \/ old \notin DOMAIN d /\ last'.reply = NoSuchKey /\ data' = d
         \/ old \in DOMAIN d /\ last'.reply = OkReply /\ data' = r.store
  <2> HIDE DEF d, r
  <2> QED
    BY <1>1, DoneIs DEF d, r
<1>3. clock' = t[3] /\ 3 \in Nat \ {0} /\ 1 \in 1..3 /\ 2 \in 1..3 /\ 3 \in 1..3
  BY <1>2
<1>4. t[3] \in Later
  BY <1>3, ReadingsAreInstants
<1>5. <<t[1], t[2]>> \in Promise!Instant(2)
  BY <1>3, TwoInstants
<1>6. Purged(data, d, t[3]) /\ (old \in DOMAIN d <=> Promise!Alive(old, t[1]))
  BY <1>3, LookTwice
<1>7. Promise!Called("RENAME") /\ Promise!Arg(1) = old /\ Promise!Arg(2) = new
  BY <1>2 DEF Promise!Called, Promise!Arg
<1>8. CASE old \notin DOMAIN d
  <2>1. Promise!Same
    BY <1>2, <1>4, <1>6, <1>8, StaysSame
  <2> QED
    BY <1>2, <1>5, <1>6, <1>7, <1>8, <2>1, SameErrors
       DEF Promise!RenamesAndDeletes, Promise!Replies
<1>9. CASE old \in DOMAIN d
  <2>1. data' = r.store /\ last'.reply = OkReply
    BY <1>2, <1>9
  <2>2. \/ ~Promise!Alive(old, t[2]) /\ Promise!Same
        \/ Promise!Becomes(Promise!Moved(old, new))
    BY <1>3, <1>6, <1>9, <2>1, RenameDoes
  <2> QED
    BY <1>5, <1>6, <1>7, <1>9, <2>1, <2>2, SameReplies
       DEF Promise!RenamesAndDeletes, Promise!Replies
<1> QED
  BY <1>8, <1>9

(* RENAMENX does so only when the new name is not seen, with the same race. *)
LEMMA RenameNxRefines ==
  ASSUME IInv, NEW old, NEW new, RenameNx(old, new)
  PROVE  Promise!RenamesAndDeletes
<1>1. PICK t \in Readings(3) :
       LET call == <<"RENAMENX", old, new>>
           d == ExpireIfNeeded(data, old, t[1])
           r == Rename(d, old, new, FALSE, <<t[2], t[3]>>)
       IN  \/ /\ old \notin DOMAIN d
              /\ Done(call, t[3], d, NoSuchKey)
           \/ /\ old \in DOMAIN d /\ old = new
              /\ Done(call, t[3], d, IntReply(0))
           \/ /\ old \in DOMAIN d /\ old # new
              /\ Done(call, t[3], r.store, IntReply(IF r.done THEN 1 ELSE 0))
  BY DEF RenameNx
<1> DEFINE d == ExpireIfNeeded(data, old, t[1])
           r == Rename(d, old, new, FALSE, <<t[2], t[3]>>)
<1>2. /\ clock' = t[3] /\ last'.call = <<"RENAMENX", old, new>>
      /\ \/ old \notin DOMAIN d /\ last'.reply = NoSuchKey /\ data' = d
         \/ old \in DOMAIN d /\ old = new /\ last'.reply = IntReply(0) /\ data' = d
         \/ /\ old \in DOMAIN d /\ old # new /\ data' = r.store
            /\ last'.reply = IntReply(IF r.done THEN 1 ELSE 0)
  <2> HIDE DEF d, r
  <2> QED
    BY <1>1, DoneIs DEF d, r
<1>3. clock' = t[3] /\ 3 \in Nat \ {0} /\ 1 \in 1..3 /\ 2 \in 1..3 /\ 3 \in 1..3
  BY <1>2
<1>4. t[3] \in Later
  BY <1>3, ReadingsAreInstants
<1>5. <<t[1], t[2]>> \in Promise!Instant(2) /\ <<t[1], t[3]>> \in Promise!Instant(2)
  BY <1>3, TwoInstants
<1>6. Purged(data, d, t[3]) /\ (old \in DOMAIN d <=> Promise!Alive(old, t[1]))
  BY <1>3, LookTwice
<1>7. Promise!Called("RENAMENX") /\ Promise!Arg(1) = old /\ Promise!Arg(2) = new
  BY <1>2 DEF Promise!Called, Promise!Arg
<1>8. CASE old \notin DOMAIN d
  <2>1. Promise!Same
    BY <1>2, <1>4, <1>6, <1>8, StaysSame
  <2> QED
    BY <1>2, <1>5, <1>6, <1>7, <1>8, <2>1, SameErrors
       DEF Promise!RenamesAndDeletes, Promise!Replies
<1>9. CASE old \in DOMAIN d /\ old = new
  <2>1. Promise!Same
    BY <1>2, <1>4, <1>6, <1>9, StaysSame
  <2> QED
    BY <1>2, <1>5, <1>6, <1>7, <1>9, <2>1, SameReplies
       DEF Promise!RenamesAndDeletes, Promise!Replies
<1>10. CASE old \in DOMAIN d /\ old # new
  <2>1. data' = r.store /\ last'.reply = IntReply(IF r.done THEN 1 ELSE 0)
    BY <1>2, <1>10
  <2>2. \/ ~Promise!Alive(old, t[2]) /\ ~r.done /\ Promise!Same
        \/ r.done /\ ~Promise!Alive(new, t[3]) /\ Promise!Becomes(Promise!Moved(old, new))
        \/ ~r.done /\ Promise!Alive(new, t[3]) /\ Promise!Same
    BY <1>3, <1>6, <1>10, <2>1, RenameDoes
  <2> HIDE DEF r
  <2> QED
    BY <1>5, <1>6, <1>7, <1>10, <2>1, <2>2, SameReplies
       DEF Promise!RenamesAndDeletes, Promise!Replies
<1> QED
  BY <1>8, <1>9, <1>10

(* Every key command is a step of the promise. *)
LEMMA OnKeysRefines == ASSUME IInv, OnKeys PROVE Promise!Reads \/ Promise!Expiry \/ Promise!RenamesAndDeletes
<1>1. \/ \E ks \in KeyLists : Del(ks) \/ Exists(ks)
      \/ \E k \in Keys : Persist(k) \/ PTtl(k) \/ TtlSeconds(k) \/ TypeOf(k)
      \/ \E k \in Keys, s \in IntArgs : PExpire(k, s) \/ Expire(k, s) \/ PExpireAt(k, s) \/ ExpireAt(k, s)
      \/ \E old, new \in Keys : RenameKey(old, new) \/ RenameNx(old, new)
  BY DEF OnKeys
<1>2. IntArgs \subseteq Str
  BY ArgumentsAssumption
<1> QED
  BY <1>1, <1>2, DelRefines, ExistsRefines, PersistRefines, TtlRefines, TypeRefines, ExpiresRefine,
     RenameKeyRefines, RenameNxRefines

-----------------------------------------------------------------------------
(* src/cmd/base.cpp *)

(* A command that leaves the database alone. *)
LEMMA Untouched ==
  ASSUME IInv, NEW call, NEW t \in Later, NEW reply, Done(call, t, data, reply)
  PROVE  Promise!Same /\ t \in Promise!Instants /\ last'.call = call /\ last'.reply = reply
BY DoneIs, NothingPurged, StaysSame, NowIsAnInstant

(* So is every server command: PING, ECHO, FLUSHDB, TIME, an unknown name    *)
(* and a wrong number of arguments.                                          *)
LEMMA OnServerRefines == ASSUME IInv, OnServer PROVE Promise!Others
<1>1. \/ \E args \in {<<>>} \cup {<<v>> : v \in Texts} : Ping(args)
      \/ \E v \in Texts : Echo(v)
      \/ Time
      \/ FlushDb
      \/ \E name \in Names : UnknownCommand(name) \/ WrongArity(name)
  BY DEF OnServer
<1>2. ASSUME NEW args, Ping(args)
      PROVE  Promise!Others
  <2>1. PICK t \in Later : Done(<<"PING", args>>, t, data,
                                IF args = <<>> THEN SimpleReply("PONG") ELSE BulkReply(args[1]))
    BY <1>2 DEF Ping
  <2>2. /\ Promise!Same /\ last'.call = <<"PING", args>>
        /\ last'.reply = IF args = <<>> THEN SimpleReply("PONG") ELSE BulkReply(args[1])
    BY <2>1, Untouched
  <2> QED
    BY <2>2, SameReplies DEF Promise!Others, Promise!Called, Promise!Arg, Promise!Replies
<1>3. ASSUME NEW v, Echo(v)
      PROVE  Promise!Others
  <2>1. Promise!Same /\ last'.call = <<"ECHO", v>> /\ last'.reply = BulkReply(v)
    BY <1>3, Untouched DEF Echo
  <2> QED
    BY <2>1, SameReplies DEF Promise!Others, Promise!Called, Promise!Arg, Promise!Replies
<1>4. ASSUME Time
      PROVE  Promise!Others
  <2>1. PICK t \in Later : Done(<<"TIME">>, t, data, <<"time", t>>)
    BY <1>4 DEF Time
  <2>2. /\ Promise!Same /\ t \in Promise!Instants
        /\ last'.call = <<"TIME">> /\ last'.reply = <<"time", t>>
    BY <2>1, Untouched
  <2> QED
    BY <2>2 DEF Promise!Others, Promise!Called, Promise!Replies
<1>5. ASSUME NEW cmd, UnknownCommand(cmd)
      PROVE  Promise!Others
  <2>1. PICK t \in Later : Done(<<"unknown", cmd>>, t, data, ErrReply("unknown command"))
    BY <1>5 DEF UnknownCommand
  <2>2. Promise!Same /\ last'.call = <<"unknown", cmd>>
    BY <2>1, Untouched
  <2>3. Promise!Called("unknown")
    BY <2>2 DEF Promise!Called
  <2>4. Promise!Replies(Promise!ErrReply("unknown command"))
    BY <2>1, DoneIs DEF Promise!Replies, Promise!ErrReply, ErrReply
  <2> QED
    BY <2>2, <2>3, <2>4 DEF Promise!Others
<1>6. ASSUME NEW cmd, WrongArity(cmd)
      PROVE  Promise!Others
  <2>1. PICK t \in Later : Done(<<"arity", cmd>>, t, data, ErrReply("wrong number of arguments"))
    BY <1>6 DEF WrongArity
  <2>2. Promise!Same /\ last'.call = <<"arity", cmd>>
    BY <2>1, Untouched
  <2>3. Promise!Called("arity")
    BY <2>2 DEF Promise!Called
  <2>4. Promise!Replies(Promise!ErrReply("wrong number of arguments"))
    BY <2>1, DoneIs DEF Promise!Replies, Promise!ErrReply, ErrReply
  <2> QED
    BY <2>2, <2>3, <2>4 DEF Promise!Others
<1>7. ASSUME FlushDb
      PROVE  Promise!Others
  <2>1. PICK t \in Later : Done(<<"FLUSHDB">>, t, [k \in {} |-> 0], OkReply)
    BY <1>7 DEF FlushDb
  <2> DEFINE none == [k \in {} |-> 0]
  <2>2. data' = none /\ clock' = t /\ last'.call = <<"FLUSHDB">> /\ last'.reply = OkReply
    BY <2>1, DoneIs
  <2>3. Timed(none) /\ Agree(none, none, t)
    BY DEF Timed, Agree
  <2> HIDE DEF none
  <2>4. Promise!Becomes(none)
    BY <2>2, <2>3, BecomesAgreeing, Times
  <2>5. Purgeable' = {}
    BY <2>2 DEF Purgeable, none
  <2> QED
    BY <2>2, <2>4, <2>5, SameReplies DEF Promise!Others, Promise!Called, Promise!Replies, none
<1> QED
  BY <1>1, <1>2, <1>3, <1>4, <1>5, <1>6, <1>7

-----------------------------------------------------------------------------
(* src/cmd/string.cpp *)

(* A reader of one look, up to what it makes of the value it finds. *)
ReadOnce(call, k, t, type, absent, found) ==
  LET d == ExpireIfNeeded(data, k, t)
  IN  \/ k \notin DOMAIN d /\ Done(call, t, d, absent)
      \/ k \in DOMAIN d /\ Type(d[k]) # type /\ Done(call, t, d, WrongType)
      \/ k \in DOMAIN d /\ Type(d[k]) = type /\ Done(call, t, d, found)

(* A string command that looks once and only reads replies what the          *)
(* promise's read at that instant replies.                                   *)
LEMMA ReadsOnce ==
  ASSUME IInv, NEW t \in Later,
         NEW call, NEW k, NEW type, NEW absent, NEW found, ReadOnce(call, k, t, type, absent, found)
  PROVE  /\ Promise!Same /\ t \in Promise!Instants /\ last'.call = call
         /\ last'.reply = IF ~Promise!Alive(k, t) THEN absent
                          ELSE IF Type(Live(data, clock)[k]) # type THEN WrongType ELSE found
<1> DEFINE d == ExpireIfNeeded(data, k, t)
           view == Live(data, clock)
<1>1. /\ Purged(data, d, t)
      /\ (k \in DOMAIN d <=> Promise!Alive(k, t))
      /\ k \in DOMAIN d => d[k] = view[k]
  BY LookOnce
<1>2. \/ k \notin DOMAIN d /\ Done(call, t, d, absent)
      \/ k \in DOMAIN d /\ Type(d[k]) # type /\ Done(call, t, d, WrongType)
      \/ k \in DOMAIN d /\ Type(d[k]) = type /\ Done(call, t, d, found)
  BY DEF ReadOnce
<1> HIDE DEF d
<1>3. /\ data' = d /\ clock' = t /\ last'.call = call
      /\ last'.reply = IF k \notin DOMAIN d THEN absent
                       ELSE IF Type(d[k]) # type THEN WrongType ELSE found
  BY <1>2, DoneIs
<1>4. Promise!Same /\ t \in Promise!Instants
  BY <1>1, <1>3, StaysSame, NowIsAnInstant
<1> QED
  BY <1>1, <1>3, <1>4

(* What a look finds is what the promise shows. *)
LEMMA FoundIs ==
  ASSUME IInv, NEW k, NEW t \in Later
  PROVE  /\ k \in DOMAIN ExpireIfNeeded(data, k, t) <=> Promise!Alive(k, t)
         /\ Promise!Alive(k, t) =>
              /\ ExpireIfNeeded(data, k, t)[k] = Live(data, clock)[k]
              /\ Sound(Live(data, clock)[k])
<1>1. /\ k \in DOMAIN ExpireIfNeeded(data, k, t) <=> Promise!Alive(k, t)
      /\ k \in DOMAIN ExpireIfNeeded(data, k, t) =>
           ExpireIfNeeded(data, k, t)[k] = Live(data, clock)[k]
  BY LookOnce
<1>2. SoundStore(ExpireIfNeeded(data, k, t))
  BY LookSound DEF IInv
<1> QED
  BY <1>1, <1>2 DEF SoundStore

(* GET is a read of the promise. *)
LEMMA GetRefines == ASSUME IInv, NEW k, Get(k) PROVE Promise!Reads
<1>1. PICK t \in Later :
       LET call == <<"GET", k>>
           d == ExpireIfNeeded(data, k, t)
       IN  \/ k \notin DOMAIN d /\ Done(call, t, d, NullReply)
           \/ IsOther(d, k) /\ Done(call, t, d, WrongType)
           \/ IsString(d, k) /\ Done(call, t, d, BulkReply(Payload(d[k])))
  BY DEF Get
<1> DEFINE view == Live(data, clock)
           o == ExpireIfNeeded(data, k, t)[k]
<1> HIDE DEF o
<1>2. ReadOnce(<<"GET", k>>, k, t, "string", NullReply, BulkReply(Payload(o)))
  BY <1>1 DEF ReadOnce, IsOther, IsString, o
<1>3.  /\ Promise!Same /\ t \in Promise!Instants /\ last'.call = <<"GET", k>>
      /\ last'.reply = IF ~Promise!Alive(k, t) THEN NullReply
                       ELSE IF Type(view[k]) # "string" THEN WrongType ELSE BulkReply(Payload(o))
  BY <1>2, ReadsOnce
<1>4. Promise!Alive(k, t) => o = view[k]
  BY FoundIs DEF o
<1>5. Promise!Called("GET") /\ Promise!Arg(1) = k
  BY <1>3 DEF Promise!Called, Promise!Arg
<1> QED
  BY <1>3, <1>4, <1>5, SameTypes, SameReplies, SameErrors
     DEF Promise!Reads, Promise!TypedRead, Promise!Replies

(* STRLEN is a read of the promise. *)
LEMMA StrLenRefines == ASSUME IInv, NEW k, StrLen(k) PROVE Promise!Reads
<1>1. PICK t \in Later :
       LET call == <<"STRLEN", k>>
           d == ExpireIfNeeded(data, k, t)
       IN  \/ k \notin DOMAIN d /\ Done(call, t, d, IntReply(0))
           \/ IsOther(d, k) /\ Done(call, t, d, WrongType)
           \/ IsString(d, k) /\ Done(call, t, d, IntReply(Len(Payload(d[k]))))
  BY DEF StrLen
<1> DEFINE view == Live(data, clock)
           o == ExpireIfNeeded(data, k, t)[k]
<1> HIDE DEF o
<1>2. ReadOnce(<<"STRLEN", k>>, k, t, "string", IntReply(0), IntReply(Len(Payload(o))))
  BY <1>1 DEF ReadOnce, IsOther, IsString, o
<1>3.  /\ Promise!Same /\ t \in Promise!Instants /\ last'.call = <<"STRLEN", k>>
      /\ last'.reply = IF ~Promise!Alive(k, t) THEN IntReply(0)
                       ELSE IF Type(view[k]) # "string" THEN WrongType ELSE IntReply(Len(Payload(o)))
  BY <1>2, ReadsOnce
<1>4. Promise!Alive(k, t) => o = view[k]
  BY FoundIs DEF o
<1>5. Promise!Called("STRLEN") /\ Promise!Arg(1) = k
  BY <1>3 DEF Promise!Called, Promise!Arg
<1> QED
  BY <1>3, <1>4, <1>5, SameTypes, SameReplies, SameErrors
     DEF Promise!Reads, Promise!TypedRead, Promise!Replies

(* The characters that GETRANGE cuts out are those between the two indexes. *)
LEMMA EndsOfInterval ==
  ASSUME NEW a \in Int, NEW b \in Int, a <= b
  PROVE  /\ (CHOOSE i \in a..b : \A j \in a..b : i <= j) = a
         /\ (CHOOSE i \in a..b : \A j \in a..b : j <= i) = b
<1>1. \A i \in a..b : (\A j \in a..b : i <= j) <=> i = a
  OBVIOUS
<1>2. \A i \in a..b : (\A j \in a..b : j <= i) <=> i = b
  OBVIOUS
<1>3. a \in a..b /\ b \in a..b
  OBVIOUS
<1> QED
  BY <1>1, <1>2, <1>3

(* The characters from first to end, as the promise defines them with bounds *)
(* counted from the end when negative, are those GETRANGE's clipping leaves. *)
LEMMA CharsAreClipped ==
  ASSUME NEW s, Len(s) \in Nat, NEW first \in Int, NEW end \in Int
  PROVE  LET index(n) == IF n < 0 THEN n + Len(s) ELSE n
             l == IF index(first) > 0 THEN index(first) ELSE 0
             r == IF index(end) < Len(s) THEN index(end) ELSE Len(s) - 1
         IN  Promise!Chars(s, first, end) = IF l > r \/ l >= Len(s) THEN "" ELSE SubSeq(s, l + 1, r + 1)
<1> DEFINE i == IF first < 0 THEN first + Len(s) ELSE first
           j == IF end < 0 THEN end + Len(s) ELSE end
           l == IF i > 0 THEN i ELSE 0
           r == IF j < Len(s) THEN j ELSE Len(s) - 1
           kept == {x \in 1..Len(s) : i <= x - 1 /\ x - 1 <= j}
<1>1. i = (IF first < 0 THEN Len(s) + first ELSE first) /\ j = (IF end < 0 THEN Len(s) + end ELSE end)
  OBVIOUS
<1>2. Promise!Chars(s, first, end) =
        IF kept = {} THEN ""
        ELSE SubSeq(s, CHOOSE x \in kept : \A y \in kept : x <= y,
                       CHOOSE x \in kept : \A y \in kept : y <= x)
  <2> HIDE DEF i, j
  <2> QED
    BY <1>1 DEF Promise!Chars
<1>3. i \in Int /\ j \in Int
  OBVIOUS
<1> HIDE DEF i, j
<1>4. l \in Nat /\ r \in Int /\ r < Len(s)
  BY <1>3
<1>5. kept = (l + 1)..(r + 1)
  BY <1>3
<1> HIDE DEF l, r, kept
<1> SUFFICES Promise!Chars(s, first, end) = IF l > r \/ l >= Len(s) THEN "" ELSE SubSeq(s, l + 1, r + 1)
  BY DEF i, j, l, r
<1>6. CASE l > r
  <2>1. kept = {}
    BY <1>4, <1>5, <1>6
  <2> QED
    BY <1>2, <1>6, <2>1
<1>7. CASE l <= r
  <2>1. /\ (CHOOSE x \in kept : \A y \in kept : x <= y) = l + 1
        /\ (CHOOSE x \in kept : \A y \in kept : y <= x) = r + 1
    BY <1>4, <1>5, <1>7, EndsOfInterval
  <2>2. l + 1 \in kept
    BY <1>4, <1>5, <1>7
  <2>3. Promise!Chars(s, first, end) = SubSeq(s, l + 1, r + 1)
    BY <1>2, <2>1, <2>2
  <2>4. ~(l > r \/ l >= Len(s))
    BY <1>4, <1>7
  <2> QED
    BY <2>3, <2>4
<1>8. l > r \/ l <= r
  BY <1>4
<1> QED
  BY <1>6, <1>7, <1>8

(* GETRANGE is a read of the promise. *)
LEMMA GetRangeRefines ==
  ASSUME IInv, NEW k, NEW first \in Str, NEW end \in Str, GetRange(k, first, end)
  PROVE  Promise!Reads
<1> DEFINE i == FromCharsInt(first)
           j == FromCharsInt(end)
           view == Live(data, clock)
           Part(s) == LET index(n) == IF n < 0 THEN n + Len(s) ELSE n
                          l == IF index(i) > 0 THEN index(i) ELSE 0
                          r == IF index(j) < Len(s) THEN index(j) ELSE Len(s) - 1
                      IN  BulkReply(IF l > r \/ l >= Len(s) THEN "" ELSE SubSeq(s, l + 1, r + 1))
           Found(s) == IF NotNumber \in {i, j} THEN NotInteger ELSE Part(s)
<1>1. PICK t \in Later :
       LET call == <<"GETRANGE", k, first, end>>
           d == ExpireIfNeeded(data, k, t)
       IN  \/ k \notin DOMAIN d /\ Done(call, t, d, BulkReply(""))
           \/ IsOther(d, k) /\ Done(call, t, d, WrongType)
           \/ /\ IsString(d, k) /\ NotNumber \in {i, j}
              /\ Done(call, t, d, NotInteger)
           \/ /\ IsString(d, k) /\ NotNumber \notin {i, j}
              /\ Done(call, t, d, Part(Payload(d[k])))
  BY DEF GetRange
<1> DEFINE o == ExpireIfNeeded(data, k, t)[k]
<1> HIDE DEF o, Part, i, j
<1>2. ReadOnce(<<"GETRANGE", k, first, end>>, k, t, "string", BulkReply(""), Found(Payload(o)))
  BY <1>1 DEF ReadOnce, IsOther, IsString, o
<1> HIDE DEF Found
<1>3. /\ Promise!Same /\ t \in Promise!Instants /\ last'.call = <<"GETRANGE", k, first, end>>
      /\ last'.reply = IF ~Promise!Alive(k, t) THEN BulkReply("")
                       ELSE IF Type(view[k]) # "string" THEN WrongType ELSE Found(Payload(o))
  BY <1>2, ReadsOnce
<1>4. Promise!Alive(k, t) => o = view[k] /\ Sound(view[k])
  BY FoundIs DEF o
<1>5. Promise!Called("GETRANGE") /\ Promise!Arg(1) = k /\ Promise!Arg(2) = first /\ Promise!Arg(3) = end
  <2>1. last'.call = <<"GETRANGE", k, first, end>>
    BY <1>3
  <2> QED
    BY <2>1 DEF Promise!Called, Promise!Arg
<1>6. i \in Int \cup {NotNumber} /\ j \in Int \cup {NotNumber}
  BY FromCharsType DEF i, j, FromCharsInt, LongLong
<1>7. ASSUME Promise!Alive(k, t), Type(view[k]) = "string"
      PROVE  Found(Payload(o)) = IF NotNumber \in {i, j} THEN Promise!NotInteger
                                 ELSE Promise!BulkReply(Promise!Chars(Payload(view[k]), i, j))
  <2>1. Payload(view[k]) \in Str
    BY <1>4, <1>7, PayloadType DEF Sound
  <2>2. Len(Payload(view[k])) \in Nat
    BY <2>1, StrAssumption
  <2>3. CASE NotNumber \notin {i, j}
    <3>1. Part(Payload(view[k])) = BulkReply(Promise!Chars(Payload(view[k]), i, j))
      BY <2>2, <2>3, <1>6, CharsAreClipped DEF Part
    <3> QED
      BY <3>1, <2>3, <1>4, <1>7, SameReplies DEF Found
  <2>4. CASE NotNumber \in {i, j}
    BY <2>4, SameErrors DEF Found
  <2> QED
    BY <2>3, <2>4
<1>8. i = Promise!FromCharsInt(first) /\ j = Promise!FromCharsInt(end)
  BY DEF i, j, FromCharsInt, Promise!FromCharsInt
<1> QED
  BY <1>3, <1>5, <1>7, <1>8, SameTypes, SameReplies, SameErrors
     DEF Promise!Reads, Promise!TypedRead, Promise!Replies

(* The view after the pairs have been written, the last pair of a key wins. *)
LEMMA WritesAll ==
  ASSUME IInv, NEW t \in Later, NEW d, Purged(data, d, t), clock' = t,
         NEW pairs, NEW n \in Nat, DOMAIN pairs = 1..n, data' = SetAll(d, pairs)
  PROVE  Promise!WrittenAll(pairs)
<1> DEFINE view == Live(data, clock)
           e == SetAll(d, pairs)
           named == {pairs[i][1] : i \in DOMAIN pairs}
           new == Live(e, t)
<1>1. Live(data, clock)' = new
  <2>1. Live(data, clock)' = Live(data', clock')
    OBVIOUS
  <2> QED
    BY <2>1
<1>2. \A i \in DOMAIN pairs : (\A j \in DOMAIN pairs : j > i => pairs[j][1] # pairs[i][1])
        => e[pairs[i][1]] = StringObject(pairs[i][2], NoExpiry) /\ pairs[i][1] \in DOMAIN e
  <2> SUFFICES ASSUME NEW i \in DOMAIN pairs, \A j \in DOMAIN pairs : j > i => pairs[j][1] # pairs[i][1]
               PROVE  e[pairs[i][1]] = StringObject(pairs[i][2], NoExpiry) /\ pairs[i][1] \in DOMAIN e
    OBVIOUS
  <2> DEFINE k == pairs[i][1]
             Final(x) == pairs[x][1] = k /\ \A j \in DOMAIN pairs : pairs[j][1] = k => j <= x
  <2>1. \A x \in DOMAIN pairs : Final(x) <=> x = i
    OBVIOUS
  <2>2. (CHOOSE x \in DOMAIN pairs : Final(x)) = i
    <3> HIDE DEF Final
    <3> QED
      BY <2>1
  <2>3. k \in named
    OBVIOUS
  <2>4. e[k] = StringObject(pairs[CHOOSE x \in DOMAIN pairs : Final(x)][2], NoExpiry) /\ k \in DOMAIN e
    BY <2>3 DEF SetAll
  <2> QED
    BY <2>2, <2>4
<1>3. /\ DOMAIN e = DOMAIN d \cup named
      /\ \A k \in DOMAIN d \ named : e[k] = d[k]
  BY DEF SetAll
<1> HIDE DEF e
<1>4. \A i \in DOMAIN pairs : (\A j \in DOMAIN pairs : j > i => pairs[j][1] # pairs[i][1])
        => pairs[i][1] \in DOMAIN new /\ new[pairs[i][1]] = StringObject(pairs[i][2], NoExpiry)
  <2>1. \A v : ~IsExpired(StringObject(v, NoExpiry), t)
    BY DEF StringObject, IsExpired
  <2> QED
    BY <1>2, <2>1 DEF Live, Restrict
<1>5. Agree(d, view, t) /\ Timed(view)
  BY ViewAgrees
<1>6. \A k \in DOMAIN view : Promise!AliveAt(view[k], t) <=> ~IsExpired(view[k], t)
  BY <1>5, Times, SameTypes DEF Timed, IsExpired, Promise!AliveAt
<1> HIDE DEF view, named
<1>7. DOMAIN new \ named = {k \in DOMAIN view \ named : Promise!AliveAt(view[k], t)}
  BY <1>3, <1>5, <1>6 DEF Live, Restrict, Agree, Seen
<1>8. \A k \in DOMAIN new \ named : new[k] = view[k]
  BY <1>3, <1>5 DEF Live, Restrict, Agree, Seen
<1>9. Promise!Restrict(new, DOMAIN new \ named)
        = Promise!Restrict(view, {k \in DOMAIN view \ named : Promise!AliveAt(view[k], t)})
  <2> HIDE DEF new
  <2> QED
    BY <1>7, <1>8 DEF Promise!Restrict
<1>10. \A v : Promise!StringObject(v, Promise!NoExpiry) = StringObject(v, NoExpiry)
  BY DEF Promise!StringObject, StringObject, Promise!NoExpiry, NoExpiry
<1> HIDE DEF new
<1> QED
  BY <1>1, <1>4, <1>9, <1>10 DEF Promise!WrittenAll, view, named

(* Writing one string without a deadline is the promise's writing of a list  *)
(* of one pair.                                                              *)
LEMMA WritesOne ==
  ASSUME IInv, NEW t \in Later, NEW d, Purged(data, d, t), clock' = t,
         NEW k, NEW v, data' = Put(d, k, StringObject(v, NoExpiry))
  PROVE  Promise!WrittenAll(<< <<k, v>> >>)
<1> DEFINE pairs == << <<k, v>> >>
           Final(key, x) == pairs[x][1] = key /\ \A j \in DOMAIN pairs : pairs[j][1] = key => j <= x
           final(key) == CHOOSE x \in DOMAIN pairs : Final(key, x)
           named == {pairs[i][1] : i \in DOMAIN pairs}
<1>1. DOMAIN pairs = 1..1 /\ pairs[1][1] = k /\ pairs[1][2] = v
  OBVIOUS
<1> HIDE DEF pairs
<1>2. named = {k} /\ DOMAIN pairs = {1}
  BY <1>1
<1>3. final(k) = 1
  <2>1. Final(k, 1)
    BY <1>1, <1>2
  <2> HIDE DEF Final
  <2> QED
    BY <1>2, <2>1
<1>4. SetAll(d, pairs) = [x \in DOMAIN d \cup named |->
                            IF x \in named THEN StringObject(pairs[final(x)][2], NoExpiry) ELSE d[x]]
  BY DEF SetAll
<1> HIDE DEF final, named
<1>5. SetAll(d, pairs) = Put(d, k, StringObject(v, NoExpiry))
  BY <1>1, <1>2, <1>3, <1>4 DEF Put
<1>6. Promise!WrittenAll(pairs)
  BY <1>1, <1>5, WritesAll
<1> QED
  BY <1>6 DEF pairs

(* GETSET replies the old string and writes the new one without a deadline. *)
LEMMA GetSetRefines == ASSUME IInv, NEW k, NEW v, GetSet(k, v) PROVE Promise!SetPlain
<1>1. PICK t \in Later :
       LET call == <<"GETSET", k, v>>
           d == ExpireIfNeeded(data, k, t)
           new == Put(d, k, StringObject(v, NoExpiry))
       IN  \/ k \notin DOMAIN d /\ Done(call, t, new, NullReply)
           \/ IsOther(d, k) /\ Done(call, t, d, WrongType)
           \/ IsString(d, k) /\ Done(call, t, new, BulkReply(Payload(d[k])))
  BY DEF GetSet
<1> DEFINE d == ExpireIfNeeded(data, k, t)
           view == Live(data, clock)
           new == Put(d, k, StringObject(v, NoExpiry))
<1>2. /\ Purged(data, d, t)
      /\ (k \in DOMAIN d <=> Promise!Alive(k, t))
      /\ k \in DOMAIN d => d[k] = view[k]
  BY LookOnce
<1> HIDE DEF d, new
<1>3. /\ clock' = t /\ last'.call = <<"GETSET", k, v>>
      /\ \/ k \notin DOMAIN d /\ data' = new /\ last'.reply = NullReply
         \/ k \in DOMAIN d /\ Type(d[k]) # "string" /\ data' = d /\ last'.reply = WrongType
         \/ k \in DOMAIN d /\ Type(d[k]) = "string" /\ data' = new /\ last'.reply = BulkReply(Payload(d[k]))
  BY <1>1, DoneIs DEF IsOther, IsString, d, new
<1>4. data' = d => Promise!Same
  BY <1>2, <1>3, StaysSame
<1>5. data' = new => Promise!WrittenAll(<< <<k, v>> >>)
  BY <1>2, <1>3, WritesOne DEF new
<1>6. Promise!Called("GETSET") /\ Promise!Arg(1) = k /\ Promise!Arg(2) = v
  BY <1>3 DEF Promise!Called, Promise!Arg
<1>7. t \in Promise!Instants
  BY <1>3, NowIsAnInstant
<1>8. IF Promise!Alive(k, t) /\ Type(view[k]) # "string"
      THEN Promise!Replies(WrongType) /\ Promise!Same
      ELSE /\ Promise!Replies(IF Promise!Alive(k, t) THEN BulkReply(Payload(view[k])) ELSE NullReply)
           /\ Promise!WrittenAll(<< <<k, v>> >>)
  BY <1>2, <1>3, <1>4, <1>5 DEF Promise!Replies
<1> QED
  BY <1>6, <1>7, <1>8, SameTypes, SameReplies, SameErrors DEF Promise!SetPlain

(* SETNX writes only when the key is not seen. *)
LEMMA SetNxRefines == ASSUME IInv, NEW k, NEW v, SetNx(k, v) PROVE Promise!SetPlain
<1>1. PICK t \in Later :
       LET call == <<"SETNX", k, v>>
           d == ExpireIfNeeded(data, k, t)
       IN  \/ k \in DOMAIN d /\ Done(call, t, d, IntReply(0))
           \/ k \notin DOMAIN d /\ Done(call, t, Put(d, k, StringObject(v, NoExpiry)), IntReply(1))
  BY DEF SetNx
<1> DEFINE d == ExpireIfNeeded(data, k, t)
           new == Put(d, k, StringObject(v, NoExpiry))
<1>2. Purged(data, d, t) /\ (k \in DOMAIN d <=> Promise!Alive(k, t))
  BY LookOnce
<1> HIDE DEF d, new
<1>3. /\ clock' = t /\ last'.call = <<"SETNX", k, v>>
      /\ \/ k \in DOMAIN d /\ data' = d /\ last'.reply = IntReply(0)
         \/ k \notin DOMAIN d /\ data' = new /\ last'.reply = IntReply(1)
  BY <1>1, DoneIs DEF d, new
<1>4. data' = d => Promise!Same
  BY <1>2, <1>3, StaysSame
<1>5. data' = new => Promise!WrittenAll(<< <<k, v>> >>)
  BY <1>2, <1>3, WritesOne DEF new
<1>6. Promise!Called("SETNX") /\ Promise!Arg(1) = k /\ Promise!Arg(2) = v
  BY <1>3 DEF Promise!Called, Promise!Arg
<1>7. t \in Promise!Instants
  BY <1>3, NowIsAnInstant
<1>8. IF Promise!Alive(k, t) THEN Promise!Replies(IntReply(0)) /\ Promise!Same
      ELSE Promise!Replies(IntReply(1)) /\ Promise!WrittenAll(<< <<k, v>> >>)
  BY <1>2, <1>3, <1>4, <1>5 DEF Promise!Replies
<1> QED
  BY <1>6, <1>7, <1>8, SameReplies DEF Promise!SetPlain

(* MSET writes all its pairs, the last one naming a key winning. *)
LEMMA MSetRefines == ASSUME IInv, NEW pairs \in PairLists, MSet(pairs) PROVE Promise!SetPlain
<1>1. PICK t \in Later : Done(<<"MSET", pairs>>, t, SetAll(data, pairs), OkReply)
  BY DEF MSet
<1>2. /\ data' = SetAll(data, pairs) /\ clock' = t
      /\ last'.call = <<"MSET", pairs>> /\ last'.reply = OkReply
  BY <1>1, DoneIs
<1>3. Len(pairs) \in Nat /\ DOMAIN pairs = 1..Len(pairs)
  BY ArgumentsAssumption
<1>4. Promise!WrittenAll(pairs)
  BY <1>2, <1>3, NothingPurged, WritesAll
<1>5. Promise!Called("MSET") /\ Promise!Arg(1) = pairs /\ Promise!Replies(Promise!OkReply)
  BY <1>2, SameReplies DEF Promise!Called, Promise!Arg, Promise!Replies
<1> QED
  BY <1>4, <1>5 DEF Promise!SetPlain

(* MGET replies one entry for each key, each at its own instant, and a null  *)
(* for a key that holds no string.                                           *)
LEMMA MGetRefines == ASSUME IInv, NEW ks \in KeyLists, MGet(ks) PROVE Promise!Reads
<1> DEFINE view == Live(data, clock)
<1>1. Len(ks) \in Nat \ {0} /\ DOMAIN ks = 1..Len(ks)
  BY ArgumentsAssumption
<1>2. PICK t \in Readings(Len(ks)) :
       Done(<<"MGET", ks>>, t[Len(ks)], ExpireEach(data, ks, t),
            ArrayReply([i \in DOMAIN ks |->
                          IF Sees(data, ks[i], t[i]) /\ IsString(data, ks[i])
                          THEN BulkReply(Payload(data[ks[i]])) ELSE NullReply]))
  BY DEF MGet
<1> DEFINE got == [i \in DOMAIN ks |-> IF Sees(data, ks[i], t[i]) /\ IsString(data, ks[i])
                                       THEN BulkReply(Payload(data[ks[i]])) ELSE NullReply]
           shown == [i \in DOMAIN ks |-> IF Promise!Alive(ks[i], t[i]) /\ Type(view[ks[i]]) = "string"
                                         THEN BulkReply(Payload(view[ks[i]])) ELSE NullReply]
<1>3. /\ data' = ExpireEach(data, ks, t) /\ clock' = t[Len(ks)] /\ last'.call = <<"MGET", ks>>
      /\ last'.reply = ArrayReply(got)
  <2> HIDE DEF got
  <2> QED
    BY <1>2, DoneIs DEF got
<1>4. /\ t \in Promise!Instant(Len(ks)) /\ t[Len(ks)] \in Later
      /\ \A i \in DOMAIN ks : t[i] \in Later
  BY <1>1, <1>3, ReadingsAreInstants
<1>5. Promise!Same
  <2>1. Purged(data, ExpireEach(data, ks, t), t[Len(ks)])
    BY <1>1, LookEachPurges
  <2> QED
    BY <1>3, <1>4, <2>1, StaysSame
<1>6. \A i \in DOMAIN ks :
        /\ Sees(data, ks[i], t[i]) <=> Promise!Alive(ks[i], t[i])
        /\ Promise!Alive(ks[i], t[i]) => view[ks[i]] = data[ks[i]] /\ ks[i] \in DOMAIN data
  BY <1>4, SeesWhatIsAlive, LookPurges DEF Sees, Seen
<1>7. got = shown
  <2> SUFFICES ASSUME NEW i \in DOMAIN ks
               PROVE  got[i] = shown[i]
    OBVIOUS
  <2> QED
    BY <1>6 DEF IsString
<1>8. Promise!Called("MGET") /\ Promise!Arg(1) = ks
  BY <1>3 DEF Promise!Called, Promise!Arg
<1>9. Promise!Replies(Promise!ArrayReply(shown))
  BY <1>3, <1>7, SameReplies DEF Promise!Replies
<1> DEFINE said == [i \in DOMAIN ks |-> IF Promise!Alive(ks[i], t[i]) /\ Promise!Type(view[ks[i]]) = "string"
                                        THEN Promise!BulkReply(Promise!Payload(view[ks[i]])) ELSE Promise!NullReply]
<1>10. shown = said
  BY SameTypes, SameReplies
<1> HIDE DEF shown
<1> QED
  BY <1>4, <1>5, <1>8, <1>9, <1>10 DEF Promise!Reads

(* Looks at the first keys of a list. *)
LEMMA LookSomePurges ==
  ASSUME IInv, NEW n \in Nat \ {0}, NEW t \in Readings(n), NEW i \in 1..n, NEW ks, DOMAIN ks = 1..i
  PROVE  Purged(data, ExpireEach(data, ks, t), t[i])
<1>1. \A j \in 1..i : t[j] \in Int /\ t[i] \in Int /\ t[j] <= t[i]
  <2>1. \A j \in 1..n : t[j] \in Later
    BY DEF Readings
  <2>2. \A j \in 1..i : j \in 1..n /\ j <= i
    OBVIOUS
  <2>3. \A j \in 1..i : t[j] <= t[i]
    BY <2>2 DEF Readings
  <2> QED
    BY <2>1, <2>2, <2>3, Times
<1>2. Timed(data)
  BY SoundIsTimed DEF IInv
<1> QED
  BY <1>1, <1>2 DEF Purged, ExpireEach, Restrict, Timed, IsExpired

(* The looks of a command that stopped at the i-th: the rest of the readings *)
(* it might have made stand still.                                           *)
LEMMA StoppedInstants ==
  ASSUME IInv, NEW n \in Nat \ {0}, NEW t \in Readings(n), NEW i \in 1..n, clock' = t[i]
  PROVE  LET s == [j \in 1..n |-> IF j <= i THEN t[j] ELSE t[i]]
         IN  /\ s \in Promise!Instant(n) /\ t[i] \in Later
             /\ \A j \in 1..i : s[j] = t[j]
<1> DEFINE s == [j \in 1..n |-> IF j <= i THEN t[j] ELSE t[i]]
<1>1. \A j \in 1..n : t[j] \in Later
  BY DEF Readings
<1>2. \A j, m \in 1..n : j <= m => t[j] <= t[m]
  BY DEF Readings
<1>3. \A j \in 1..n : s[j] \in Later /\ s[j] <= t[i]
  BY <1>1, <1>2, Times
<1>4. \A j \in 1..n : s[j] \in Promise!Instants
  BY <1>1, <1>3, InstantOf
<1>5. \A j \in 2..n : s[j - 1] <= s[j]
  <2> SUFFICES ASSUME NEW j \in 2..n PROVE s[j - 1] <= s[j]
    OBVIOUS
  <2>1. j - 1 \in 1..n /\ j \in 1..n /\ j - 1 <= j
    OBVIOUS
  <2>2. t[j - 1] \in Int /\ t[j] \in Int /\ t[i] \in Int
    BY <2>1, <1>1, Times
  <2> QED
    BY <2>1, <2>2, <1>2
<1>6. s \in [1..n -> Promise!Instants]
  BY <1>4
<1>7. \A j \in 1..i : s[j] = t[j]
  OBVIOUS
<1> HIDE DEF s
<1>8. s \in Promise!Instant(n)
  BY <1>5, <1>6 DEF Promise!Instant
<1> QED
  BY <1>1, <1>7, <1>8 DEF s

(* MSETNX writes all its pairs or none: it writes when at no look any of its *)
(* keys was seen.                                                            *)
LEMMA MSetNxRefines == ASSUME IInv, NEW pairs \in PairLists, MSetNx(pairs) PROVE Promise!SetPlain
<1> DEFINE n == Len(pairs)
           ks == [i \in DOMAIN pairs |-> pairs[i][1]]
<1>1. n \in Nat \ {0} /\ DOMAIN pairs = 1..n /\ ks \in Seq(Keys) /\ Len(ks) = n
  <2>1. pairs \in Seq(Keys \X Str) /\ pairs # <<>>
    BY ArgumentsAssumption
  <2> QED
    BY <2>1
<1>2. PICK t \in Readings(n) :
       LET call == <<"MSETNX", pairs>>
           seen == {i \in DOMAIN ks : Sees(data, ks[i], t[i])}
       IN  \/ \E i \in seen :
                /\ \A j \in seen : i <= j
                /\ Done(call, t[i], ExpireEach(data, SubSeq(ks, 1, i), t), IntReply(0))
           \/ /\ seen = {}
              /\ Done(call, t[Len(ks)], SetAll(ExpireEach(data, ks, t), pairs), IntReply(1))
  BY DEF MSetNx
<1>3. \A i \in 1..n : t[i] \in Later
  BY DEF Readings
<1>4. \A i \in 1..n : Sees(data, pairs[i][1], t[i]) <=> Promise!Alive(pairs[i][1], t[i])
  BY <1>3, SeesWhatIsAlive, LookPurges DEF Sees
<1>5. ASSUME NEW i \in 1..n, Sees(data, pairs[i][1], t[i]),
             Done(<<"MSETNX", pairs>>, t[i], ExpireEach(data, SubSeq(ks, 1, i), t), IntReply(0))
      PROVE  Promise!SetPlain
  <2> DEFINE s == [j \in 1..n |-> IF j <= i THEN t[j] ELSE t[i]]
             looked == SubSeq(ks, 1, i)
  <2>1. DOMAIN looked = 1..i
    <3> HIDE DEF ks
    <3> QED
      BY <1>1
  <2> HIDE DEF looked, n
  <2>2. /\ data' = ExpireEach(data, looked, t) /\ clock' = t[i]
        /\ last'.call = <<"MSETNX", pairs>> /\ last'.reply = IntReply(0)
    BY <1>5, DoneIs DEF looked
  <2>3. Purged(data, ExpireEach(data, looked, t), t[i])
    BY <1>1, <2>1, LookSomePurges
  <2>4. Promise!Same
    BY <1>3, <2>2, <2>3, StaysSame
  <2>5. s \in Promise!Instant(n) /\ s[i] = t[i]
    BY <1>1, <2>2, StoppedInstants
  <2>6. Promise!Alive(pairs[i][1], s[i])
    BY <1>4, <1>5, <2>5
  <2>7. Promise!Called("MSETNX") /\ Promise!Arg(1) = pairs /\ Promise!Replies(Promise!IntReply(0))
    BY <2>2, SameReplies DEF Promise!Called, Promise!Arg, Promise!Replies
  <2> HIDE DEF s
  <2> QED
    BY <1>1, <2>4, <2>5, <2>6, <2>7 DEF Promise!SetPlain, n
<1>6. ASSUME \A i \in 1..n : ~Sees(data, pairs[i][1], t[i]),
             Done(<<"MSETNX", pairs>>, t[n], SetAll(ExpireEach(data, ks, t), pairs), IntReply(1))
      PROVE  Promise!SetPlain
  <2>1. DOMAIN ks = 1..n
    BY <1>1
  <2> HIDE DEF ks, n
  <2>2. /\ data' = SetAll(ExpireEach(data, ks, t), pairs) /\ clock' = t[n]
        /\ last'.call = <<"MSETNX", pairs>> /\ last'.reply = IntReply(1)
    BY <1>6, DoneIs
  <2>3. Purged(data, ExpireEach(data, ks, t), t[n])
    BY <1>1, <2>1, LookEachPurges
  <2>4. Promise!WrittenAll(pairs)
    BY <1>1, <1>3, <2>2, <2>3, WritesAll
  <2>5. t \in Promise!Instant(n)
    BY <1>1, <2>2, ReadingsAreInstants
  <2>6. \A i \in DOMAIN pairs : ~Promise!Alive(pairs[i][1], t[i])
    BY <1>1, <1>4, <1>6
  <2>7. Promise!Called("MSETNX") /\ Promise!Arg(1) = pairs /\ Promise!Replies(Promise!IntReply(1))
    BY <2>2, SameReplies DEF Promise!Called, Promise!Arg, Promise!Replies
  <2> QED
    BY <2>4, <2>5, <2>6, <2>7 DEF Promise!SetPlain, n
<1>7. DOMAIN ks = 1..n /\ \A i \in 1..n : ks[i] = pairs[i][1]
  BY <1>1
<1> HIDE DEF ks
<1> QED
  BY <1>1, <1>2, <1>5, <1>6, <1>7

-----------------------------------------------------------------------------
(* Sums that wrap. *)

(* Division with remainder is unique: a lemma about %, to reason about       *)
(* wrapping.                                                                 *)
LEMMA Remainder ==
  ASSUME NEW n \in Int, NEW m \in Nat \ {0}, NEW q \in Int, NEW r \in 0..m - 1, n = m * q + r
  PROVE  n % m = r
OBVIOUS

(* It also exists. *)
LEMMA QuotientAndRemainder ==
  ASSUME NEW n \in Int, NEW m \in Nat \ {0}
  PROVE  \E q \in Int, r \in 0..m - 1 : n = m * q + r /\ n % m = r
<1>1. n \div m \in Int
  OBVIOUS
<1>2. n % m \in 0..m - 1
  OBVIOUS
<1>3. n = m * (n \div m) + (n % m)
  OBVIOUS
<1> QED
  BY <1>1, <1>2, <1>3

(* The product may wrap before the sum does. *)
LEMMA WrapsOnce ==
  ASSUME NEW a \in Int, NEW b \in Int
  PROVE  Wrap(a + Wrap(b)) = Wrap(a + b)
<1> DEFINE H == LLMax + 1
           M == 2 * (LLMax + 1)
<1>1. H \in Nat \ {0} /\ M \in Nat \ {0}
  BY LongLongAssumption
<1>2. \A n \in Int : Wrap(n) = ((n + H) % M) - H
  BY LongLongAssumption DEF Wrap
<1> HIDE DEF H, M
<1>3. PICK x \in Int : x = b + H
  BY <1>1
<1>4. PICK q \in Int, r \in 0..M - 1 : x = M * q + r /\ x % M = r
  BY <1>1, QuotientAndRemainder
<1>5. PICK w \in Int : w = Wrap(b) /\ w = r - H
  BY <1>1, <1>2, <1>3, <1>4
<1>6. PICK y \in Int : y = a + b + H
  BY <1>1
<1>7. PICK p \in Int, s \in 0..M - 1 : y = M * p + s /\ y % M = s
  BY <1>1, QuotientAndRemainder
<1>8. M * (p - q) = M * p - M * q
  BY <1>1
<1>9. a + w + H = M * (p - q) + s
  BY <1>1, <1>3, <1>4, <1>5, <1>6, <1>7, <1>8
<1>10. (a + w + H) % M = s
  <2>1. a + w + H \in Int /\ p - q \in Int
    BY <1>1
  <2> QED
    BY <2>1, <1>1, <1>9, Remainder
<1>11. a + b \in Int /\ a + w \in Int /\ (a + b) + H = y
  BY <1>1, <1>6
<1> QED
  BY <1>2, <1>5, <1>7, <1>10, <1>11

(* A number that fits a `long long` is not changed by wrapping. *)
LEMMA WrapLeaves == ASSUME NEW n \in LongLong PROVE Wrap(n) = n
<1> DEFINE M == 2 * (LLMax + 1)
           r == n + LLMax + 1
<1>1. M \in Nat \ {0} /\ r \in 0..M - 1 /\ n \in Int
  BY LongLongAssumption DEF LongLong
<1>2. Wrap(n) = (r % M) - (LLMax + 1)
  BY DEF Wrap
<1>3. r = M * 0 + r
  BY <1>1
<1>4. r % M = r
  <2> HIDE DEF M, r
  <2>1. r \in Int
    BY <1>1
  <2> QED
    BY <1>1, <1>3, <2>1, Remainder
<1> QED
  BY <1>1, <1>2, <1>4, LongLongAssumption

-----------------------------------------------------------------------------
(* The reply to an amount of time that is not positive. *)
BadTime == ErrReply("invalid expire time")

(* What the promise says of SETEX and PSETEX, without the call's arguments. *)
SetsFor(k, v, n, unit) ==
  IF n = NotNumber THEN last'.reply = NotInteger /\ Promise!Same
  ELSE IF n <= 0 THEN last'.reply = BadTime /\ Promise!Same
  ELSE /\ last'.reply = OkReply
       /\ \E t \in Promise!Instants :
            Promise!Becomes(Promise!With(k, <<"string", v>>, Wrap(t + n * unit)))

(* The handler that SETEX and PSETEX share does that. *)
LEMMA SetForDoes ==
  ASSUME IInv, NEW call, NEW k, NEW v, NEW n \in LongLong \cup {NotNumber}, NEW unit \in Int,
         SetFor(call, k, v, n, unit)
  PROVE  /\ last'.call = call
         /\ SetsFor(k, v, n, unit)
<1>1. PICK t \in Later :
        \/ n = NotNumber /\ Done(call, t, data, NotInteger)
        \/ n \in LongLong /\ n <= 0 /\ Done(call, t, data, BadTime)
        \/ /\ n \in LongLong /\ n > 0
           /\ Done(call, t, Put(data, k, StringObject(v, Wrap(t + Wrap(n * unit)))), OkReply)
  BY DEF SetFor, BadTime
<1>2. n \in LongLong => n # NotNumber /\ n \in Int
  BY NotNumberAssumption DEF LongLong
<1>3. CASE n = NotNumber
  <2>1. Done(call, t, data, NotInteger)
    BY <1>1, <1>2, <1>3
  <2> QED
    BY <2>1, <1>3, Untouched DEF SetsFor
<1>4. CASE n \in LongLong /\ n <= 0
  <2>1. Done(call, t, data, BadTime)
    BY <1>1, <1>2, <1>4
  <2> QED
    BY <2>1, <1>2, <1>4, Untouched DEF SetsFor
<1>5. CASE n \in LongLong /\ n > 0
  <2> DEFINE e == Wrap(t + n * unit)
  <2>1. Done(call, t, Put(data, k, StringObject(v, Wrap(t + Wrap(n * unit)))), OkReply)
    BY <1>1, <1>2, <1>5
  <2>2. t \in Int /\ n * unit \in Int
    BY <1>2, <1>5, Times
  <2>3. Wrap(t + Wrap(n * unit)) = e
    BY <2>2, WrapsOnce
  <2>4. e \in Int
    <3>1. t + n * unit \in Int
      BY <2>2
    <3> QED
      BY <3>1, WrapInRange, LongLongAssumption DEF LongLong
  <2> HIDE DEF e
  <2>5. /\ data' = Put(data, k, [value |-> <<"string", v>>, expiresAt |-> e])
        /\ clock' = t /\ last'.call = call /\ last'.reply = OkReply
    BY <2>1, <2>3, DoneIs DEF StringObject
  <2>6. Promise!Becomes(Promise!With(k, <<"string", v>>, e))
    BY <2>4, <2>5, NothingPurged, BecomesWith
  <2>7. t \in Promise!Instants
    BY <2>5, NowIsAnInstant
  <2> QED
    BY <1>2, <1>5, <2>5, <2>6, <2>7 DEF e, SetsFor
<1> QED
  BY <1>2, <1>3, <1>4, <1>5 DEF LongLong

(* And that is the promise's step. *)
LEMMA SetForIs ==
  ASSUME NEW name \in {"SETEX", "PSETEX"}, NEW k, NEW s, NEW v, NEW n, NEW unit,
         n = FromChars(s), unit = IF name = "SETEX" THEN Sec ELSE 1,
         last'.call = <<name, k, s, v>>,
         SetsFor(k, v, n, unit)
  PROVE  Promise!SetForAWhile
<1>1. Promise!Called(name) /\ Promise!Arg(1) = k /\ Promise!Arg(2) = s /\ Promise!Arg(3) = v
  BY DEF Promise!Called, Promise!Arg
<1>2. \A t : Promise!Deadline(n, unit, t) = Wrap(t + n * unit)
  BY SameTypes DEF Promise!Deadline
<1>3. Promise!ErrReply("invalid expire time") = BadTime
  BY DEF BadTime, ErrReply, Promise!ErrReply
<1>4. IF n = NotNumber THEN Promise!Replies(Promise!NotInteger) /\ Promise!Same
      ELSE IF n <= 0 THEN Promise!Replies(BadTime) /\ Promise!Same
      ELSE /\ Promise!Replies(Promise!OkReply)
           /\ \E t \in Promise!Instants :
                Promise!Becomes(Promise!With(k, <<"string", v>>, Promise!Deadline(n, unit, t)))
  BY <1>2, SameErrors, SameReplies DEF Promise!Replies, SetsFor
<1> QED
  BY <1>1, <1>3, <1>4 DEF Promise!SetForAWhile

(* SETEX and PSETEX are steps of the promise; their deadline wraps, as the   *)
(* code's addition does.                                                     *)
LEMMA SetForRefines ==
  ASSUME IInv, NEW k, NEW s \in Str, NEW v, SetEx(k, s, v) \/ PSetEx(k, s, v)
  PROVE  Promise!SetForAWhile
<1>1. FromChars(s) \in LongLong \cup {NotNumber} /\ Sec \in Int /\ 1 \in Int
  BY FromCharsType, SecAssumption
<1>2. CASE SetEx(k, s, v)
  <2>1. SetFor(<<"SETEX", k, s, v>>, k, v, FromChars(s), Sec)
    BY <1>2 DEF SetEx
  <2>2. last'.call = <<"SETEX", k, s, v>> /\ SetsFor(k, v, FromChars(s), Sec)
    BY <2>1, <1>1, SetForDoes
  <2> QED
    BY <2>2, SetForIs
<1>3. CASE PSetEx(k, s, v)
  <2>1. SetFor(<<"PSETEX", k, s, v>>, k, v, FromChars(s), 1)
    BY <1>3 DEF PSetEx
  <2>2. last'.call = <<"PSETEX", k, s, v>> /\ SetsFor(k, v, FromChars(s), 1)
    BY <2>1, <1>1, SetForDoes
  <2> QED
    BY <2>2, SetForIs
<1> QED
  BY <1>2, <1>3

(* A writer of one look that puts a value of its type and keeps the deadline. *)
UpdateOnce(call, k, t, type, p, reply) ==
  LET d == ExpireIfNeeded(data, k, t)
  IN  \/ k \in DOMAIN d /\ Type(d[k]) # type /\ Done(call, t, d, WrongType)
      \/ /\ ~(k \in DOMAIN d /\ Type(d[k]) # type)
         /\ Done(call, t, Put(d, k, [value |-> <<type, p>>, expiresAt |-> ExpiryOr(d, k)]), reply)

(* What it puts, in the words of the promise. *)
Updated(k, t, type, p, reply) ==
  LET view == Live(data, clock)
  IN  IF Promise!Alive(k, t) /\ Type(view[k]) # type
      THEN last'.reply = WrongType /\ Promise!Same
      ELSE /\ last'.reply = reply
           /\ Promise!Becomes(Promise!With(k, <<type, p>>,
                IF Promise!Alive(k, t) THEN view[k].expiresAt ELSE NoExpiry))

(* A command that looks once, then changes the payload of the object seen or *)
(* makes a new one, updates the view so.                                     *)
LEMMA UpdatesOnce ==
  ASSUME IInv, NEW t \in Later,
         NEW call, NEW k, NEW type, NEW p, NEW reply, UpdateOnce(call, k, t, type, p, reply)
  PROVE  t \in Promise!Instants /\ last'.call = call /\ Updated(k, t, type, p, reply)
<1> DEFINE d == ExpireIfNeeded(data, k, t)
           view == Live(data, clock)
           e == IF Promise!Alive(k, t) THEN view[k].expiresAt ELSE NoExpiry
           new == Put(d, k, [value |-> <<type, p>>, expiresAt |-> e])
<1>1. /\ Purged(data, d, t)
      /\ (k \in DOMAIN d <=> Promise!Alive(k, t))
      /\ k \in DOMAIN d => d[k] = view[k]
  BY LookOnce
<1>2. SoundStore(d)
  BY LookSound DEF IInv
<1> HIDE DEF d
<1>3. ExpiryOr(d, k) = e
  BY <1>1 DEF ExpiryOr
<1>4. e \in Int
  <2>1. Timed(d)
    BY <1>2, SoundIsTimed
  <2> QED
    BY <1>1, <2>1 DEF Timed, NoExpiry
<1> HIDE DEF e
<1>5. \/ k \in DOMAIN d /\ Type(d[k]) # type /\ Done(call, t, d, WrongType)
      \/ ~(k \in DOMAIN d /\ Type(d[k]) # type) /\ Done(call, t, new, reply)
  BY <1>3 DEF UpdateOnce, d
<1> HIDE DEF new
<1>6. /\ clock' = t /\ last'.call = call
      /\ \/ k \in DOMAIN d /\ Type(d[k]) # type /\ data' = d /\ last'.reply = WrongType
         \/ ~(k \in DOMAIN d /\ Type(d[k]) # type) /\ data' = new /\ last'.reply = reply
  BY <1>5, DoneIs
<1>7. t \in Promise!Instants
  BY <1>6, NowIsAnInstant
<1>8. data' = d => Promise!Same
  BY <1>1, <1>6, StaysSame
<1>9. data' = new => Promise!Becomes(Promise!With(k, <<type, p>>, e))
  BY <1>1, <1>4, <1>6, BecomesWith DEF new
<1> QED
  BY <1>1, <1>6, <1>7, <1>8, <1>9 DEF Updated, e

(* Writing back what is there changes nothing. *)
LEMMA PutBack ==
  ASSUME NEW d, SoundStore(d), NEW k \in DOMAIN d
  PROVE  Put(d, k, [value |-> <<Type(d[k]), Payload(d[k])>>, expiresAt |-> d[k].expiresAt]) = d
<1>1. d[k] \in Object /\ d = [x \in DOMAIN d |-> d[x]]
  BY DEF SoundStore, Sound
<1>2. d[k].value = <<Type(d[k]), Payload(d[k])>>
  BY <1>1 DEF Object, Value, Type, Payload
<1>3. d[k] = [value |-> d[k].value, expiresAt |-> d[k].expiresAt]
  BY <1>1 DEF Object
<1>4. DOMAIN d \cup {k} = DOMAIN d
  OBVIOUS
<1> QED
  BY <1>1, <1>2, <1>3, <1>4 DEF Put

(* Writing the value of a key that is there keeps its deadline. *)
LEMMA SetValueIs ==
  ASSUME NEW d, SoundStore(d), NEW k \in DOMAIN d, NEW v
  PROVE  SetValue(d, k, v) = Put(d, k, [value |-> v, expiresAt |-> d[k].expiresAt])
<1>1. [d[k] EXCEPT !.value = v] = [value |-> v, expiresAt |-> d[k].expiresAt]
  BY DEF SoundStore, Sound, Object
<1>2. [d EXCEPT ![k] = [d[k] EXCEPT !.value = v]] = SetValue(d, k, v)
  BY DEF SetValue
<1> QED
  BY <1>1, <1>2 DEF Put

(* doIncrLike, in the words of the promise. *)
LEMMA IncrLikeSums ==
  ASSUME NEW s \in Str, NEW n \in LongLong
  PROVE  LET r == DoIncrLike(s, n)
         IN  /\ r.error = "none" => /\ FromChars(s) # NotNumber
                                    /\ FromChars(s) + n \in LongLong /\ r.number = FromChars(s) + n
             /\ r.error = "overflow" => FromChars(s) # NotNumber /\ FromChars(s) + n \notin LongLong
             /\ r.error \notin {"none", "overflow"} =>
                  FromChars(s) = NotNumber /\ ErrReply(r.error) = NotInteger
<1> DEFINE f == FromChars(s)
           overflows == \/ n > 0 /\ f > LLMax - n
                        \/ n < 0 /\ f < (-LLMax - 1) - n
           r == DoIncrLike(s, n)
<1>1. f \in LongLong \cup {NotNumber} /\ NotNumber \notin LongLong
  BY FromCharsType, NotNumberAssumption DEF LongLong
<1>2. r = IF f = NotNumber THEN [error |-> "not an integer", number |-> 0]
          ELSE IF overflows THEN [error |-> "overflow", number |-> 0]
          ELSE [error |-> "none", number |-> f + n]
  BY DEF DoIncrLike
<1> HIDE DEF r
<1>3. f # NotNumber => (overflows <=> f + n \notin LongLong)
  BY <1>1, LongLongAssumption DEF LongLong
<1> HIDE DEF f, overflows
<1> SUFFICES
      /\ r.error = "none" => f # NotNumber /\ f + n \in LongLong /\ r.number = f + n
      /\ r.error = "overflow" => f # NotNumber /\ f + n \notin LongLong
      /\ r.error \notin {"none", "overflow"} => f = NotNumber /\ ErrReply(r.error) = NotInteger
  BY DEF f, r
<1>4. CASE f = NotNumber
  BY <1>2, <1>4 DEF ErrReply, NotInteger
<1>5. CASE f # NotNumber /\ overflows
  BY <1>2, <1>3, <1>5
<1>6. CASE f # NotNumber /\ ~overflows
  BY <1>2, <1>3, <1>6
<1> QED
  BY <1>4, <1>5, <1>6

(* What an increment makes of a string, and replies. *)
NewText(s, n) == Promise!SumText(s, n)
(* The reply to an increment of the text s by n. *)
NewReply(s, n) == Promise!SumReply(s, n)

(* doIncrLike computes the promise's sum: the text and the reply on success, *)
(* the text unchanged and an error on a bad number or an overflow.           *)
LEMMA SumsAre ==
  ASSUME NEW s \in Str, NEW n \in LongLong
  PROVE  LET r == DoIncrLike(s, n)
         IN  /\ r.error = "none" => /\ NewText(s, n) = ToChars(r.number)
                                    /\ NewReply(s, n) = IntReply(r.number)
             /\ r.error # "none" => NewText(s, n) = s /\ NewReply(s, n) = ErrReply(r.error)
<1> DEFINE r == DoIncrLike(s, n)
           f == FromChars(s)
<1>1. /\ r.error = "none" => f # NotNumber /\ f + n \in LongLong /\ r.number = f + n
      /\ r.error = "overflow" => f # NotNumber /\ f + n \notin LongLong
      /\ r.error \notin {"none", "overflow"} => f = NotNumber /\ ErrReply(r.error) = NotInteger
  BY IncrLikeSums
<1>2. NotNumber \notin LongLong
  BY NotNumberAssumption DEF LongLong
<1>3. Promise!LongLong = LongLong
  BY DEF Promise!LongLong, LongLong
<1> HIDE DEF r
<1>4. CASE r.error = "none"
  BY <1>1, <1>2, <1>3, <1>4, SameReplies
     DEF NewText, NewReply, Promise!SumText, Promise!SumReply, Promise!Sum, r
<1>5. CASE r.error = "overflow"
  BY <1>1, <1>2, <1>3, <1>5, SameReplies
     DEF NewText, NewReply, Promise!SumText, Promise!SumReply, Promise!Sum, r
<1>6. CASE r.error \notin {"none", "overflow"}
  BY <1>1, <1>2, <1>3, <1>6, SameErrors
     DEF NewText, NewReply, Promise!SumText, Promise!SumReply, Promise!Sum, r
<1> QED
  BY <1>4, <1>5, <1>6

(* The text an increment starts from, "0", reads as zero. *)
LEMMA ZeroIsZero == ToChars(0) \in Str /\ FromChars(ToChars(0)) = 0
BY LongLongAssumption, ToCharsAssumption DEF LongLong

(* An increment as the update of a string. *)
LEMMA IncrementUpdates ==
  ASSUME IInv, NEW call, NEW k \in Keys, NEW n \in LongLong, IncrementBy(call, k, n)
  PROVE  \E t \in Later :
           LET old == IF Promise!Alive(k, t) THEN Payload(Live(data, clock)[k]) ELSE ToChars(0)
           IN  UpdateOnce(call, k, t, "string", NewText(old, n), NewReply(old, n))
<1>1. PICK t \in Later :
    LET d == ExpireIfNeeded(data, k, t)
        e == IF k \in DOMAIN d THEN d ELSE Put(d, k, StringObject(ToChars(0), NoExpiry))
        r == DoIncrLike(Payload(e[k]), n)
    IN  \/ IsOther(d, k) /\ Done(call, t, d, WrongType)
        \/ ~IsOther(d, k) /\ r.error # "none" /\ Done(call, t, e, ErrReply(r.error))
        \/ /\ ~IsOther(d, k) /\ r.error = "none"
           /\ Done(call, t, SetValue(e, k, <<"string", ToChars(r.number)>>), IntReply(r.number))
  BY DEF IncrementBy
<1> DEFINE d == ExpireIfNeeded(data, k, t)
           e == IF k \in DOMAIN d THEN d ELSE Put(d, k, StringObject(ToChars(0), NoExpiry))
           s == Payload(e[k])
           r == DoIncrLike(s, n)
           old == IF Promise!Alive(k, t) THEN Payload(Live(data, clock)[k]) ELSE ToChars(0)
           new == Put(d, k, [value |-> <<"string", NewText(s, n)>>, expiresAt |-> ExpiryOr(d, k)])
<1>2. SoundStore(d)
  BY LookSound DEF IInv
<1>3. (k \in DOMAIN d <=> Promise!Alive(k, t)) /\ (k \in DOMAIN d => d[k] = Live(data, clock)[k])
  BY LookOnce
<1>4. \/ IsOther(d, k) /\ Done(call, t, d, WrongType)
      \/ ~IsOther(d, k) /\ r.error # "none" /\ Done(call, t, e, ErrReply(r.error))
      \/ /\ ~IsOther(d, k) /\ r.error = "none"
         /\ Done(call, t, SetValue(e, k, <<"string", ToChars(r.number)>>), IntReply(r.number))
  BY <1>1
<1> HIDE DEF d
<1>5. s = old
  BY <1>3 DEF Put, StringObject, Payload
<1>6. ASSUME ~IsOther(d, k)
      PROVE  /\ SoundStore(e) /\ k \in DOMAIN e /\ Type(e[k]) = "string"
             /\ e[k].expiresAt = ExpiryOr(d, k) /\ \A o : Put(e, k, o) = Put(d, k, o)
  <2>1. CASE k \in DOMAIN d
    BY <2>1, <1>2, <1>6 DEF IsOther, ExpiryOr
  <2>2. CASE k \notin DOMAIN d
    <3>1. SoundStore(e)
      BY <2>2, <1>2, ZeroText, NoExpiryInRange, SoundString, PutSound
    <3>2. k \in DOMAIN e /\ e[k] = StringObject(ToChars(0), NoExpiry)
      BY <2>2 DEF Put
    <3>3. \A o : Put(e, k, o) = Put(d, k, o)
      BY <2>2 DEF Put
    <3> QED
      BY <2>2, <3>1, <3>2, <3>3 DEF StringObject, Type, ExpiryOr
  <2> QED
    BY <2>1, <2>2
<1> HIDE DEF e
<1>7. ASSUME ~IsOther(d, k)
      PROVE  s \in Str
  BY <1>6, <1>7, PayloadType DEF SoundStore
<1> HIDE DEF s, r
<1>8. CASE IsOther(d, k)
  BY <1>4, <1>8 DEF UpdateOnce, IsOther, d
<1>9. CASE ~IsOther(d, k) /\ r.error = "none"
  <2>1. NewText(s, n) = ToChars(r.number) /\ NewReply(s, n) = IntReply(r.number)
    BY <1>7, <1>9, SumsAre DEF r
  <2>2. SetValue(e, k, <<"string", ToChars(r.number)>>) = new
    BY <1>6, <1>9, <2>1, SetValueIs
  <2>3. Done(call, t, new, NewReply(s, n))
    BY <1>4, <1>9, <2>1, <2>2
  <2> QED
    BY <1>5, <1>9, <2>3 DEF UpdateOnce, IsOther, d
<1>10. CASE ~IsOther(d, k) /\ r.error # "none"
  <2>1. NewText(s, n) = s /\ NewReply(s, n) = ErrReply(r.error)
    BY <1>7, <1>10, SumsAre DEF r
  <2>2. Put(e, k, [value |-> <<Type(e[k]), Payload(e[k])>>, expiresAt |-> e[k].expiresAt]) = e
    BY <1>6, <1>10, PutBack
  <2>3. e = new
    BY <1>6, <1>10, <2>1, <2>2 DEF s
  <2>4. Done(call, t, new, NewReply(s, n))
    BY <1>4, <1>10, <2>1, <2>3
  <2> QED
    BY <1>5, <1>10, <2>4 DEF UpdateOnce, IsOther, d
<1> QED
  BY <1>8, <1>9, <1>10

(* What the promise says of the four increments, its choices made. *)
LEMMA IncrementIs ==
  ASSUME NEW name \in {"INCR", "DECR", "INCRBY", "DECRBY"}, NEW k, NEW n, NEW t \in Promise!Instants,
         last'.call[1] = name, last'.call[2] = k,
         name \in {"INCRBY", "DECRBY"} => FromChars(last'.call[3]) # NotNumber,
         n = LET arg == IF name \in {"INCR", "DECR"} THEN 1 ELSE FromChars(last'.call[3])
             IN  IF name \in {"DECR", "DECRBY"} THEN Wrap(-arg) ELSE arg,
         LET old == IF Promise!Alive(k, t) THEN Payload(Live(data, clock)[k]) ELSE ToChars(0)
         IN  Updated(k, t, "string", NewText(old, n), NewReply(old, n))
  PROVE  Promise!Updates
<1> DEFINE view == Live(data, clock)
           arg == IF name \in {"INCR", "DECR"} THEN 1 ELSE FromChars(last'.call[3])
           old == IF Promise!Alive(k, t) THEN Payload(view[k]) ELSE ToChars(0)
           e == IF Promise!Alive(k, t) THEN view[k].expiresAt ELSE Promise!NoExpiry
<1>1. Promise!Called(name) /\ Promise!Arg(1) = k /\ Promise!Arg(2) = last'.call[3]
  BY DEF Promise!Called, Promise!Arg
<1>2. arg # NotNumber
  BY NotNumberAssumption
<1>3. n = IF name \in {"DECR", "DECRBY"} THEN Promise!Wrap(-arg) ELSE arg
  BY SameTypes
<1>4. IF Promise!Alive(k, t) /\ Promise!Type(view[k]) # "string"
      THEN Promise!Replies(Promise!WrongType) /\ Promise!Same
      ELSE /\ Promise!Replies(Promise!SumReply(old, n))
           /\ Promise!Becomes(Promise!With(k, <<"string", Promise!SumText(old, n)>>, e))
  BY SameTypes, SameErrors DEF Updated, Promise!Replies, NewText, NewReply
<1>5. old = IF Promise!Alive(k, t) THEN Promise!Payload(view[k]) ELSE ToChars(0)
  BY SameTypes
<1> HIDE DEF arg, old, e
<1>6. arg = IF name \in {"INCR", "DECR"} THEN 1 ELSE FromChars(Promise!Arg(2))
  BY <1>1 DEF arg
<1>7. LET a == IF name \in {"INCR", "DECR"} THEN 1 ELSE FromChars(Promise!Arg(2))
          delta == IF name \in {"DECR", "DECRBY"} THEN Promise!Wrap(-a) ELSE a
          new(s) == Promise!SumText(s, delta)  sum(s) == Promise!SumReply(s, delta)
      IN  IF a = NotNumber THEN Promise!Replies(Promise!NotInteger) /\ Promise!Same
          ELSE Promise!TypedUpdate("string", ToChars(0), new, sum)
  BY <1>1, <1>2, <1>3, <1>4, <1>5, <1>6 DEF Promise!TypedUpdate, e
<1> QED
  BY <1>1, <1>7 DEF Promise!Updates

(* INCR, DECR, INCRBY and DECRBY are updates of the promise. *)
LEMMA IncrementsRefine ==
  ASSUME IInv, NEW k \in Keys, NEW s \in Str, Incr(k) \/ Decr(k) \/ IncrBy(k, s) \/ DecrBy(k, s)
  PROVE  Promise!Updates
<1>1. FromChars(s) \in LongLong \cup {NotNumber} /\ NotNumber \notin LongLong
  BY FromCharsType, NotNumberAssumption DEF LongLong
<1>2. 1 \in LongLong /\ -1 \in LongLong /\ Wrap(-1) = -1
  <2>1. 1 \in LongLong /\ -1 \in LongLong
    BY LongLongAssumption DEF LongLong
  <2> QED
    BY <2>1, WrapLeaves
<1>3. ASSUME NEW name \in {"INCR", "DECR", "INCRBY", "DECRBY"}, NEW call, NEW n \in LongLong,
             call[1] = name, call[2] = k,
             name \in {"INCRBY", "DECRBY"} => FromChars(call[3]) # NotNumber,
             n = LET arg == IF name \in {"INCR", "DECR"} THEN 1 ELSE FromChars(call[3])
                 IN  IF name \in {"DECR", "DECRBY"} THEN Wrap(-arg) ELSE arg,
             IncrementBy(call, k, n)
      PROVE  Promise!Updates
  <2>1. PICK t \in Later :
           LET old == IF Promise!Alive(k, t) THEN Payload(Live(data, clock)[k]) ELSE ToChars(0)
           IN  UpdateOnce(call, k, t, "string", NewText(old, n), NewReply(old, n))
    BY <1>3, IncrementUpdates
  <2> DEFINE old == IF Promise!Alive(k, t) THEN Payload(Live(data, clock)[k]) ELSE ToChars(0)
  <2>2. UpdateOnce(call, k, t, "string", NewText(old, n), NewReply(old, n))
    BY <2>1
  <2> HIDE DEF old
  <2>3. /\ t \in Promise!Instants /\ last'.call = call
        /\ Updated(k, t, "string", NewText(old, n), NewReply(old, n))
    BY <2>2, UpdatesOnce
  <2> QED
    BY <1>3, <2>3, IncrementIs DEF old
<1>4. ASSUME NEW call, NEW name \in {"INCRBY", "DECRBY"},
             call[1] = name, call[3] = s, RefuseIncrement(call, s)
      PROVE  Promise!Updates
  <2>1. FromChars(s) = NotNumber /\ Promise!Same /\ last'.call = call /\ last'.reply = NotInteger
    BY <1>4, Untouched DEF RefuseIncrement
  <2>2. Promise!Called(name) /\ FromChars(Promise!Arg(2)) = NotNumber /\ Promise!Replies(Promise!NotInteger)
    BY <1>4, <2>1, SameErrors DEF Promise!Called, Promise!Arg, Promise!Replies
  <2> QED
    BY <2>1, <2>2 DEF Promise!Updates
<1>5. CASE Incr(k)
  <2>1. PICK call : call = <<"INCR", k>>
    OBVIOUS
  <2>2. call[1] = "INCR" /\ call[2] = k /\ IncrementBy(call, k, 1)
    BY <1>5, <2>1 DEF Incr
  <2> QED
    BY <2>2, <1>2, <1>3
<1>6. CASE Decr(k)
  <2>1. PICK call : call = <<"DECR", k>>
    OBVIOUS
  <2>2. call[1] = "DECR" /\ call[2] = k /\ IncrementBy(call, k, -1)
    BY <1>6, <2>1 DEF Decr
  <2> QED
    BY <2>2, <1>2, <1>3
<1>7. CASE IncrBy(k, s)
  <2>1. PICK call : call = <<"INCRBY", k, s>>
    OBVIOUS
  <2>2. call[1] = "INCRBY" /\ call[2] = k /\ call[3] = s
    BY <2>1
  <2>3. \/ RefuseIncrement(call, s)
        \/ FromChars(s) \in LongLong /\ IncrementBy(call, k, FromChars(s))
    BY <1>7, <2>1 DEF IncrBy
  <2>4. CASE RefuseIncrement(call, s)
    BY <2>2, <2>4, <1>4
  <2>5. CASE FromChars(s) \in LongLong /\ IncrementBy(call, k, FromChars(s))
    BY <2>2, <2>5, <1>1, <1>3
  <2> QED
    BY <2>3, <2>4, <2>5
<1>8. CASE DecrBy(k, s)
  <2>1. PICK call : call = <<"DECRBY", k, s>>
    OBVIOUS
  <2>2. call[1] = "DECRBY" /\ call[2] = k /\ call[3] = s
    BY <2>1
  <2>3. \/ RefuseIncrement(call, s)
        \/ FromChars(s) \in LongLong /\ IncrementBy(call, k, Wrap(-FromChars(s)))
    BY <1>8, <2>1 DEF DecrBy
  <2>4. CASE RefuseIncrement(call, s)
    BY <2>2, <2>4, <1>4
  <2>5. CASE FromChars(s) \in LongLong /\ IncrementBy(call, k, Wrap(-FromChars(s)))
    <3>1. Wrap(-FromChars(s)) \in LongLong
      <4>1. -FromChars(s) \in Int
        BY <2>5, LongLongAssumption DEF LongLong
      <4> QED
        BY <4>1, WrapInRange
    <3> QED
      BY <2>2, <2>5, <3>1, <1>1, <1>3
  <2> QED
    BY <2>3, <2>4, <2>5
<1> QED
  BY <1>5, <1>6, <1>7, <1>8

(* APPEND is an update of the promise. *)
LEMMA AppendRefines ==
  ASSUME IInv, NEW k \in Keys, NEW v \in Str, AppendTo(k, v)
  PROVE  Promise!Updates
<1>1. PICK t \in Later :
       LET call == <<"APPEND", k, v>>
           d == ExpireIfNeeded(data, k, t)
           s == Payload(d[k]) \o v
       IN  \/ IsOther(d, k) /\ Done(call, t, d, WrongType)
           \/ /\ IsString(d, k) /\ s \in Str
              /\ Done(call, t, SetValue(d, k, <<"string", s>>), IntReply(Len(s)))
           \/ /\ k \notin DOMAIN d
              /\ Done(call, t, Put(d, k, StringObject(v, NoExpiry)), IntReply(Len(v)))
  BY DEF AppendTo
<1> DEFINE call == <<"APPEND", k, v>>
           d == ExpireIfNeeded(data, k, t)
           view == Live(data, clock)
           empty == ""
           old == IF Promise!Alive(k, t) THEN Payload(view[k]) ELSE empty
           text == old \o v
           size == Len(old) + Len(v)
<1> HIDE DEF empty
<1>2. SoundStore(d)
  BY LookSound DEF IInv
<1>3. (k \in DOMAIN d <=> Promise!Alive(k, t)) /\ (k \in DOMAIN d => d[k] = view[k])
  BY LookOnce
<1>4. \/ IsOther(d, k) /\ Done(call, t, d, WrongType)
      \/ IsString(d, k) /\ Done(call, t, SetValue(d, k, <<"string", Payload(d[k]) \o v>>),
                                IntReply(Len(Payload(d[k]) \o v)))
      \/ k \notin DOMAIN d /\ Done(call, t, Put(d, k, StringObject(v, NoExpiry)), IntReply(Len(v)))
  BY <1>1
<1> HIDE DEF d, call, view
<1>5. /\ IsString(d, k) => Payload(d[k]) \in Str
      /\ empty \o v = v /\ Len(empty) = 0
      /\ \A x \in Str : Len(x \o v) = Len(x) + Len(v)
      /\ Len(v) \in Nat
  BY <1>2, PayloadType, StrAssumption DEF SoundStore, IsString, empty
<1>6. UpdateOnce(call, k, t, "string", text, IntReply(size))
  <2>1. CASE IsOther(d, k)
    <3>1. Done(call, t, d, WrongType)
      BY <1>4, <2>1 DEF IsOther, IsString
    <3> QED
      BY <2>1, <3>1 DEF UpdateOnce, IsOther, d
  <2>2. CASE IsString(d, k)
    <3>1. k \in DOMAIN d /\ text = Payload(d[k]) \o v /\ size = Len(Payload(d[k]) \o v)
      BY <2>2, <1>3, <1>5 DEF IsString
    <3>2. Done(call, t, SetValue(d, k, <<"string", text>>), IntReply(size))
      BY <1>4, <2>2, <3>1 DEF IsOther, IsString
    <3>3. SetValue(d, k, <<"string", text>>)
            = Put(d, k, [value |-> <<"string", text>>, expiresAt |-> ExpiryOr(d, k)])
      BY <1>2, <3>1, SetValueIs DEF ExpiryOr
    <3> HIDE DEF text, size
    <3> QED
      BY <2>2, <3>2, <3>3 DEF UpdateOnce, IsString, d
  <2>3. CASE k \notin DOMAIN d
    <3>1. text = v /\ size = Len(v)
      <4>1. old = empty
        BY <2>3, <1>3
      <4> HIDE DEF old
      <4> QED
        BY <4>1, <1>5
    <3>2. Done(call, t, Put(d, k, StringObject(v, NoExpiry)), IntReply(Len(v)))
      BY <1>4, <2>3 DEF IsOther, IsString
    <3>3. StringObject(v, NoExpiry) = [value |-> <<"string", text>>, expiresAt |-> ExpiryOr(d, k)]
      BY <2>3, <3>1 DEF StringObject, ExpiryOr
    <3> HIDE DEF text, size
    <3> QED
      BY <2>3, <3>1, <3>2, <3>3 DEF UpdateOnce, d
  <2> QED
    BY <2>1, <2>2, <2>3 DEF IsOther, IsString
<1> HIDE DEF text, size
<1>7. /\ t \in Promise!Instants /\ last'.call = call
      /\ Updated(k, t, "string", text, IntReply(size))
  BY <1>6, UpdatesOnce
<1>8. Promise!Called("APPEND") /\ Promise!Arg(1) = k /\ Promise!Arg(2) = v
  BY <1>7 DEF Promise!Called, Promise!Arg, call
<1>9. IF Promise!Alive(k, t) /\ Promise!Type(view[k]) # "string"
      THEN Promise!Replies(Promise!WrongType) /\ Promise!Same
      ELSE /\ Promise!Replies(Promise!IntReply(Len(old) + Len(v)))
           /\ Promise!Becomes(Promise!With(k, <<"string", old \o v>>,
                IF Promise!Alive(k, t) THEN view[k].expiresAt ELSE Promise!NoExpiry))
  BY <1>7, SameTypes, SameReplies, SameErrors DEF Updated, Promise!Replies, text, size, view
<1>10. old = IF Promise!Alive(k, t) THEN Promise!Payload(view[k]) ELSE ""
  BY SameTypes DEF empty
<1> HIDE DEF old
<1>11. LET new(s) == s \o Promise!Arg(2)  len(s) == Promise!IntReply(Len(s) + Len(Promise!Arg(2)))
       IN  Promise!TypedUpdate("string", "", new, len)
  BY <1>7, <1>8, <1>9, <1>10 DEF Promise!TypedUpdate, view
<1> QED
  BY <1>8, <1>11 DEF Promise!Updates

(* Counting up to n. *)
LEMMA CountingUp ==
  ASSUME NEW n \in Nat, NEW I, 0 \in I, \A i \in 0..n : i \in I /\ i < n => i + 1 \in I
  PROVE  \A i \in 0..n : i \in I
<1> DEFINE Under(m) == \A i \in 0..m - 1 : i \in I
           T == {m \in 1..n + 1 : Under(m)}
<1>1. 1 \in T
  OBVIOUS
<1>2. PICK m \in T : \A x \in T : x <= m
  <2>1. n + 1 \in Nat /\ T \in SUBSET (1..n + 1) /\ T # {}
    BY <1>1
  <2> HIDE DEF T
  <2> QED
    BY <2>1, LastOfBounded
<1>3. m \in 1..n + 1 /\ Under(m)
  BY <1>2
<1>4. CASE m = n + 1
  BY <1>3, <1>4
<1>5. CASE m # n + 1
  <2>1. m \in 1..n /\ m - 1 \in I /\ m - 1 \in 0..n
    BY <1>3, <1>5
  <2>2. m \in I
    BY <2>1
  <2>3. m + 1 \in 1..n + 1 /\ Under(m + 1)
    BY <1>3, <2>1, <2>2
  <2>4. m + 1 <= m
    BY <1>2, <2>3
  <2> QED
    BY <1>3, <2>4
<1> QED
  BY <1>4, <1>5

(* The turn of the option loop of SET stays among its results. *)
LEMMA ParseOptionType ==
  ASSUME NEW p \in Parsed, NEW o \in STRING \X (Str \cup {Missing}), NEW now \in Int
  PROVE  ParseOption(p, o, now) \in Parsed
<1> DEFINE n == FromChars(o[2])
           e == OptionDeadline(o[1], n, now)
<1>1. o[2] # Missing => n \in LongLong \cup {NotNumber}
  BY FromCharsType
<1>2. n \in LongLong => e \in LongLong
  <2> SUFFICES ASSUME n \in LongLong PROVE e \in LongLong
    OBVIOUS
  <2> HIDE DEF n
  <2>1. n \in Int /\ n * Sec \in Int
    BY SecAssumption, LongLongAssumption DEF LongLong
  <2>2. Wrap(n * Sec) \in LongLong /\ Wrap(n * Sec) \in Int
    BY <2>1, WrapInRange, LongLongAssumption DEF LongLong
  <2>3. now + Wrap(n * Sec) \in Int /\ now + n \in Int
    BY <2>1, <2>2
  <2>4. Wrap(now + Wrap(n * Sec)) \in LongLong /\ Wrap(now + n) \in LongLong
    BY <2>3, WrapInRange
  <2> QED
    BY <2>2, <2>4 DEF OptionDeadline
<1> HIDE DEF n, e
<1> QED
  BY <1>1, <1>2 DEF ParseOption, Parsed, n, e

(* The loop over the options, as the function of its turns. *)
FirstParsed == [nx |-> FALSE, xx |-> FALSE, expireTime |-> NoExpiry, error |-> "none"]

(* The states of SET's option loop: parse[i] is what it knows after i        *)
(* options.                                                                  *)
Turns(parse, n, options, t) ==
  /\ parse \in [0..n -> Parsed] /\ parse[0] = FirstParsed
  /\ \A i \in 1..n : parse[i] = ParseOption(parse[i - 1], options[i], t[i])

(* The loop has such states, whatever the options. *)
LEMMA TurnsExist ==
  ASSUME NEW options \in OptionLists, NEW t \in [1..Len(options) + 1 -> Int]
  PROVE  \E parse : Turns(parse, Len(options), options, t)
<1> DEFINE n == Len(options)
           Some(i) == \E parse : Turns(parse, i, options, t)
           I == {i \in 0..n : Some(i)}
<1>1. n \in Nat /\ \A i \in 1..n : options[i] \in STRING \X (Str \cup {Missing}) /\ t[i] \in Int
  BY ArgumentsAssumption
<1> HIDE DEF n
<1>2. Some(0)
  <2>1. FirstParsed \in Parsed
    BY NoExpiryInRange DEF FirstParsed, Parsed
  <2>2. Turns([j \in 0..0 |-> FirstParsed], 0, options, t)
    BY <2>1 DEF Turns
  <2> QED
    BY <2>2
<1>3. ASSUME NEW i \in 0..n, Some(i), i < n
      PROVE  Some(i + 1)
  <2>1. PICK parse : Turns(parse, i, options, t)
    BY <1>3
  <2> DEFINE p == ParseOption(parse[i], options[i + 1], t[i + 1])
             longer == [j \in 0..i + 1 |-> IF j = i + 1 THEN p ELSE parse[j]]
  <2>2. p \in Parsed
    <3>1. parse[i] \in Parsed /\ i + 1 \in 1..n
      BY <2>1, <1>1, <1>3 DEF Turns
    <3> QED
      BY <3>1, <1>1, ParseOptionType
  <2> HIDE DEF p
  <2>3. longer \in [0..i + 1 -> Parsed] /\ longer[0] = FirstParsed
    BY <2>1, <2>2 DEF Turns
  <2>4. \A j \in 1..i + 1 : longer[j] = ParseOption(longer[j - 1], options[j], t[j])
    <3> SUFFICES ASSUME NEW j \in 1..i + 1
                 PROVE  longer[j] = ParseOption(longer[j - 1], options[j], t[j])
      OBVIOUS
    <3>1. longer[j - 1] = parse[j - 1]
      OBVIOUS
    <3>2. CASE j = i + 1
      <4>1. longer[j] = p /\ j - 1 = i
        BY <3>2
      <4> HIDE DEF longer
      <4> QED
        BY <3>1, <3>2, <4>1 DEF p
    <3>3. CASE j # i + 1
      <4>1. longer[j] = parse[j] /\ j \in 1..i
        BY <3>3
      <4> HIDE DEF longer
      <4> QED
        BY <3>1, <4>1, <2>1 DEF Turns
    <3> QED
      BY <3>2, <3>3
  <2> HIDE DEF longer
  <2>5. Turns(longer, i + 1, options, t)
    BY <2>3, <2>4 DEF Turns
  <2> QED
    BY <2>5
<1>4. 0 \in I /\ \A i \in 0..n : i \in I /\ i < n => i + 1 \in I
  <2> HIDE DEF Some
  <2> QED
    BY <1>1, <1>2, <1>3
<1> HIDE DEF I
<1>5. \A i \in 0..n : i \in I
  BY <1>1, <1>4, CountingUp
<1>6. n \in I
  BY <1>1, <1>5
<1> QED
  BY <1>6 DEF I, n

(* What the loop of SET returns is its last state, with NX and XX together   *)
(* refused at the end.                                                       *)
LEMMA ParseOptionsIs ==
  ASSUME NEW options \in OptionLists, NEW t \in [1..Len(options) + 1 -> Int]
  PROVE  \E parse : /\ Turns(parse, Len(options), options, t)
                    /\ LET p == parse[Len(options)]
                       IN  ParseOptions(options, t) =
                             IF p.error = "none" /\ p.nx /\ p.xx THEN [p EXCEPT !.error = "syntax"] ELSE p
<1> DEFINE n == Len(options)
           Equation(f) == f = [i \in 0..n |-> IF i = 0 THEN FirstParsed
                                              ELSE ParseOption(f[i - 1], options[i], t[i])]
           parse == CHOOSE f : Equation(f)
<1>1. n \in Nat /\ \A i \in 1..n : options[i] \in STRING \X (Str \cup {Missing}) /\ t[i] \in Int
  BY ArgumentsAssumption
<1>2. ParseOptions(options, t) =
        LET p == parse[n]
        IN  IF p.error = "none" /\ p.nx /\ p.xx THEN [p EXCEPT !.error = "syntax"] ELSE p
  BY DEF ParseOptions, FirstParsed
<1>3. \E f : Equation(f) /\ Turns(f, n, options, t)
  <2>1. PICK f : Turns(f, n, options, t)
    BY TurnsExist
  <2>2. Equation(f)
    BY <2>1, <1>1 DEF Turns
  <2> QED
    BY <2>1, <2>2
<1>4. Equation(parse)
  <2> HIDE DEF Equation
  <2> QED
    BY <1>3
<1> HIDE DEF parse
<1>5. Turns(parse, n, options, t)
  <2> DEFINE I == {i \in 0..n : parse[i] \in Parsed}
  <2>1. DOMAIN parse = 0..n /\ parse[0] = FirstParsed
    BY <1>1, <1>4
  <2>2. \A i \in 1..n : parse[i] = ParseOption(parse[i - 1], options[i], t[i])
    BY <1>1, <1>4
  <2>3. 0 \in I
    <3>1. FirstParsed \in Parsed
      BY NoExpiryInRange DEF FirstParsed, Parsed
    <3> QED
      BY <1>1, <2>1, <3>1
  <2>4. \A i \in 0..n : i \in I /\ i < n => i + 1 \in I
    <3> SUFFICES ASSUME NEW i \in 0..n, parse[i] \in Parsed, i < n
                 PROVE  parse[i + 1] \in Parsed /\ i + 1 \in 0..n
      OBVIOUS
    <3>1. i + 1 \in 1..n /\ (i + 1) - 1 = i
      BY <1>1
    <3>2. parse[i + 1] = ParseOption(parse[i], options[i + 1], t[i + 1])
      BY <3>1, <2>2
    <3> QED
      BY <1>1, <3>1, <3>2, ParseOptionType
  <2> HIDE DEF I
  <2>5. \A i \in 0..n : i \in I
    BY <1>1, <2>3, <2>4, CountingUp
  <2>6. parse = [i \in 0..n |-> parse[i]]
    BY <1>4
  <2>7. parse \in [0..n -> Parsed]
    BY <2>5, <2>6 DEF I
  <2> QED
    BY <2>1, <2>2, <2>7 DEF Turns
<1> QED
  BY <1>2, <1>5

(* The deadline of an option, in the words of the code. *)
LEMMA SetsIs ==
  ASSUME NEW o \in STRING \X (Str \cup {Missing}), NEW now \in Int
  PROVE  Promise!Sets(o, now) =
           IF o[1] \in ExpiryOptions /\ o[2] # Missing /\ FromChars(o[2]) # NotNumber
           THEN OptionDeadline(o[1], FromChars(o[2]), now) ELSE NoExpiry
<1> DEFINE name == o[1]
           n == FromChars(o[2])
<1>1. Promise!Relative \cup Promise!Absolute = ExpiryOptions
  BY DEF Promise!Relative, Promise!Absolute, ExpiryOptions
<1>2. CASE name \in ExpiryOptions /\ o[2] # Missing /\ n # NotNumber
  <2>1. n \in LongLong /\ n \in Int
    BY <1>2, FromCharsType, LongLongAssumption DEF LongLong
  <2> DEFINE e == Promise!Deadline(n, Promise!Unit(name), IF name \in Promise!Relative THEN now ELSE 0)
  <2>2. Promise!Sets(o, now) = e
    BY <1>1, <1>2 DEF Promise!Sets
  <2>3. \A unit, from : Promise!Deadline(n, unit, from) = Wrap(from + n * unit)
    BY SameTypes DEF Promise!Deadline
  <2> HIDE DEF n, name
  <2>4. n * Sec \in Int /\ n * 1 = n /\ 0 + n * 1 = n /\ 0 + n * Sec = n * Sec
    BY <2>1, SecAssumption
  <2>5. Wrap(now + Wrap(n * Sec)) = Wrap(now + n * Sec)
    BY <2>4, WrapsOnce
  <2>6. CASE name = "EX"
    <3>1. e = Wrap(now + n * Sec)
      BY <2>3, <2>6 DEF Promise!Unit, Promise!Relative
    <3>2. OptionDeadline(name, n, now) = Wrap(now + Wrap(n * Sec))
      BY <2>6 DEF OptionDeadline
    <3> QED
      BY <2>2, <2>5, <3>1, <3>2, <1>2 DEF n, name
  <2>7. CASE name = "PX"
    <3>1. e = Wrap(now + n)
      BY <2>3, <2>4, <2>7 DEF Promise!Unit, Promise!Relative
    <3>2. OptionDeadline(name, n, now) = Wrap(now + n)
      BY <2>7 DEF OptionDeadline
    <3> QED
      BY <2>2, <3>1, <3>2, <1>2 DEF n, name
  <2>8. CASE name = "EXAT"
    <3>1. e = Wrap(n * Sec)
      BY <2>3, <2>4, <2>8 DEF Promise!Unit, Promise!Relative
    <3>2. OptionDeadline(name, n, now) = Wrap(n * Sec)
      BY <2>8 DEF OptionDeadline
    <3> QED
      BY <2>2, <3>1, <3>2, <1>2 DEF n, name
  <2>9. CASE name = "PXAT"
    <3>1. e = Wrap(n)
      BY <2>3, <2>4, <2>9 DEF Promise!Unit, Promise!Relative
    <3>2. OptionDeadline(name, n, now) = n /\ Wrap(n) = n
      BY <2>1, <2>9, WrapLeaves DEF OptionDeadline
    <3> QED
      BY <2>2, <3>1, <3>2, <1>2 DEF n, name
  <2> QED
    BY <1>2, <2>6, <2>7, <2>8, <2>9 DEF ExpiryOptions, name
<1>3. CASE ~(name \in ExpiryOptions /\ o[2] # Missing /\ n # NotNumber)
  BY <1>1, <1>3, SameTypes DEF Promise!Sets
<1> QED
  BY <1>2, <1>3

(* The faults of an option, one test after the other. *)
FaultAfter(o, taken) ==
  IF o[1] \in {"NX", "XX"} THEN "none"
  ELSE IF o[1] \notin ExpiryOptions \/ taken \/ o[2] = Missing THEN "syntax"
  ELSE IF FromChars(o[2]) = NotNumber THEN "not an integer"
  ELSE IF FromChars(o[2]) <= 0 THEN "invalid expire time"
  ELSE "none"

(* The promise's fault of the i-th option, in terms of whether an earlier    *)
(* one has set a deadline.                                                   *)
LEMMA FaultIs ==
  ASSUME NEW options, NEW i, NEW t
  PROVE  Promise!Fault(options, i, t) =
           FaultAfter(options[i],
                      \E j \in 1..i - 1 : Promise!Sets(options[j], t[j]) # NoExpiry)
<1> DEFINE taken == \E j \in 1..i - 1 : Promise!Sets(options[j], t[j]) # NoExpiry
<1>1. Promise!Relative \cup Promise!Absolute = ExpiryOptions
  BY DEF Promise!Relative, Promise!Absolute, ExpiryOptions
<1>2. PICK o : o = options[i]
  OBVIOUS
<1>4. taken <=> \E j \in 1..i - 1 : Promise!Sets(options[j], t[j]) # Promise!NoExpiry
  BY SameTypes
<1> HIDE DEF taken
<1> QED
  BY <1>1, <1>2, <1>4 DEF Promise!Fault, FaultAfter, taken

(* What one turn of the loop over the options makes of the results p. *)
Turned(p, q, o, e, taken) ==
  /\ q.error = FaultAfter(o, taken)
  /\ q.error = "none" =>
       /\ q.nx <=> p.nx \/ o[1] = "NX"
       /\ q.xx <=> p.xx \/ o[1] = "XX"
       /\ q.expireTime = IF e # NoExpiry THEN e ELSE p.expireTime

(* One turn of the loop does what the promise says of one option. *)
LEMMA TurnIs ==
  ASSUME NEW p \in Parsed, NEW o \in STRING \X (Str \cup {Missing}), NEW now \in Int,
         NEW taken \in BOOLEAN, p.error = "none", p.expireTime # NoExpiry <=> taken
  PROVE  Turned(p, ParseOption(p, o, now), o, Promise!Sets(o, now), taken)
<1> DEFINE n == FromChars(o[2])
<1>1. PICK e : e = Promise!Sets(o, now)
  OBVIOUS
<1>2. e = IF o[1] \in ExpiryOptions /\ o[2] # Missing /\ n # NotNumber
          THEN OptionDeadline(o[1], n, now) ELSE NoExpiry
  BY <1>1, SetsIs
<1>3. PICK q : q = ParseOption(p, o, now)
  OBVIOUS
<1>4. "NX" \notin ExpiryOptions /\ "XX" \notin ExpiryOptions
  BY DEF ExpiryOptions
<1>5. CASE o[1] = "NX"
  BY <1>2, <1>3, <1>4, <1>5, <1>1 DEF ParseOption, FaultAfter, Parsed, Turned
<1>6. CASE o[1] = "XX"
  BY <1>2, <1>3, <1>4, <1>6, <1>1 DEF ParseOption, FaultAfter, Parsed, Turned
<1>7. CASE o[1] \notin {"NX", "XX"} /\ (o[1] \notin ExpiryOptions \/ taken \/ o[2] = Missing)
  <2>1. q = [p EXCEPT !.error = "syntax"]
    BY <1>3, <1>7 DEF ParseOption
  <2>2. FaultAfter(o, taken) = "syntax"
    BY <1>7 DEF FaultAfter
  <2> QED
    BY <2>1, <2>2, <1>3 DEF Parsed, Turned
<1>8. CASE o[1] \in ExpiryOptions /\ ~taken /\ o[2] # Missing
  <2> DEFINE d == OptionDeadline(o[1], n, now)
  <2>1. o[1] # "NX" /\ o[1] # "XX" /\ p.expireTime = NoExpiry
    BY <1>4, <1>8
  <2>2. q = IF n = NotNumber THEN [p EXCEPT !.error = "not an integer"]
            ELSE IF n <= 0 THEN [p EXCEPT !.error = "invalid expire time"]
            ELSE [p EXCEPT !.expireTime = d]
    BY <1>3, <1>8, <2>1 DEF ParseOption
  <2>3. FaultAfter(o, taken) = IF n = NotNumber THEN "not an integer"
                               ELSE IF n <= 0 THEN "invalid expire time" ELSE "none"
    BY <1>8, <2>1 DEF FaultAfter
  <2>4. n # NotNumber => e = d
    BY <1>2, <1>8
  <2> HIDE DEF n, d
  <2> QED
    BY <2>1, <2>2, <2>3, <2>4, <1>1, <1>3 DEF Parsed, Turned
<1> QED
  BY <1>4, <1>5, <1>6, <1>7, <1>8

(* What the first i options leave. *)
SoFar(p, i, options, t) ==
  /\ p.error = "none" =>
       /\ \A j \in 1..i : Promise!Fault(options, j, t) = "none"
       /\ p.nx <=> \E j \in 1..i : options[j][1] = "NX"
       /\ p.xx <=> \E j \in 1..i : options[j][1] = "XX"
       /\ p.expireTime = NoExpiry => \A j \in 1..i : Promise!Sets(options[j], t[j]) = NoExpiry
       /\ p.expireTime # NoExpiry => \E j \in 1..i : Promise!Sets(options[j], t[j]) = p.expireTime
  /\ p.error # "none" =>
       \E j \in 1..i : /\ Promise!Fault(options, j, t) = p.error
                       /\ \A l \in 1..j - 1 : Promise!Fault(options, l, t) = "none"

(* So the loop, after all options, has found what the promise finds in them: *)
(* by counting up over the options.                                          *)
LEMMA OptionsSoFar ==
  ASSUME NEW options \in OptionLists, NEW t \in [1..Len(options) + 1 -> Int],
         NEW parse, Turns(parse, Len(options), options, t)
  PROVE  SoFar(parse[Len(options)], Len(options), options, t)
<1> DEFINE n == Len(options)
           I == {i \in 0..n : SoFar(parse[i], i, options, t)}
<1>1. n \in Nat /\ \A i \in 1..n : options[i] \in STRING \X (Str \cup {Missing}) /\ t[i] \in Int
  BY ArgumentsAssumption
<1>2. /\ parse \in [0..n -> Parsed] /\ parse[0] = FirstParsed
      /\ \A i \in 1..n : parse[i] = ParseOption(parse[i - 1], options[i], t[i])
  BY DEF Turns
<1> HIDE DEF n
<1>3. 0 \in I
  <2>1. SoFar(FirstParsed, 0, options, t)
    BY DEF SoFar, FirstParsed
  <2> QED
    BY <1>1, <1>2, <2>1
<1>4. ASSUME NEW i \in 0..n, SoFar(parse[i], i, options, t), i < n
      PROVE  SoFar(parse[i + 1], i + 1, options, t)
  <2>1. i + 1 \in 1..n /\ (i + 1) - 1 = i /\ 1..i + 1 = 1..i \cup {i + 1}
    BY <1>1, <1>4
  <2>2. PICK p \in Parsed : p = parse[i]
    BY <1>2
  <2>3. PICK o \in STRING \X (Str \cup {Missing}) : o = options[i + 1]
    BY <1>1, <2>1
  <2>4. PICK now \in Int : now = t[i + 1]
    BY <1>1, <2>1
  <2>5. PICK q : q = parse[i + 1] /\ q = ParseOption(p, o, now)
    BY <1>2, <2>1, <2>2, <2>3, <2>4
  <2>6. PICK taken \in BOOLEAN : taken <=> \E j \in 1..i : Promise!Sets(options[j], t[j]) # NoExpiry
    OBVIOUS
  <2>7. Promise!Fault(options, i + 1, t) = FaultAfter(o, taken)
    <3>1. (\E j \in 1..(i + 1) - 1 : Promise!Sets(options[j], t[j]) # NoExpiry) = taken
      BY <2>1, <2>6
    <3>2. Promise!Fault(options, i + 1, t) =
            FaultAfter(options[i + 1],
                       \E j \in 1..(i + 1) - 1 : Promise!Sets(options[j], t[j]) # NoExpiry)
      BY FaultIs
    <3> QED
      BY <3>1, <3>2, <2>3
  <2>8. SoFar(p, i, options, t)
    BY <1>4, <2>2
  <2>9. CASE p.error # "none"
    <3>1. q = p
      BY <2>5, <2>9 DEF ParseOption
    <3> QED
      BY <2>1, <2>5, <2>8, <2>9, <3>1 DEF SoFar
  <2>10. CASE p.error = "none"
    <3>1. p.expireTime # NoExpiry <=> taken
      BY <2>6, <2>8, <2>10 DEF SoFar
    <3>2. PICK e : e = Promise!Sets(o, now) /\ e = Promise!Sets(options[i + 1], t[i + 1])
      BY <2>3, <2>4
    <3>3. Turned(p, q, o, e, taken)
      BY <2>5, <2>10, <3>1, <3>2, TurnIs
    <3>4. q.error = Promise!Fault(options, i + 1, t)
      BY <2>7, <3>3 DEF Turned
    <3>5. CASE q.error # "none"
      <4>1. \A l \in 1..(i + 1) - 1 : Promise!Fault(options, l, t) = "none"
        BY <2>1, <2>8, <2>10 DEF SoFar
      <4>2. \E j \in 1..i + 1 : /\ Promise!Fault(options, j, t) = q.error
                               /\ \A l \in 1..j - 1 : Promise!Fault(options, l, t) = "none"
        BY <2>1, <3>4, <4>1
      <4>3. SoFar(q, i + 1, options, t)
        BY <3>5, <4>2 DEF SoFar
      <4> QED
        BY <4>3, <2>5
    <3>6. CASE q.error = "none"
      <4>1. \A j \in 1..i + 1 : Promise!Fault(options, j, t) = "none"
        BY <2>1, <2>8, <2>10, <3>4, <3>6 DEF SoFar
      <4>2. q.nx <=> \E j \in 1..i + 1 : options[j][1] = "NX"
        BY <2>1, <2>3, <2>8, <2>10, <3>3, <3>6 DEF SoFar, Turned
      <4>3. q.xx <=> \E j \in 1..i + 1 : options[j][1] = "XX"
        BY <2>1, <2>3, <2>8, <2>10, <3>3, <3>6 DEF SoFar, Turned
      <4>4. q.expireTime = NoExpiry => \A j \in 1..i + 1 : Promise!Sets(options[j], t[j]) = NoExpiry
        BY <2>1, <2>8, <2>10, <3>2, <3>3, <3>6 DEF SoFar, Turned
      <4>5. q.expireTime # NoExpiry => \E j \in 1..i + 1 : Promise!Sets(options[j], t[j]) = q.expireTime
        BY <2>1, <2>8, <2>10, <3>2, <3>3, <3>6 DEF SoFar, Turned
      <4> QED
        BY <4>1, <4>2, <4>3, <4>4, <4>5, <3>6, <2>5 DEF SoFar
    <3> QED
      BY <3>5, <3>6
  <2> QED
    BY <2>9, <2>10
<1>5. \A i \in 0..n : i \in I /\ i < n => i + 1 \in I
  <2> SUFFICES ASSUME NEW i \in 0..n, SoFar(parse[i], i, options, t), i < n
               PROVE  SoFar(parse[i + 1], i + 1, options, t) /\ i + 1 \in 0..n
    OBVIOUS
  <2> QED
    BY <1>1, <1>4
<1> HIDE DEF I
<1>6. \A i \in 0..n : i \in I
  BY <1>1, <1>3, <1>5, CountingUp
<1>7. n \in I
  BY <1>1, <1>6
<1> QED
  BY <1>7 DEF I, n

(* What SET replies and does, by the outcome of its options. *)
SetsString(k, v, options, s) ==
  LET end == s[Len(options) + 1]
      names == {options[i][1] : i \in DOMAIN options}
      faulty == {i \in DOMAIN options : Promise!Fault(options, i, s) # "none"}
      setting == {i \in DOMAIN options : Promise!Sets(options[i], s[i]) # NoExpiry}
  IN  \/ \E i \in faulty : /\ \A j \in faulty : i <= j
                          /\ last'.reply = ErrReply(Promise!Fault(options, i, s)) /\ Promise!Same
      \/ faulty = {} /\ {"NX", "XX"} \subseteq names /\ last'.reply = SyntaxError /\ Promise!Same
      \/ /\ faulty = {} /\ ~({"NX", "XX"} \subseteq names)
         /\ IF ("NX" \in names /\ Promise!Alive(k, end)) \/ ("XX" \in names /\ ~Promise!Alive(k, end))
            THEN last'.reply = NullReply /\ Promise!Same
            ELSE /\ last'.reply = OkReply
                 /\ \/ setting = {} /\ Promise!Becomes(Promise!With(k, <<"string", v>>, NoExpiry))
                    \/ \E i \in setting :
                         Promise!Becomes(Promise!With(k, <<"string", v>>, Promise!Sets(options[i], s[i])))

(* What SET does with what it found is the promise's step. *)
LEMMA SetsStringIs ==
  ASSUME NEW k, NEW v, NEW options, NEW s \in Promise!Instant(Len(options) + 1),
         last'.call = <<"SET", k, v, options>>, SetsString(k, v, options, s)
  PROVE  Promise!SetString
<1>1. Promise!Called("SET") /\ Promise!Arg(1) = k /\ Promise!Arg(2) = v /\ Promise!Arg(3) = options
  BY DEF Promise!Called, Promise!Arg
<1>2. SyntaxError = Promise!ErrReply("syntax")
  BY SameReplies DEF SyntaxError
<1>3. \A r : last'.reply = r <=> Promise!Replies(r)
  BY DEF Promise!Replies
<1>4. \A x : ErrReply(x) = Promise!ErrReply(x)
  BY SameReplies
<1> QED
  BY <1>1, <1>2, <1>3, <1>4, SameReplies, SameTypes DEF Promise!SetString, SetsString

(* The outcome of the options, as the promise sees it. *)
LEMMA OutcomeIs ==
  ASSUME NEW options \in OptionLists, NEW t \in [1..Len(options) + 1 -> Int],
         NEW p \in Parsed, p = ParseOptions(options, t)
  PROVE  LET n == Len(options)
         IN  \/ /\ p.error # "none"
                /\ \E i \in 1..n : /\ Promise!Fault(options, i, t) = p.error
                                   /\ \A j \in 1..i - 1 : Promise!Fault(options, j, t) = "none"
             \/ /\ p.error = "syntax"
                /\ \A i \in 1..n : Promise!Fault(options, i, t) = "none"
                /\ \E i \in 1..n : options[i][1] = "NX"
                /\ \E i \in 1..n : options[i][1] = "XX"
             \/ /\ p.error = "none" /\ ~(p.nx /\ p.xx)
                /\ SoFar(p, n, options, t)
<1> DEFINE n == Len(options)
<1>1. PICK parse : /\ Turns(parse, n, options, t)
                   /\ LET q == parse[n]
                      IN  ParseOptions(options, t) =
                            IF q.error = "none" /\ q.nx /\ q.xx
                            THEN [q EXCEPT !.error = "syntax"] ELSE q
  BY ParseOptionsIs
<1>2. SoFar(parse[n], n, options, t)
  BY <1>1, OptionsSoFar
<1>3. n \in Nat
  BY ArgumentsAssumption
<1>4. parse[n] \in Parsed
  BY <1>1, <1>3 DEF Turns
<1>5. PICK q \in Parsed : q = parse[n]
  BY <1>4
<1>6. p = IF q.error = "none" /\ q.nx /\ q.xx THEN [q EXCEPT !.error = "syntax"] ELSE q
  BY <1>1, <1>5
<1>7. SoFar(q, n, options, t)
  BY <1>2, <1>5
<1> HIDE DEF n
<1>8. CASE q.error = "none" /\ q.nx /\ q.xx
  <2>1. p.error = "syntax"
    BY <1>6, <1>8 DEF Parsed
  <2> QED
    BY <2>1, <1>7, <1>8 DEF SoFar, n
<1>9. CASE q.error = "none" /\ ~(q.nx /\ q.xx)
  <2>1. p = q
    BY <1>6, <1>9
  <2> QED
    BY <2>1, <1>7, <1>9 DEF n
<1>10. CASE q.error # "none"
  <2>1. p = q
    BY <1>6, <1>10
  <2> QED
    BY <2>1, <1>7, <1>10 DEF SoFar, n
<1> QED
  BY <1>8, <1>9, <1>10

(* SET, with any list of options, is a step of the promise. *)
LEMMA SetRefines ==
  ASSUME IInv, NEW k, NEW v, NEW options \in OptionLists, Set(k, v, options)
  PROVE  Promise!SetString
<1> DEFINE n == Len(options)
           call == <<"SET", k, v, options>>
<1>1. PICK t \in Readings(n + 1), p \in Parsed :
        LET end == t[n + 1]
            d == ExpireIfNeeded(data, k, end)
        IN  /\ p = ParseOptions(options, t)
            /\ \/ /\ p.error # "none"
                  /\ Done(call, end, data, ErrReply(p.error))
               \/ /\ p.error = "none"
                  /\ (p.nx /\ k \in DOMAIN d) \/ (p.xx /\ k \notin DOMAIN d)
                  /\ Done(call, end, d, NullReply)
               \/ /\ p.error = "none"
                  /\ ~((p.nx /\ k \in DOMAIN d) \/ (p.xx /\ k \notin DOMAIN d))
                  /\ Done(call, end, Put(d, k, StringObject(v, p.expireTime)), OkReply)
  BY DEF Set
<1>2. n \in Nat /\ n + 1 \in Nat \ {0} /\ DOMAIN options = 1..n
  BY ArgumentsAssumption
<1> DEFINE end == t[n + 1]
           d == ExpireIfNeeded(data, k, end)
<1>3. last'.call = call /\ clock' = end
  BY <1>1 DEF Done
<1>4. /\ t \in Promise!Instant(n + 1) /\ end \in Later
  <2>1. clock' = t[n + 1]
    BY <1>3
  <2> HIDE DEF end
  <2> QED
    BY <1>2, <2>1, ReadingsAreInstants DEF end
<1>5. t \in [1..Len(options) + 1 -> Int]
  <2>1. t \in [1..n + 1 -> Later]
    BY DEF Readings
  <2> QED
    BY <2>1, Times
<1>6. /\ Purged(data, d, end)
      /\ k \in DOMAIN d <=> Promise!Alive(k, end)
  BY <1>4, LookOnce
<1> DEFINE names == {options[i][1] : i \in DOMAIN options}
           faulty == {i \in DOMAIN options : Promise!Fault(options, i, t) # "none"}
           setting == {i \in DOMAIN options : Promise!Sets(options[i], t[i]) # NoExpiry}
<1>7. p = ParseOptions(options, t)
  BY <1>1
<1>8. SetsString(k, v, options, t)
  <2>1. CASE p.error # "none"
    <3>1. data' = data /\ last'.reply = ErrReply(p.error)
      BY <1>1, <2>1 DEF Done
    <3>2. Promise!Same
      BY <3>1, <1>3, <1>4, NothingPurged, StaysSame
    <3>3. CASE \E i \in 1..n : /\ Promise!Fault(options, i, t) = p.error
                              /\ \A j \in 1..i - 1 : Promise!Fault(options, j, t) = "none"
      <4>1. PICK i \in 1..n : /\ Promise!Fault(options, i, t) = p.error
                              /\ \A j \in 1..i - 1 : Promise!Fault(options, j, t) = "none"
        BY <3>3
      <4>2. i \in faulty /\ \A j \in faulty : i <= j
        BY <1>2, <2>1, <4>1
      <4> QED
        BY <3>1, <3>2, <4>1, <4>2 DEF SetsString
    <3>4. CASE /\ p.error = "syntax"
               /\ \A i \in 1..n : Promise!Fault(options, i, t) = "none"
               /\ \E i \in 1..n : options[i][1] = "NX"
               /\ \E i \in 1..n : options[i][1] = "XX"
      <4>1. faulty = {} /\ {"NX", "XX"} \subseteq names
        BY <1>2, <3>4
      <4>2. last'.reply = SyntaxError
        BY <3>1, <3>4 DEF SyntaxError
      <4> QED
        BY <3>2, <4>1, <4>2 DEF SetsString
    <3> QED
      BY <1>5, <1>7, <2>1, <3>3, <3>4, OutcomeIs
  <2>2. CASE p.error = "none"
    <3>1. ~(p.nx /\ p.xx) /\ SoFar(p, n, options, t)
      BY <1>5, <1>7, <2>2, OutcomeIs DEF SoFar
    <3>2. faulty = {} /\ (p.nx <=> "NX" \in names) /\ (p.xx <=> "XX" \in names)
      BY <1>2, <2>2, <3>1 DEF SoFar
    <3>3. ~({"NX", "XX"} \subseteq names)
      BY <3>1, <3>2
    <3>4. CASE (p.nx /\ k \in DOMAIN d) \/ (p.xx /\ k \notin DOMAIN d)
      <4>1. data' = d /\ last'.reply = NullReply
        BY <1>1, <2>2, <3>4 DEF Done
      <4>2. Promise!Same
        BY <4>1, <1>3, <1>4, <1>6, StaysSame
      <4>3. ("NX" \in names /\ Promise!Alive(k, end)) \/ ("XX" \in names /\ ~Promise!Alive(k, end))
        BY <1>6, <3>2, <3>4
      <4> QED
        BY <3>2, <3>3, <4>1, <4>2, <4>3 DEF SetsString
    <3>5. CASE ~((p.nx /\ k \in DOMAIN d) \/ (p.xx /\ k \notin DOMAIN d))
      <4>1. /\ data' = Put(d, k, [value |-> <<"string", v>>, expiresAt |-> p.expireTime])
            /\ last'.reply = OkReply
        BY <1>1, <2>2, <3>5 DEF Done, StringObject
      <4>2. p.expireTime \in Int
        <5>1. p.expireTime \in LongLong
          BY DEF Parsed
        <5>2. LongLong \subseteq Int
          BY LongLongAssumption DEF LongLong
        <5> QED
          BY <5>1, <5>2
      <4>3. Promise!Becomes(Promise!With(k, <<"string", v>>, p.expireTime))
        <5> HIDE DEF d, end
        <5>1. PICK e \in Int : e = p.expireTime
          BY <4>2
        <5>2. data' = Put(d, k, [value |-> <<"string", v>>, expiresAt |-> e])
          BY <4>1, <5>1
        <5>3. Promise!Becomes(Promise!With(k, <<"string", v>>, e))
          BY <5>2, <1>3, <1>4, <1>6, BecomesWith
        <5> QED
          BY <5>1, <5>3
      <4>4. ~(("NX" \in names /\ Promise!Alive(k, end)) \/ ("XX" \in names /\ ~Promise!Alive(k, end)))
        BY <1>6, <3>2, <3>5
      <4>5. \/ setting = {} /\ Promise!Becomes(Promise!With(k, <<"string", v>>, NoExpiry))
            \/ \E i \in setting :
                 Promise!Becomes(Promise!With(k, <<"string", v>>, Promise!Sets(options[i], t[i])))
        <5>1. CASE p.expireTime = NoExpiry
          <6>1. setting = {}
            BY <1>2, <2>2, <3>1, <5>1 DEF SoFar
          <6> QED
            BY <4>3, <5>1, <6>1
        <5>2. CASE p.expireTime # NoExpiry
          <6>1. PICK j \in 1..n : Promise!Sets(options[j], t[j]) = p.expireTime
            BY <2>2, <3>1, <5>2 DEF SoFar
          <6>2. j \in setting
            BY <1>2, <5>2, <6>1
          <6> QED
            BY <4>3, <6>1, <6>2
        <5> QED
          BY <5>1, <5>2
      <4> QED
        BY <3>2, <3>3, <4>1, <4>4, <4>5 DEF SetsString
    <3> QED
      BY <3>4, <3>5
  <2> QED
    BY <2>1, <2>2
<1> QED
  BY <1>3, <1>4, <1>8, SetsStringIs

(* Every string command is a step of the promise. *)
LEMMA OnStringsRefines ==
  ASSUME IInv, OnStrings
  PROVE  \/ Promise!Reads \/ Promise!Updates \/ Promise!SetString
         \/ Promise!SetForAWhile \/ Promise!SetPlain
<1>1. \/ \E k \in Keys, v \in Texts, o \in OptionLists : Set(k, v, o)
      \/ \E k \in Keys : Get(k) \/ StrLen(k) \/ Incr(k) \/ Decr(k)
      \/ \E k \in Keys, first, end \in IntArgs : GetRange(k, first, end)
      \/ \E k \in Keys, v \in Texts : GetSet(k, v) \/ SetNx(k, v) \/ AppendTo(k, v)
      \/ \E ks \in KeyLists : MGet(ks)
      \/ \E pairs \in PairLists : MSet(pairs) \/ MSetNx(pairs)
      \/ \E k \in Keys, s \in IntArgs, v \in Texts : SetEx(k, s, v) \/ PSetEx(k, s, v)
      \/ \E k \in Keys, s \in IntArgs : IncrBy(k, s) \/ DecrBy(k, s)
  BY DEF OnStrings
<1>2. \A s \in IntArgs : s \in Str
  BY ArgumentsAssumption
<1>3. \A v \in Texts : v \in Str
  BY ArgumentsAssumption
<1>4. ASSUME NEW k \in Keys, Incr(k) \/ Decr(k) PROVE Promise!Updates
  BY <1>4, ZeroText, IncrementsRefine
<1>5. ASSUME NEW k \in Keys, NEW s \in IntArgs, IncrBy(k, s) \/ DecrBy(k, s) PROVE Promise!Updates
  BY <1>5, <1>2, IncrementsRefine
<1>6. ASSUME NEW k \in Keys, NEW v \in Texts, GetSet(k, v) \/ SetNx(k, v) \/ AppendTo(k, v)
      PROVE  Promise!SetPlain \/ Promise!Updates
  BY <1>6, <1>3, GetSetRefines, SetNxRefines, AppendRefines
<1>7. ASSUME NEW k \in Keys, NEW first \in IntArgs, NEW end \in IntArgs, GetRange(k, first, end)
      PROVE  Promise!Reads
  BY <1>7, <1>2, GetRangeRefines
<1>8. ASSUME NEW k \in Keys, NEW s \in IntArgs, NEW v \in Texts, SetEx(k, s, v) \/ PSetEx(k, s, v)
      PROVE  Promise!SetForAWhile
  BY <1>8, <1>2, SetForRefines
<1>9. ASSUME NEW k \in Keys, Get(k) \/ StrLen(k) PROVE Promise!Reads
  BY <1>9, GetRefines, StrLenRefines
<1>10. ASSUME NEW ks \in KeyLists, MGet(ks) PROVE Promise!Reads
  BY <1>10, MGetRefines
<1>11. ASSUME NEW pairs \in PairLists, MSet(pairs) \/ MSetNx(pairs) PROVE Promise!SetPlain
  BY <1>11, MSetRefines, MSetNxRefines
<1>12. ASSUME NEW k \in Keys, NEW v \in Texts, NEW o \in OptionLists, Set(k, v, o) PROVE Promise!SetString
  BY <1>12, SetRefines
<1> QED
  BY <1>1, <1>4, <1>5, <1>6, <1>7, <1>8, <1>9, <1>10, <1>11, <1>12

=============================================================================
