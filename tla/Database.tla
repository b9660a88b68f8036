------------------------------ MODULE Database ------------------------------
(* class Database (src/db/Database.h) as operators on a store, a function    *)
(* from the keys it holds to their objects.  A key whose deadline has passed *)
(* stays in the store until a call looks at it (lazy deletion).  The code    *)
(* reads the clock anew at every look; the reading is a parameter t here.    *)
EXTENDS Values, Functions

Put(d, k, o) == [x \in DOMAIN d \cup {k} |-> IF x = k THEN o ELSE d[x]]
Erase(d, k) == Restrict(d, DOMAIN d \ {k})

(* Mutant: a key still lives at its deadline. *)
IsExpiredLate(o, t) == o.expiresAt # NoExpiry /\ t > o.expiresAt

(* isExpired *)
IsExpired(o, t) == o.expiresAt # NoExpiry /\ t >= o.expiresAt

(* expireIfNeeded: the store it leaves behind. *)
ExpireIfNeeded(d, k, t) ==
  IF k \in DOMAIN d /\ IsExpired(d[k], t) THEN Erase(d, k) ELSE d

(* exists(key), and get(key) # nullptr: what a look at time t sees. *)
Sees(d, k, t) == k \in DOMAIN ExpireIfNeeded(d, k, t)

(* The looks exists(ks[i]) at time ts[i], one after the other. *)
ExpireEach(d, ks, ts) ==
  Restrict(d, {k \in DOMAIN d : \A i \in DOMAIN ks : ks[i] = k => ~IsExpired(d[k], ts[i])})

SetExpire(d, k, e) ==
  IF k \in DOMAIN d THEN [d EXCEPT ![k].expiresAt = e] ELSE d

SetValue(d, k, v) == [d EXCEPT ![k].value = v]

GetExpire(d, k) == IF k \in DOMAIN d THEN d[k].expiresAt ELSE NoExpiry

(* ttl(key): one look at t[1] and a second reading t[2] for the remainder. *)
Ttl(d, k, t) ==
  IF ~Sees(d, k, t[1]) THEN -2
  ELSE IF d[k].expiresAt = NoExpiry THEN -1
  ELSE IF d[k].expiresAt - t[2] > 0 THEN d[k].expiresAt - t[2] ELSE -2

(* rename(old, new, overwrite): its result and the store, with the look at   *)
(* `old` at t[1] and the look at `new` at t[2].  The moved node keeps its    *)
(* object, deadline included.                                                *)
Rename(d, old, new, overwrite, t) ==
  LET d1 == ExpireIfNeeded(d, old, t[1])
      d2 == ExpireIfNeeded(d1, new, t[2])
  IN  IF old = new \/ d1 # d
      THEN [done |-> old \in DOMAIN d1, store |-> d1]
      ELSE IF old \notin DOMAIN d2 \/ (~overwrite /\ new \in DOMAIN d2)
      THEN [done |-> FALSE, store |-> d2]
      ELSE [done |-> TRUE, store |-> Put(Erase(d2, old), new, d2[old])]

(* The keys a client can still see at time t, whatever has been purged. *)
Live(d, t) == Restrict(d, {k \in DOMAIN d : ~IsExpired(d[k], t)})
=============================================================================
