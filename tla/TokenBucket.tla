----------------------------- MODULE TokenBucket -----------------------------
(***************************************************************************)
(* The token bucket that limits the requests made with an API key: a hash  *)
(* in Redis, read and written by one script.  The time is the argument     *)
(* that each API process passes, by its own clock in whole seconds.        *)
(***************************************************************************)
EXTENDS Integers

CONSTANTS Keys,
          Skews,     \* how far the clocks of the processes are ahead of the time
          Capacity, Rate,
          MaxTime    \* bound: the last instant

ASSUME BucketAssumption ==
  /\ Skews \subseteq Nat /\ 0 \in Skews
  /\ \E s \in Skews : \A x \in Skews : x <= s
  /\ Capacity \in Nat \ {0} /\ Rate \in Nat \ {0} /\ MaxTime \in Nat

VARIABLES
  now,
  bucket,   \* per key: tokens, last_refill and when the hash expires, or Fresh
  granted,  \* history: requests allowed, and when the first was
  rewound   \* history: seconds by which last_refill was moved back

bucketVars == <<now, bucket, granted, rewound>>

Never == -1

\* Of the process that is ahead most.
MaxSkew == CHOOSE s \in Skews : \A x \in Skews : x <= s

\* No hash: a request finds a full bucket.
Fresh == [tokens |-> Capacity, last |-> Never, expires |-> Never]

\* PEXPIRE after an allowed request: twice the time a full refill takes.
Lifetime == 2 * ((Capacity + Rate - 1) \div Rate)

BucketTypeOK ==
  /\ now \in 0..MaxTime
  /\ \A k \in Keys :
       \/ bucket[k] = Fresh
       \/ bucket[k] \in [tokens : 0..Capacity, last : Nat, expires : Nat]
  /\ granted \in [Keys -> [count : Nat, since : 0..MaxTime \cup {Never}]]
  /\ rewound \in [Keys -> Nat]

BucketInit ==
  /\ now = 0
  /\ bucket = [k \in Keys |-> Fresh]
  /\ granted = [k \in Keys |-> [count |-> 0, since |-> Never]]
  /\ rewound = [k \in Keys |-> 0]

Lesser(m, n) == IF m < n THEN m ELSE n

\* The tokens when a process whose clock shows t asks.
Refilled(b, t) ==
  IF t > b.last THEN Lesser(Capacity, b.tokens + (t - b.last) * Rate) ELSE b.tokens

Tokens(k, t) == Refilled(bucket[k], t)

\* What was granted to the key, with this request.
OneMore(k) ==
  [count |-> granted[k].count + 1,
   since |-> IF granted[k].since = Never THEN now ELSE granted[k].since]

\* Faulty: an allowed request leaves the time of the last refill.
KeepLastRefill(k, skew) ==
  LET t == now + skew
      before == IF bucket[k] = Fresh THEN t ELSE bucket[k].last
  IN
  /\ Tokens(k, t) >= 1
  /\ bucket' = [bucket EXCEPT ![k] =
                  [tokens |-> Tokens(k, t) - 1, last |-> before, expires |-> now + Lifetime]]
  /\ granted' = [granted EXCEPT ![k] = OneMore(k)]
  /\ UNCHANGED <<now, rewound>>

\* The script allows the request: last_refill is the caller's time even when
\* that lies before it.
Allow(k, skew) ==
  LET t == now + skew
      before == IF bucket[k] = Fresh THEN t ELSE bucket[k].last
  IN
  /\ Tokens(k, t) >= 1
  /\ bucket' = [bucket EXCEPT ![k] =
                  [tokens |-> Tokens(k, t) - 1, last |-> t, expires |-> now + Lifetime]]
  /\ granted' = [granted EXCEPT ![k] = OneMore(k)]
  /\ rewound' = [rewound EXCEPT ![k] = @ + (IF t < before THEN before - t ELSE 0)]
  /\ UNCHANGED now

\* A denied request writes nothing.
Deny(k, skew) == Tokens(k, now + skew) < 1 /\ UNCHANGED bucketVars

\* A second passes; hashes that are not used expire.
Tick ==
  /\ now < MaxTime
  /\ now' = now + 1
  /\ bucket' = [k \in Keys |->
                  IF bucket[k] # Fresh /\ bucket[k].expires <= now' THEN Fresh ELSE bucket[k]]
  /\ UNCHANGED <<granted, rewound>>

\* A key is granted its burst and the rate times the time since its first
\* request, and no more: not by the expiry of the hash, and not by clocks that
\* differ, except for the time by which a slower process moved last_refill
\* back and the one difference a process ahead of the first may gain
\* (bucket.go's script, run by several API processes).
GrantsAreBounded ==
  \A k \in Keys :
    granted[k].count <= Capacity + Rate * ((now - granted[k].since) + rewound[k] + MaxSkew)
=============================================================================
