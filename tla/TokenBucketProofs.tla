---------------------------- MODULE TokenBucketProofs ----------------------------
(***************************************************************************)
(* What the steps of TokenBucket keep, for any capacity, rate and clocks:  *)
(* the tokens left and the requests granted are together at most a burst   *)
(* and the refill of the time passed.  AccessProofs draws the theorem.     *)
(***************************************************************************)
EXTENDS TokenBucket, TLAPS

LEMMA TimesAdds ==
  ASSUME NEW n \in Nat, NEW i \in Int, NEW j \in Int
  PROVE  n * (i + j) = n * i + n * j
OBVIOUS

LEMMA TimesGrows ==
  ASSUME NEW n \in Nat, NEW i \in Int, NEW j \in Int, i <= j
  PROVE  n * i <= n * j
OBVIOUS

LEMMA TimesCloses ==
  ASSUME NEW n \in Nat \ {0}, NEW c \in Nat, NEW q \in Int, c + n - 1 < n * (q + 1)
  PROVE  c <= n * q
OBVIOUS

USE BucketAssumption

LEMMA SkewsAreBounded == MaxSkew \in Nat /\ \A s \in Skews : s <= MaxSkew
BY DEF MaxSkew

LEMMA LifetimeIsLong == Lifetime \in Nat /\ 2 * Capacity <= Rate * Lifetime
<1>1. PICK q \in Int : q = (Capacity + Rate - 1) \div Rate
  OBVIOUS
<1>2. Capacity + Rate - 1 < Rate * (q + 1) /\ q \in Nat
  BY <1>1
<1>3. Capacity <= Rate * q
  BY <1>2, TimesCloses
<1>4. Rate * (q + q) = Rate * q + Rate * q
  BY <1>2, TimesAdds
<1>5. Lifetime = q + q
  BY <1>1, <1>2 DEF Lifetime
<1> QED BY <1>2, <1>3, <1>4, <1>5

BucketInv == BucketTypeOK /\ DOMAIN bucket = Keys

Hash == [tokens : 0..Capacity, last : Nat, expires : Nat]

LEMMA RefilledIsTyped ==
  ASSUME NEW b, b = Fresh \/ b \in Hash, NEW t \in Nat
  PROVE  /\ Refilled(b, t) \in 0..Capacity
         /\ b = Fresh => Refilled(b, t) = Capacity
         /\ b # Fresh /\ t > b.last => Refilled(b, t) <= b.tokens + (t - b.last) * Rate
         /\ b # Fresh /\ t <= b.last => Refilled(b, t) = b.tokens
<1>1. CASE b = Fresh
  <2>1. b.tokens = Capacity /\ b.last = -1
    BY <1>1 DEF Fresh, Never
  <2>2. (t - b.last) * Rate \in Nat
    BY <2>1
  <2>3. Refilled(b, t) = Capacity
    BY <2>1, <2>2 DEF Refilled, Lesser
  <2> QED BY <1>1, <2>3
<1>2. CASE b # Fresh /\ t > b.last
  <2>1. b.tokens \in 0..Capacity /\ b.last \in Nat /\ t - b.last \in Nat
    BY <1>2 DEF Hash
  <2>2. PICK x \in Nat : x = (t - b.last) * Rate
    BY <2>1
  <2>3. Refilled(b, t) = Lesser(Capacity, b.tokens + x)
    BY <1>2, <2>2 DEF Refilled
  <2> QED BY <1>2, <2>1, <2>2, <2>3 DEF Lesser
<1>3. CASE b # Fresh /\ t <= b.last
  BY <1>3 DEF Hash, Refilled
<1> QED
  <2>1. b # Fresh => b.last \in Nat
    BY DEF Hash
  <2> QED BY <1>1, <1>2, <1>3, <2>1

LEMMA InitKeeps == BucketInit => BucketInv
BY DEF BucketInit, BucketInv, BucketTypeOK, Never

LEMMA KeyIsTyped ==
  ASSUME BucketInv, NEW k \in Keys
  PROVE  /\ bucket[k] = Fresh \/ bucket[k] \in Hash
         /\ bucket[k] # Fresh => bucket[k].last \in Nat
         /\ now \in Nat /\ now \in 0..MaxTime /\ rewound[k] \in Nat
         /\ granted[k] \in [count : Nat, since : 0..MaxTime \cup {Never}]
<1>1. bucket[k] = Fresh \/ bucket[k] \in Hash
  BY DEF BucketInv, BucketTypeOK, Hash
<1>2. bucket[k] # Fresh => bucket[k].last \in Nat
  BY <1>1 DEF Hash
<1>3. now \in Nat /\ now \in 0..MaxTime /\ rewound[k] \in Nat
  BY DEF BucketInv, BucketTypeOK
<1>4. granted[k] \in [count : Nat, since : 0..MaxTime \cup {Never}]
  BY DEF BucketInv, BucketTypeOK
<1> QED BY <1>1, <1>2, <1>3, <1>4

LEMMA ClockIsNat == ASSUME BucketInv, NEW skew \in Skews PROVE now \in Nat /\ now + skew \in Nat
<1>1. now \in Nat
  BY DEF BucketInv, BucketTypeOK
<1>2. skew \in Nat
  OBVIOUS
<1> QED BY <1>1, <1>2

\* What an allowed request leaves of the hash,
LEMMA AllowedHash ==
  ASSUME BucketInv, NEW k \in Keys, NEW skew \in Skews, Allow(k, skew)
  PROVE  /\ bucket'[k] = [tokens |-> Refilled(bucket[k], now + skew) - 1, last |-> now + skew,
                          expires |-> now + Lifetime]
         /\ bucket'[k] \in Hash /\ bucket'[k] # Fresh
         /\ \A j \in Keys \ {k} : bucket'[j] = bucket[j]
         /\ now' = now /\ DOMAIN bucket' = Keys
<1>1. /\ Refilled(bucket[k], now + skew) >= 1 /\ now' = now
      /\ bucket' = [bucket EXCEPT ![k] = [tokens |-> Refilled(bucket[k], now + skew) - 1, last |-> now + skew,
                                          expires |-> now + Lifetime]]
  BY DEF Allow, Tokens
<1>2. /\ bucket'[k] = [tokens |-> Refilled(bucket[k], now + skew) - 1, last |-> now + skew,
                       expires |-> now + Lifetime]
      /\ DOMAIN bucket' = Keys /\ \A j \in Keys \ {k} : bucket'[j] = bucket[j]
  BY <1>1 DEF BucketInv
<1>3. now + skew \in Nat /\ now + Lifetime \in Nat
  BY ClockIsNat, LifetimeIsLong
<1>4. Refilled(bucket[k], now + skew) - 1 \in 0..Capacity
  <2>1. Refilled(bucket[k], now + skew) \in 0..Capacity
    BY <1>3, KeyIsTyped, RefilledIsTyped
  <2> QED BY <1>1, <2>1
<1>5. bucket'[k] \in Hash
  BY <1>2, <1>3, <1>4 DEF Hash
<1>6. bucket'[k] # Fresh
  <2>1. bucket'[k].last \in Nat
    BY <1>5 DEF Hash
  <2> QED BY <2>1 DEF Fresh, Never
<1> QED BY <1>1, <1>2, <1>5, <1>6

\* and what it adds to the histories.
LEMMA AllowedHistory ==
  ASSUME BucketInv, NEW k \in Keys, NEW skew \in Skews, Allow(k, skew)
  PROVE  /\ granted'[k] = [count |-> granted[k].count + 1,
                           since |-> IF granted[k].since = Never THEN now ELSE granted[k].since]
         /\ rewound'[k] = rewound[k] + (IF bucket[k] # Fresh /\ now + skew < bucket[k].last
                                          THEN bucket[k].last - (now + skew) ELSE 0)
         /\ \A j \in Keys \ {k} : granted'[j] = granted[j] /\ rewound'[j] = rewound[j]
         /\ granted' \in [Keys -> [count : Nat, since : 0..MaxTime \cup {Never}]]
         /\ rewound' \in [Keys -> Nat]
<1>1. PICK r : r = [count |-> granted[k].count + 1,
                    since |-> IF granted[k].since = Never THEN now ELSE granted[k].since]
  OBVIOUS
<1>2. r \in [count : Nat, since : 0..MaxTime \cup {Never}]
  BY <1>1, KeyIsTyped
<1>3. granted \in [Keys -> [count : Nat, since : 0..MaxTime \cup {Never}]]
  BY DEF BucketInv, BucketTypeOK
<1>4. granted' = [granted EXCEPT ![k] = r]
  BY <1>1 DEF Allow, OneMore
<1>5. /\ granted' \in [Keys -> [count : Nat, since : 0..MaxTime \cup {Never}]]
      /\ granted'[k] = r /\ \A j \in Keys \ {k} : granted'[j] = granted[j]
  BY <1>2, <1>3, <1>4
<1>6. PICK w : w = rewound[k] + (IF bucket[k] # Fresh /\ now + skew < bucket[k].last
                                   THEN bucket[k].last - (now + skew) ELSE 0)
  OBVIOUS
<1>7. w \in Nat
  <2>1. now + skew \in Nat
    BY ClockIsNat
  <2>2. rewound[k] \in Nat /\ (bucket[k] # Fresh => bucket[k].last \in Nat)
    BY KeyIsTyped
  <2> QED BY <1>6, <2>1, <2>2
<1>8. rewound' = [rewound EXCEPT ![k] = w]
  <2>1. CASE bucket[k] = Fresh
    <3>1. ~ (now + skew < now + skew)
      <4>1. now + skew \in Nat
        BY ClockIsNat
      <4> QED BY <4>1
    <3> QED BY <1>6, <2>1, <3>1 DEF Allow
  <2>2. CASE bucket[k] # Fresh
    BY <1>6, <2>2 DEF Allow
  <2> QED BY <2>1, <2>2
<1>9. rewound \in [Keys -> Nat]
  BY DEF BucketInv, BucketTypeOK
<1>10. /\ rewound' \in [Keys -> Nat] /\ rewound'[k] = w
       /\ \A j \in Keys \ {k} : rewound'[j] = rewound[j]
  BY <1>7, <1>8, <1>9
<1> QED BY <1>1, <1>5, <1>6, <1>10

LEMMA AllowKeeps ==
  ASSUME BucketInv, NEW k \in Keys, NEW skew \in Skews, Allow(k, skew)
  PROVE  BucketInv'
<1>1. \A j \in Keys : bucket'[j] = Fresh \/ bucket'[j] \in Hash
  BY AllowedHash, KeyIsTyped
<1> QED BY <1>1, AllowedHash, AllowedHistory DEF BucketInv, BucketTypeOK, Hash

LEMMA TickKeeps == ASSUME BucketInv, Tick PROVE BucketInv'
<1>1. now' \in 0..MaxTime
  BY DEF Tick, BucketInv, BucketTypeOK
<1>2. /\ DOMAIN bucket' = Keys
      /\ \A j \in Keys : bucket'[j] = Fresh \/ bucket'[j] = bucket[j]
  BY DEF Tick
<1> QED BY <1>1, <1>2 DEF Tick, BucketInv, BucketTypeOK

-----------------------------------------------------------------------------
(* The requests granted.                                                   *)

\* With the tokens of the hash, what was granted is at most a burst and the
\* refill since the first request, up to the last one; without a hash, at most
\* the refill, since the hash lived as long as two bursts take.
GrantOK(k) ==
  /\ bucket[k] = Fresh /\ granted[k].since = Never => granted[k].count = 0
  /\ bucket[k] = Fresh /\ granted[k].since # Never =>
       granted[k].count <= Rate * ((now - granted[k].since) + rewound[k])
  /\ bucket[k] # Fresh =>
       /\ granted[k].since # Never
       /\ granted[k].count + bucket[k].tokens
            <= Capacity + Rate * ((bucket[k].last - granted[k].since) + rewound[k])
       /\ bucket[k].last + Lifetime <= bucket[k].expires + MaxSkew
       /\ bucket[k].expires <= now + Lifetime

GrantsOK == \A k \in Keys : GrantOK(k)

\* The same in numbers: c granted since s, b tokens at l, w rewound, t the new time.
LEMMA FirstGrant ==
  ASSUME NEW x \in Nat, NEW w \in Nat
  PROVE  Capacity <= Capacity + Rate * (x + w)
OBVIOUS

LEMMA LaterGrant ==
  ASSUME NEW c \in Nat, NEW b \in Nat, NEW l \in Int, NEW s \in Int, NEW w \in Int, NEW t \in Int, NEW r \in Nat,
         c + b <= Capacity + Rate * ((l - s) + w),
         r <= b + (t - l) * Rate
  PROVE  c + r <= Capacity + Rate * ((t - s) + w)
<1>1. Rate * (((l - s) + w) + (t - l)) = Rate * ((l - s) + w) + Rate * (t - l)
  BY TimesAdds
<1>2. ((l - s) + w) + (t - l) = (t - s) + w
  OBVIOUS
<1>3. (t - l) * Rate = Rate * (t - l)
  OBVIOUS
<1>4. PICK x, y, z \in Int : x = Rate * ((l - s) + w) /\ y = Rate * (t - l) /\ z = Rate * ((t - s) + w)
  OBVIOUS
<1>5. z = x + y /\ c + b <= Capacity + x /\ r <= b + y
  BY <1>1, <1>2, <1>3, <1>4
<1>6. c + r <= Capacity + z
  BY <1>5
<1> QED BY <1>4, <1>6

LEMMA RewoundGrant ==
  ASSUME NEW c \in Nat, NEW b \in Nat, NEW l \in Int, NEW s \in Int, NEW w \in Int, NEW t \in Int,
         c + b <= Capacity + Rate * ((l - s) + w)
  PROVE  c + b <= Capacity + Rate * ((t - s) + (w + (l - t)))
<1>1. (l - s) + w = (t - s) + (w + (l - t))
  OBVIOUS
<1> QED BY <1>1

LEMMA AllowGrants ==
  ASSUME BucketInv, NEW k \in Keys, GrantOK(k), NEW skew \in Skews, Allow(k, skew)
  PROVE  GrantOK(k)'
<1> DEFINE r == Refilled(bucket[k], now + skew)
           g == granted[k]
           t == now + skew
<1>1. /\ bucket'[k] = [tokens |-> r - 1, last |-> t, expires |-> now + Lifetime]
      /\ bucket'[k] # Fresh /\ now' = now
  BY AllowedHash
<1>2. /\ granted'[k] = [count |-> g.count + 1, since |-> IF g.since = Never THEN now ELSE g.since]
      /\ rewound'[k] = rewound[k] + (IF bucket[k] # Fresh /\ t < bucket[k].last
                                       THEN bucket[k].last - t ELSE 0)
  BY AllowedHistory
<1>3. /\ now \in Nat /\ now \in 0..MaxTime /\ rewound[k] \in Nat /\ t \in Nat /\ skew \in Nat
      /\ g.count \in Nat /\ g.since \in 0..MaxTime \cup {Never}
      /\ bucket[k] = Fresh \/ bucket[k] \in Hash
  <2>1. /\ now \in Nat /\ now \in 0..MaxTime /\ rewound[k] \in Nat /\ skew \in Nat
        /\ bucket[k] = Fresh \/ bucket[k] \in Hash
        /\ g \in [count : Nat, since : 0..MaxTime \cup {Never}]
    BY KeyIsTyped
  <2>2. g.count \in Nat /\ g.since \in 0..MaxTime \cup {Never}
    BY <2>1
  <2> QED BY <2>1, <2>2
<1>4. r \in 0..Capacity
  BY <1>3, RefilledIsTyped
<1>5. bucket'[k].last + Lifetime <= bucket'[k].expires + MaxSkew /\ bucket'[k].expires <= now' + Lifetime
  <2>1. bucket'[k].last = now + skew /\ bucket'[k].expires = now + Lifetime
    BY <1>1
  <2>2. skew <= MaxSkew /\ MaxSkew \in Nat /\ Lifetime \in Nat
    BY SkewsAreBounded, LifetimeIsLong
  <2>3. (now + skew) + Lifetime <= (now + Lifetime) + MaxSkew
    BY <1>3, <2>2
  <2> QED BY <1>1, <1>3, <2>1, <2>2, <2>3
<1>6. granted'[k].since # Never
  BY <1>2, <1>3 DEF Never
<1>7. granted'[k].count + bucket'[k].tokens = g.count + r
  BY <1>1, <1>2, <1>3, <1>4
<1>8. g.count + r <= Capacity + Rate * ((bucket'[k].last - granted'[k].since) + rewound'[k])
  <2>1. bucket'[k].last = t
    BY <1>1
  <2>2. CASE bucket[k] = Fresh /\ g.since = Never
    <3>1. g.count = 0 /\ r = Capacity
      BY <1>3, <2>2, RefilledIsTyped DEF GrantOK
    <3>2. granted'[k].since = now /\ rewound'[k] = rewound[k]
      BY <1>2, <1>3, <2>2
    <3>3. (t - now) + rewound[k] = skew + rewound[k]
      BY <1>3
    <3>4. Capacity <= Capacity + Rate * (skew + rewound[k])
      BY <1>3, FirstGrant
    <3> QED BY <2>1, <3>1, <3>2, <3>3, <3>4
  <2>3. CASE bucket[k] = Fresh /\ g.since # Never
    <3>1. g.count <= Rate * ((now - g.since) + rewound[k]) /\ r = Capacity
      BY <1>3, <2>3, RefilledIsTyped DEF GrantOK
    <3>2. granted'[k].since = g.since /\ rewound'[k] = rewound[k]
      BY <1>2, <1>3, <2>3
    <3>3. g.since \in Int
      BY <1>3 DEF Never
    <3>4. Rate * ((now - g.since) + rewound[k]) <= Rate * ((t - g.since) + rewound[k])
      <4>1. PICK x, y \in Int : x = (now - g.since) + rewound[k] /\ y = (t - g.since) + rewound[k]
        BY <1>3, <3>3
      <4>2. x <= y
        BY <1>3, <3>3, <4>1
      <4>3. Rate * x <= Rate * y
        BY <4>2, TimesGrows
      <4> QED BY <4>1, <4>3
    <3>5. PICK x, y \in Int : /\ x = Rate * ((now - g.since) + rewound[k])
                              /\ y = Rate * ((t - g.since) + rewound[k])
      BY <1>3, <3>3
    <3>6. g.count + Capacity <= Capacity + y
      BY <1>3, <3>1, <3>4, <3>5
    <3> QED BY <2>1, <3>1, <3>2, <3>5, <3>6
  <2>4. CASE bucket[k] # Fresh
    <3>1. /\ g.since # Never
          /\ g.count + bucket[k].tokens <= Capacity + Rate * ((bucket[k].last - g.since) + rewound[k])
      BY <2>4 DEF GrantOK
    <3>2. bucket[k].tokens \in Nat /\ bucket[k].last \in Nat
      BY <1>3, <2>4 DEF Hash
    <3>3. g.since \in Int /\ granted'[k].since = g.since
      BY <1>2, <1>3, <3>1
    <3>4. CASE t >= bucket[k].last
      <4>1. r <= bucket[k].tokens + (t - bucket[k].last) * Rate
        <5>1. CASE t > bucket[k].last
          BY <1>3, <2>4, <5>1, RefilledIsTyped
        <5>2. CASE t = bucket[k].last
          <6>1. r = bucket[k].tokens
            BY <1>3, <2>4, <3>2, <5>2, RefilledIsTyped
          <6>2. (t - bucket[k].last) * Rate = 0
            BY <3>2, <5>2
          <6> QED BY <3>2, <6>1, <6>2
        <5> QED BY <1>3, <3>2, <3>4, <5>1, <5>2
      <4>2. rewound'[k] = rewound[k]
        BY <1>2, <1>3, <3>2, <3>4
      <4>3. g.count + r <= Capacity + Rate * ((t - g.since) + rewound[k])
        BY <1>3, <1>4, <3>1, <3>2, <3>3, <4>1, LaterGrant
      <4> QED BY <2>1, <3>3, <4>2, <4>3
    <3>5. CASE t < bucket[k].last
      <4>1. r = bucket[k].tokens
        BY <1>3, <2>4, <3>2, <3>5, RefilledIsTyped
      <4>2. rewound'[k] = rewound[k] + (bucket[k].last - t)
        BY <1>2, <2>4, <3>5
      <4>3. g.count + bucket[k].tokens <= Capacity + Rate * ((t - g.since) + (rewound[k] + (bucket[k].last - t)))
        BY <1>3, <3>1, <3>2, <3>3, RewoundGrant
      <4> QED BY <2>1, <3>3, <4>1, <4>2, <4>3
    <3> QED BY <1>3, <3>2, <3>4, <3>5
  <2> QED BY <2>2, <2>3, <2>4
<1> HIDE DEF r, g, t
<1>9. granted'[k].count + bucket'[k].tokens
        <= Capacity + Rate * ((bucket'[k].last - granted'[k].since) + rewound'[k])
  BY <1>7, <1>8
<1> QED BY <1>1, <1>5, <1>6, <1>9 DEF GrantOK

\* In numbers: a hash that expires at e or before gives what remains of a second burst,
LEMMA ExpiredGrant ==
  ASSUME NEW c \in Nat, NEW l \in Int, NEW s \in Int, NEW w \in Int, NEW m \in Int,
         Rate * MaxSkew <= Capacity,
         c <= Capacity + Rate * ((l - s) + w),
         l + Lifetime <= m + MaxSkew
  PROVE  c <= Rate * ((m - s) + w)
<1>1. MaxSkew \in Nat /\ Lifetime \in Nat /\ 2 * Capacity <= Rate * Lifetime
  BY SkewsAreBounded, LifetimeIsLong
<1>2. Rate * ((l - s) + w) <= Rate * (((m - s) + w) + (MaxSkew - Lifetime))
  <2>1. PICK x, y \in Int : x = (l - s) + w /\ y = ((m - s) + w) + (MaxSkew - Lifetime)
    BY <1>1
  <2>2. x <= y
    BY <1>1, <2>1
  <2>3. Rate * x <= Rate * y
    BY <2>2, TimesGrows
  <2> QED BY <2>1, <2>3
<1>3. /\ Rate * (((m - s) + w) + (MaxSkew - Lifetime)) = Rate * ((m - s) + w) + Rate * (MaxSkew - Lifetime)
      /\ Rate * (MaxSkew - Lifetime) + Rate * Lifetime = Rate * MaxSkew
  <2>1. PICK x, y, z \in Int : x = (m - s) + w /\ y = MaxSkew - Lifetime /\ z = Lifetime
    BY <1>1
  <2>2. Rate * (x + y) = Rate * x + Rate * y /\ Rate * (y + z) = Rate * y + Rate * z
    BY TimesAdds
  <2>3. y + z = MaxSkew
    BY <1>1, <2>1
  <2> QED BY <2>1, <2>2, <2>3
<1>4. PICK a, b, d, e, f, g \in Int :
        /\ a = Rate * ((l - s) + w) /\ b = Rate * (((m - s) + w) + (MaxSkew - Lifetime))
        /\ d = Rate * ((m - s) + w) /\ e = Rate * (MaxSkew - Lifetime)
        /\ f = Rate * Lifetime /\ g = Rate * MaxSkew
  BY <1>1
<1>5. /\ a <= b /\ b = d + e /\ e + f = g /\ g <= Capacity /\ 2 * Capacity <= f
      /\ c <= Capacity + a
  BY <1>1, <1>2, <1>3, <1>4
<1>6. c <= d
  BY <1>5
<1> QED BY <1>4, <1>6

\* and time adds to it.
LEMMA LaterIsMore ==
  ASSUME NEW s \in Int, NEW w \in Int, NEW m \in Int, NEW n \in Int, m <= n
  PROVE  Rate * ((m - s) + w) <= Rate * ((n - s) + w)
<1>1. PICK x, y \in Int : x = (m - s) + w /\ y = (n - s) + w
  OBVIOUS
<1>2. x <= y
  BY <1>1
<1>3. Rate * x <= Rate * y
  BY <1>2, TimesGrows
<1> QED BY <1>1, <1>3

LEMMA TickGrants ==
  ASSUME BucketInv, NEW k \in Keys, GrantOK(k), Tick, Rate * MaxSkew <= Capacity
  PROVE  GrantOK(k)'
<1> DEFINE g == granted[k]
<1>1. /\ now' = now + 1 /\ granted' = granted /\ rewound' = rewound
      /\ bucket'[k] = IF bucket[k] # Fresh /\ bucket[k].expires <= now' THEN Fresh ELSE bucket[k]
  BY DEF Tick
<1>2. /\ now \in Nat /\ rewound[k] \in Nat
      /\ bucket[k] = Fresh \/ bucket[k] \in Hash
      /\ g \in [count : Nat, since : 0..MaxTime \cup {Never}]
  BY KeyIsTyped
<1>3. g.count \in Nat /\ g.since \in Int
  BY <1>2 DEF Never
<1>4. CASE bucket[k] = Fresh
  <2>1. bucket'[k] = Fresh
    BY <1>1, <1>4
  <2>2. CASE g.since = Never
    BY <1>1, <1>4, <2>1, <2>2 DEF GrantOK
  <2>3. CASE g.since # Never
    <3>1. g.count <= Rate * ((now - g.since) + rewound[k])
      BY <1>4, <2>3 DEF GrantOK
    <3>2. Rate * ((now - g.since) + rewound[k]) <= Rate * (((now + 1) - g.since) + rewound[k])
      <4>1. now \in Int /\ now + 1 \in Int /\ now <= now + 1 /\ rewound[k] \in Int
        BY <1>2
      <4> QED BY <1>3, <4>1, LaterIsMore
    <3>3. PICK x, y \in Int : /\ x = Rate * ((now - g.since) + rewound[k])
                              /\ y = Rate * (((now + 1) - g.since) + rewound[k])
      BY <1>2, <1>3
    <3>4. g.count <= y
      BY <1>3, <3>1, <3>2, <3>3
    <3> QED BY <1>1, <2>1, <2>3, <3>3, <3>4 DEF GrantOK
  <2> QED BY <2>2, <2>3
<1>5. CASE bucket[k] # Fresh
  <2>1. bucket[k].tokens \in Nat /\ bucket[k].last \in Nat /\ bucket[k].expires \in Nat
    BY <1>2, <1>5 DEF Hash
  <2>2. /\ g.since # Never
        /\ g.count + bucket[k].tokens <= Capacity + Rate * ((bucket[k].last - g.since) + rewound[k])
        /\ bucket[k].last + Lifetime <= bucket[k].expires + MaxSkew
        /\ bucket[k].expires <= now + Lifetime
    BY <1>5 DEF GrantOK
  <2>3. Lifetime \in Nat /\ MaxSkew \in Nat
    BY SkewsAreBounded, LifetimeIsLong
  <2>4. CASE bucket[k].expires <= now'
    <3>1. bucket'[k] = Fresh
      BY <1>1, <1>5, <2>4
    <3>2. bucket[k].last + Lifetime <= (now + 1) + MaxSkew
      BY <1>1, <1>2, <2>1, <2>2, <2>3, <2>4
    <3>3. g.count <= Capacity + Rate * ((bucket[k].last - g.since) + rewound[k])
      <4>1. PICK x \in Int : x = Rate * ((bucket[k].last - g.since) + rewound[k])
        BY <1>2, <1>3, <2>1
      <4> QED BY <1>3, <2>1, <2>2, <4>1
    <3>4. g.count <= Rate * (((now + 1) - g.since) + rewound[k])
      <4>1. now + 1 \in Int /\ rewound[k] \in Int /\ bucket[k].last \in Int
        BY <1>2, <2>1
      <4> QED BY <1>3, <3>2, <3>3, <4>1, ExpiredGrant
    <3> QED BY <1>1, <2>2, <3>1, <3>4 DEF GrantOK
  <2>5. CASE ~ (bucket[k].expires <= now')
    <3>1. bucket'[k] = bucket[k]
      BY <1>1, <1>5, <2>5
    <3>2. bucket[k].expires <= now' + Lifetime
      BY <1>1, <1>2, <2>1, <2>2, <2>3
    <3> QED BY <1>1, <1>5, <2>2, <3>1, <3>2 DEF GrantOK
  <2> QED BY <2>4, <2>5
<1> QED BY <1>4, <1>5

LEMMA InitGrants == BucketInit => GrantsOK
<1> SUFFICES ASSUME BucketInit, NEW k \in Keys PROVE GrantOK(k)
  BY DEF GrantsOK
<1>1. bucket[k] = Fresh /\ granted[k].count = 0 /\ granted[k].since = Never
  BY DEF BucketInit
<1> QED BY <1>1 DEF GrantOK

LEMMA GrantsKeep ==
  ASSUME BucketInv, GrantsOK, Rate * MaxSkew <= Capacity,
         \/ \E k \in Keys, skew \in Skews : Allow(k, skew)
         \/ Tick
         \/ UNCHANGED bucketVars
  PROVE  GrantsOK'
<1>1. ASSUME NEW k \in Keys, NEW skew \in Skews, Allow(k, skew)
      PROVE  GrantsOK'
  <2>1. GrantOK(k)'
    BY <1>1, AllowGrants DEF GrantsOK
  <2>2. ASSUME NEW j \in Keys \ {k} PROVE GrantOK(j)'
    <3>1. bucket'[j] = bucket[j] /\ granted'[j] = granted[j] /\ rewound'[j] = rewound[j] /\ now' = now
      BY <1>1, <2>2, AllowedHash, AllowedHistory
    <3>2. GrantOK(j)
      BY <2>2 DEF GrantsOK
    <3> QED BY <3>1, <3>2 DEF GrantOK
  <2> QED BY <2>1, <2>2 DEF GrantsOK
<1>2. CASE Tick
  BY <1>2, TickGrants DEF GrantsOK
<1>3. CASE UNCHANGED bucketVars
  <2>1. ASSUME NEW k \in Keys PROVE GrantOK(k)'
    BY <1>3 DEF bucketVars, GrantsOK, GrantOK
  <2> QED BY <2>1 DEF GrantsOK
<1> QED BY <1>1, <1>2, <1>3

LEMMA GrantsOKIsEnough == BucketInv /\ GrantsOK => GrantsAreBounded
<1> SUFFICES ASSUME BucketInv, GrantsOK, NEW k \in Keys
             PROVE  granted[k].count <= Capacity + Rate * ((now - granted[k].since) + rewound[k] + MaxSkew)
  BY DEF GrantsAreBounded
<1> DEFINE g == granted[k]
<1>1. /\ now \in Nat /\ rewound[k] \in Nat /\ MaxSkew \in Nat /\ Lifetime \in Nat
      /\ bucket[k] = Fresh \/ bucket[k] \in Hash
      /\ g \in [count : Nat, since : 0..MaxTime \cup {Never}]
  BY KeyIsTyped, SkewsAreBounded, LifetimeIsLong
<1>2. g.count \in Nat /\ g.since \in Int
  BY <1>1 DEF Never
<1>3. GrantOK(k)
  BY DEF GrantsOK
<1>4. PICK z \in Int : z = Rate * ((now - g.since) + rewound[k] + MaxSkew)
  BY <1>1, <1>2
<1>5. CASE bucket[k] = Fresh /\ g.since = Never
  <2>1. (now - g.since) + rewound[k] + MaxSkew \in Nat
    BY <1>1, <1>5 DEF Never
  <2>2. z >= 0
    BY <1>4, <2>1
  <2>3. g.count = 0
    BY <1>3, <1>5 DEF GrantOK
  <2>4. g.count <= Capacity + z
    BY <2>2, <2>3
  <2> QED BY <1>4, <2>4
<1>6. CASE bucket[k] = Fresh /\ g.since # Never
  <2>1. g.count <= Rate * ((now - g.since) + rewound[k])
    BY <1>3, <1>6 DEF GrantOK
  <2>2. PICK x, y \in Int : x = (now - g.since) + rewound[k] /\ y = (now - g.since) + rewound[k] + MaxSkew
    BY <1>1, <1>2
  <2>3. x <= y
    BY <1>1, <1>2, <2>2
  <2>4. Rate * x <= Rate * y
    BY <2>3, TimesGrows
  <2>5. g.count <= Capacity + Rate * y
    <3>1. PICK a, b \in Int : a = Rate * x /\ b = Rate * y
      OBVIOUS
    <3>2. g.count <= a /\ a <= b
      BY <2>1, <2>2, <2>4, <3>1
    <3>3. g.count <= Capacity + b
      BY <1>2, <3>2
    <3> QED BY <3>1, <3>3
  <2> QED BY <2>2, <2>5
<1>7. CASE bucket[k] # Fresh
  <2>1. bucket[k].tokens \in Nat /\ bucket[k].last \in Nat /\ bucket[k].expires \in Nat
    BY <1>1, <1>7 DEF Hash
  <2>2. /\ g.count + bucket[k].tokens <= Capacity + Rate * ((bucket[k].last - g.since) + rewound[k])
        /\ bucket[k].last + Lifetime <= bucket[k].expires + MaxSkew
        /\ bucket[k].expires <= now + Lifetime
    BY <1>3, <1>7 DEF GrantOK
  <2>3. bucket[k].last <= now + MaxSkew
    BY <1>1, <2>1, <2>2
  <2>4. PICK x, y \in Int : /\ x = (bucket[k].last - g.since) + rewound[k]
                            /\ y = (now - g.since) + rewound[k] + MaxSkew
    BY <1>1, <1>2, <2>1
  <2>5. x <= y
    BY <1>1, <1>2, <2>1, <2>3, <2>4
  <2>6. Rate * x <= Rate * y
    BY <2>5, TimesGrows
  <2>7. g.count <= Capacity + Rate * y
    <3>1. PICK a, b \in Int : a = Rate * x /\ b = Rate * y
      OBVIOUS
    <3>2. g.count + bucket[k].tokens <= Capacity + a /\ a <= b
      BY <2>2, <2>4, <2>6, <3>1
    <3>3. g.count <= Capacity + b
      BY <1>2, <2>1, <3>2
    <3> QED BY <3>1, <3>3
  <2> QED BY <2>4, <2>7
<1> QED BY <1>1, <1>5, <1>6, <1>7
=================================================================================
