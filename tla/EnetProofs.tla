------------------------------ MODULE EnetProofs -------------------------------
(***************************************************************************)
(* Proofs about ENet, for windows, messages, datagrams and retries of any  *)
(* number: what reliableWindows counts, whatever the network does.         *)
(***************************************************************************)
EXTENDS Enet, SequenceTheorems, FiniteSetTheorems, WellFoundedInduction, TLAPS


(***************************************************************************)
(* Induction, and loops.                                                   *)
(***************************************************************************)
(* Every set of numbers that is not empty has a least one.                 *)
LEMMA Least ==
    ASSUME NEW S, S \subseteq Nat, S # {}
    PROVE  \E n \in S : \A m \in S : n <= m
    <1> DEFINE R == {e \in Nat \X Nat : e[1] < e[2]}
    <1>1. IsWellFoundedOn(R, Nat)
        <2>1. OpToRel(<, Nat) = R
            BY Zenon DEF OpToRel
        <2> QED
            BY <2>1, NatLessThanWellFounded, Zenon
    <1>2. PICK n \in S : \A m \in S : <<m, n>> \notin R
        BY <1>1, WFMin
    <1>3. \A m \in S : n \in Nat /\ m \in Nat /\ ~(m < n)
        BY <1>2
    <1> HIDE DEF R
    <1> QED
        BY <1>3

(* What holds of 0 and of the successor of what it holds of, holds of all. *)
LEMMA Induction ==
    ASSUME NEW S, 0 \in S, \A n \in Nat : n \in S => n + 1 \in S
    PROVE  Nat \subseteq S
    <1> SUFFICES ASSUME Nat \ S # {} PROVE FALSE
        OBVIOUS
    <1>1. PICK n \in Nat \ S : \A m \in Nat \ S : n <= m
        BY Least
    <1>2. n # 0 /\ n - 1 \in Nat
        OBVIOUS
    <1>3. n - 1 \in S
        BY <1>1, <1>2
    <1> QED
        BY <1>1, <1>2, <1>3

\* f has the states of a loop of n turns: that of turn i is made from the one before by step.
IsLoop(f, n, s0, step) == f = [i \in 0 .. n |-> IF i = 0 THEN s0 ELSE step[<<i, f[i - 1]>>]]

(* There is such a function.                                               *)
LEMMA Loop ==
    ASSUME NEW n \in Nat, NEW s0, NEW step
    PROVE  \E f : IsLoop(f, n, s0, step)
    <1> DEFINE S == {k \in Nat : \E f : IsLoop(f, k, s0, step)}
    <1>1. 0 \in S
        <2>1. [i \in 0 .. 0 |-> s0] = [i \in 0 .. 0 |-> IF i = 0 THEN s0 ELSE step[<<i, [j \in 0 .. 0 |-> s0][i - 1]>>]]
            OBVIOUS
        <2> QED
            BY <2>1 DEF IsLoop
    <1>2. ASSUME NEW k \in Nat, k \in S PROVE k + 1 \in S
        <2>1. PICK f : f = [i \in 0 .. k |-> IF i = 0 THEN s0 ELSE step[<<i, f[i - 1]>>]]
            BY <1>2 DEF IsLoop
        <2> DEFINE g == [i \in 0 .. k + 1 |-> IF i <= k THEN f[i] ELSE step[<<i, f[k]>>]]
        <2>2. g = [i \in 0 .. k + 1 |-> IF i = 0 THEN s0 ELSE step[<<i, g[i - 1]>>]]
            <3>1. ASSUME NEW i \in 0 .. k + 1 PROVE g[i] = IF i = 0 THEN s0 ELSE step[<<i, g[i - 1]>>]
                <4>1. CASE i = 0
                    BY <2>1, <4>1
                <4>2. CASE i \in 1 .. k
                    <5>1. f[i] = step[<<i, f[i - 1]>>]
                        BY <2>1, <4>2
                    <5>2. g[i] = f[i] /\ g[i - 1] = f[i - 1]
                        BY <4>2
                    <5> QED
                        BY <4>2, <5>1, <5>2
                <4>3. CASE i = k + 1
                    <5>1. g[i] = step[<<i, f[k]>>] /\ g[i - 1] = f[k]
                        BY <4>3
                    <5> QED
                        BY <4>3, <5>1
                <4> QED
                    BY <4>1, <4>2, <4>3
            <3> QED
                BY <3>1
        <2>3. IsLoop(g, k + 1, s0, step)
            <3> HIDE DEF g
            <3> QED
                BY <2>2 DEF IsLoop
        <2> QED
            BY <2>3
    <1> HIDE DEF S
    <1>3. n \in S
        BY <1>1, <1>2, Induction
    <1> QED
        BY <1>3 DEF S

(* ... and what every turn keeps holds at its end: S[i] is what holds      *)
(* after i turns.                                                          *)
LEMMA LoopKeeps ==
    ASSUME NEW n \in Nat, NEW S, NEW s0 \in S[0], NEW step,
           \A i \in 1 .. n : \A x \in S[i - 1] : step[<<i, x>>] \in S[i]
    PROVE  \E f : IsLoop(f, n, s0, step) /\ \A i \in 0 .. n : f[i] \in S[i]
    <1>1. PICK f : IsLoop(f, n, s0, step)
        BY Loop
    <1> DEFINE T == {k \in Nat : k <= n => f[k] \in S[k]}
    <1>2. 0 \in T
        <2>1. f[0] = s0
            BY <1>1 DEF IsLoop
        <2> QED
            BY <2>1
    <1>3. ASSUME NEW k \in Nat, k \in T PROVE k + 1 \in T
        <2> SUFFICES ASSUME k + 1 <= n PROVE f[k + 1] \in S[k + 1]
            OBVIOUS
        <2>1. f[k] \in S[k] /\ k + 1 \in 1 .. n /\ (k + 1) - 1 = k
            BY <1>3
        <2>2. f[k + 1] = step[<<k + 1, f[k]>>]
            BY <1>1, <2>1 DEF IsLoop
        <2> QED
            BY <2>1, <2>2
    <1> HIDE DEF T
    <1>4. Nat \subseteq T
        BY <1>2, <1>3, Induction
    <1>5. \A i \in 0 .. n : f[i] \in S[i]
        BY <1>4 DEF T
    <1> QED
        BY <1>1, <1>5

(***************************************************************************)
(* The elements of a sequence at chosen places.                            *)
(***************************************************************************)
\* k are the elements of s at the places of I up to n: g tells where each comes from.
Picks(k, s, I, n) ==
    \E g \in [1 .. Len(k) -> 1 .. n] :
        /\ \A i, j \in 1 .. Len(k) : i < j => g[i] < g[j]
        /\ \A i \in 1 .. Len(k) : k[i] = s[g[i]] /\ g[i] \in I
        /\ \A m \in 1 .. n : m \in I => \E i \in 1 .. Len(k) : g[i] = m

(* One place more is one element more, if it was chosen.                   *)
LEMMA PicksNext ==
    ASSUME NEW S, NEW s \in Seq(S), NEW I, NEW k \in Seq(S), NEW n \in Nat, n + 1 <= Len(s), Picks(k, s, I, n)
    PROVE  /\ n + 1 \in I => Append(k, s[n + 1]) \in Seq(S) /\ Picks(Append(k, s[n + 1]), s, I, n + 1)
           /\ n + 1 \notin I => Picks(k, s, I, n + 1)
    <1>1. PICK g \in [1 .. Len(k) -> 1 .. n] :
              /\ \A i, j \in 1 .. Len(k) : i < j => g[i] < g[j]
              /\ \A i \in 1 .. Len(k) : k[i] = s[g[i]] /\ g[i] \in I
              /\ \A m \in 1 .. n : m \in I => \E i \in 1 .. Len(k) : g[i] = m
        BY DEF Picks
    <1>2. Len(k) \in Nat /\ Len(s) \in Nat /\ n + 1 \in 1 .. Len(s)
        OBVIOUS
    <1>3. CASE n + 1 \in I
        <2> DEFINE l == Append(k, s[n + 1])
                   h == [i \in 1 .. Len(k) + 1 |-> IF i <= Len(k) THEN g[i] ELSE n + 1]
        <2>1. l \in Seq(S) /\ Len(l) = Len(k) + 1 /\ l[Len(k) + 1] = s[n + 1] /\ \A i \in 1 .. Len(k) : l[i] = k[i]
            BY <1>2
        <2>2. h \in [1 .. Len(l) -> 1 .. n + 1]
            BY <1>2, <2>1
        <2>3. (\A i \in 1 .. Len(k) : h[i] = g[i] /\ g[i] \in 1 .. n) /\ h[Len(k) + 1] = n + 1
            BY <1>2
        <2> HIDE DEF l, h
        <2>4. \A i, j \in 1 .. Len(l) : i < j => h[i] < h[j]
            <3> SUFFICES ASSUME NEW i \in 1 .. Len(l), NEW j \in 1 .. Len(l), i < j PROVE h[i] < h[j]
                OBVIOUS
            <3>1. i \in 1 .. Len(k) /\ h[i] = g[i] /\ g[i] \in 1 .. n
                BY <1>2, <2>1, <2>3
            <3>2. CASE j \in 1 .. Len(k)
                BY <1>1, <2>3, <3>1, <3>2
            <3>3. CASE j = Len(k) + 1
                BY <2>3, <3>1, <3>3
            <3> QED
                BY <1>2, <2>1, <3>2, <3>3, SMTT(60)
        <2>5. \A i \in 1 .. Len(l) : l[i] = s[h[i]] /\ h[i] \in I
            BY <1>1, <1>2, <1>3, <2>1, <2>3, SMTT(60)
        <2>6. \A m \in 1 .. n + 1 : m \in I => \E i \in 1 .. Len(l) : h[i] = m
            <3> SUFFICES ASSUME NEW m \in 1 .. n + 1, m \in I PROVE \E i \in 1 .. Len(l) : h[i] = m
                OBVIOUS
            <3>1. CASE m = n + 1
                BY <1>2, <2>1, <2>3, <3>1
            <3>2. CASE m \in 1 .. n
                <4>1. PICK i \in 1 .. Len(k) : g[i] = m
                    BY <1>1, <3>2
                <4>2. i \in 1 .. Len(l) /\ h[i] = m
                    BY <1>2, <2>1, <2>3, <4>1
                <4> QED
                    BY <4>2
            <3> QED
                BY <3>1, <3>2
        <2>7. Picks(l, s, I, n + 1)
            BY <2>2, <2>4, <2>5, <2>6 DEF Picks
        <2> QED
            BY <1>3, <2>1, <2>7 DEF l
    <1>4. CASE n + 1 \notin I
        <2>1. g \in [1 .. Len(k) -> 1 .. n + 1]
            OBVIOUS
        <2>2. \A m \in 1 .. n + 1 : m \in I => \E i \in 1 .. Len(k) : g[i] = m
            BY <1>1, <1>4
        <2> QED
            BY <1>1, <1>4, <2>1, <2>2 DEF Picks
    <1> QED
        BY <1>3, <1>4

(* What Picked is.                                                         *)
LEMMA PickedIs ==
    ASSUME NEW S, NEW s \in Seq(S), NEW I
    PROVE  Picked(s, I) \in Seq(S) /\ Picks(Picked(s, I), s, I, Len(s))
    <1> DEFINE G(f) == f = [n \in 0 .. Len(s) |->
                               IF n = 0 THEN <<>> ELSE IF n \in I THEN Append(f[n - 1], s[n]) ELSE f[n - 1]]
               T == [n \in 0 .. Len(s) |-> {k \in Seq(S) : Picks(k, s, I, n)}]
               step == [e \in (1 .. Len(s)) \X Seq(S) |-> IF e[1] \in I THEN Append(e[2], s[e[1]]) ELSE e[2]]
    <1>1. Len(s) \in Nat /\ \A n \in 1 .. Len(s) : s[n] \in S /\ n - 1 \in 0 .. Len(s) /\ n - 1 \in Nat /\ (n - 1) + 1 = n
        OBVIOUS
    <1>2. <<>> \in T[0]
        <2>1. <<>> \in Seq(S) /\ Len(<<>>) = 0 /\ 1 .. 0 = {}
            OBVIOUS
        <2>2. [i \in 1 .. 0 |-> i] \in [1 .. Len(<<>>) -> 1 .. 0]
            BY <2>1
        <2>3. Picks(<<>>, s, I, 0)
            BY <2>1, <2>2 DEF Picks
        <2> QED
            BY <1>1, <2>1, <2>3
    <1>3. ASSUME NEW n \in 1 .. Len(s), NEW k \in T[n - 1]
          PROVE  (IF n \in I THEN Append(k, s[n]) ELSE k) \in T[n]
        <2>1. k \in Seq(S) /\ Picks(k, s, I, n - 1)
            BY <1>1, <1>3
        <2>2. /\ n \in I => Append(k, s[n]) \in Seq(S) /\ Picks(Append(k, s[n]), s, I, n)
              /\ n \notin I => Picks(k, s, I, n)
            <3> DEFINE m == n - 1
            <3>1. m \in Nat /\ m + 1 = n /\ m + 1 <= Len(s)
                BY <1>1
            <3> HIDE DEF m
            <3>2. Picks(k, s, I, m)
                BY <2>1 DEF m
            <3>3. /\ m + 1 \in I => Append(k, s[m + 1]) \in Seq(S) /\ Picks(Append(k, s[m + 1]), s, I, m + 1)
                  /\ m + 1 \notin I => Picks(k, s, I, m + 1)
                BY <2>1, <3>1, <3>2, PicksNext
            <3> QED
                BY <3>1, <3>3
        <2> DEFINE l == IF n \in I THEN Append(k, s[n]) ELSE k
        <2>3. l \in Seq(S) /\ Picks(l, s, I, n)
            BY <2>1, <2>2
        <2>4. T[n] = {m \in Seq(S) : Picks(m, s, I, n)}
            BY <1>1
        <2> HIDE DEF T, l
        <2>5. l \in T[n]
            BY <2>3, <2>4
        <2> QED
            BY <2>5 DEF l
    <1>4. \A n \in 1 .. Len(s) : \A k \in T[n - 1] : step[<<n, k>>] = (IF n \in I THEN Append(k, s[n]) ELSE k)
        BY <1>1
    <1>5. \A n \in 0 .. Len(s) : T[n] \subseteq Seq(S)
        OBVIOUS
    <1> DEFINE F == CHOOSE f : G(f)
    <1>6. Picked(s, I) = F[Len(s)]
        BY DEF Picked
    <1>x. T[Len(s)] = {k \in Seq(S) : Picks(k, s, I, Len(s))}
        BY <1>1
    <1> HIDE DEF T, step
    <1>7. PICK f : IsLoop(f, Len(s), <<>>, step) /\ \A n \in 0 .. Len(s) : f[n] \in T[n]
        <2>1. \A n \in 1 .. Len(s) : \A k \in T[n - 1] : step[<<n, k>>] \in T[n]
            BY <1>3, <1>4, ZenonT(60)
        <2>2. Len(s) \in Nat
            BY <1>1
        <2> QED
            BY <1>2, <2>1, <2>2, LoopKeeps
    <1>8. G(f)
        <2>1. f = [n \in 0 .. Len(s) |-> IF n = 0 THEN <<>> ELSE step[<<n, f[n - 1]>>]]
            BY <1>7 DEF IsLoop
        <2>2. \A n \in 0 .. Len(s) : n # 0 => n \in 1 .. Len(s)
            BY <1>1
        <2>3. \A n \in 1 .. Len(s) : step[<<n, f[n - 1]>>] = (IF n \in I THEN Append(f[n - 1], s[n]) ELSE f[n - 1])
            BY <1>1, <1>4, <1>7
        <2> DEFINE body == [n \in 0 .. Len(s) |->
                               IF n = 0 THEN <<>> ELSE IF n \in I THEN Append(f[n - 1], s[n]) ELSE f[n - 1]]
        <2>4. \A n \in 0 .. Len(s) : (IF n = 0 THEN <<>> ELSE step[<<n, f[n - 1]>>]) = body[n]
            BY <2>2, <2>3
        <2> QED
            BY <2>1, <2>4
    <1>9. G(F)
        <2> HIDE DEF G
        <2> QED
            BY <1>8
    <1> HIDE DEF F
    <1>11. \A m \in 1 .. Len(s) : F[m] = IF m \in I THEN Append(F[m - 1], s[m]) ELSE F[m - 1]
        <2>1. \A m \in 0 .. Len(s) : F[m] = IF m = 0 THEN <<>> ELSE IF m \in I THEN Append(F[m - 1], s[m]) ELSE F[m - 1]
            <3> DEFINE body == [n \in 0 .. Len(s) |->
                                   IF n = 0 THEN <<>> ELSE IF n \in I THEN Append(F[n - 1], s[n]) ELSE F[n - 1]]
            <3>1. F = body
                BY <1>9
            <3>2. \A m \in 0 .. Len(s) :
                      body[m] = IF m = 0 THEN <<>> ELSE IF m \in I THEN Append(F[m - 1], s[m]) ELSE F[m - 1]
                OBVIOUS
            <3> HIDE DEF body, G
            <3> QED
                BY <3>1, <3>2
        <2> HIDE DEF G
        <2>2. \A m \in 1 .. Len(s) : m \in 0 .. Len(s) /\ m # 0
            BY <1>1
        <2> QED
            BY <2>1, <2>2
    <1>12. F[0] = <<>>
        BY <1>9, <1>1
    <1> HIDE DEF G
    <1>10. F[Len(s)] \in T[Len(s)]
        <2> DEFINE U == {n \in Nat : n <= Len(s) => F[n] \in T[n]}
        <2>1. 0 \in U
            BY <1>12, <1>2, <1>1
        <2>2. ASSUME NEW n \in Nat, n \in U PROVE n + 1 \in U
            <3> SUFFICES ASSUME n + 1 <= Len(s) PROVE F[n + 1] \in T[n + 1]
                OBVIOUS
            <3>1. n + 1 \in 1 .. Len(s) /\ (n + 1) - 1 = n /\ F[n] \in T[(n + 1) - 1]
                BY <1>1, <2>2
            <3>2. F[n + 1] = IF n + 1 \in I THEN Append(F[n], s[n + 1]) ELSE F[n]
                BY <1>11, <3>1
            <3> QED
                BY <1>3, <3>1, <3>2
        <2> HIDE DEF U
        <2>3. Len(s) \in U
            BY <1>1, <2>1, <2>2, Induction
        <2> QED
            BY <1>1, <2>3 DEF U
    <1> QED
        BY <1>6, <1>10, <1>x

(***************************************************************************)
(* Types, and what a peer is sending.                                      *)
(***************************************************************************)
CommandKinds == {"ack", "connect", "verify", "disconnect", "ping", "reliable", "fragment", "unreliable", "unsequenced"}
PeerStates == {"disconnected", "connecting", "acknowledging_connect", "pending", "succeeded", "connected",
               "later", "disconnecting", "acknowledging_disconnect", "zombie"}
Commands == [kind: CommandKinds, ack: BOOLEAN, ctl: BOOLEAN, msg: Nat, part: Nat, seq: Nat, unrel: Nat, at: Nat,
             tries: Nat]
Wires    == [kind: CommandKinds, ack: BOOLEAN, ctl: BOOLEAN, seq: Nat, unrel: Nat, msg: Nat, part: Nat]
Acks     == [seq: Nat, ctl: BOOLEAN, of: CommandKinds]
Entries  == [kind: CommandKinds, seq: Nat, unrel: Nat, msg: Nat, missing: SUBSET (1 .. Parts), parts: Nat]
Peers == [st: PeerStates, session: Nat, known: BOOLEAN, num: Nat, rel: Nat, unrel: Nat, group: Nat,
          windows: [0 .. Windows - 1 -> Nat],
          out: Seq(Commands), outRel: Seq(Commands), sent: Seq(Commands), acks: Seq(Acks),
          inRel: Nat, inUnrel: Nat, seen: SUBSET Nat,
          queueRel: Seq(Entries), queueUnrel: Seq(Entries), dispatched: Seq(Entries), pending: BOOLEAN]
Datagrams == [to: Hosts, known: BOOLEAN, session: Nat, cmds: Seq(Wires)]

TypeOK ==
    /\ peer \in [Hosts -> Peers]
    /\ net \subseteq Datagrams
    /\ sent \in Seq(MessageKinds) /\ got \in Seq(Nat)
    /\ room \in [up: BOOLEAN, sends: SUBSET MessageKinds, messages: Nat, leaves: SUBSET Departures,
                 pings: Nat, copies: Nat]

\* The numbers of the reliable commands in flight: those sent, and those to be sent again.
Sents(p)  == {i \in DOMAIN p.sent : ~p.sent[i].ctl}
Agains(p) == {i \in DOMAIN p.outRel : p.outRel[i].tries > 0}
InFlightOf(p) == {p.sent[i].seq : i \in Sents(p)} \cup {p.outRel[i].seq : i \in Agains(p)}

\* What is on which list ...
Lists(p) ==
    /\ \A i \in DOMAIN p.out : p.out[i].ctl = p.out[i].ack
    /\ \A i \in DOMAIN p.outRel : ~p.outRel[i].ctl /\ p.outRel[i].ack /\ p.outRel[i].seq < SeqSpace
    /\ \A i \in DOMAIN p.sent : p.sent[i].ack /\ p.sent[i].tries > 0 /\ (~p.sent[i].ctl => p.sent[i].seq < SeqSpace)
\* ... those sent again go first, and those never sent are numbered in a row up to the last number ...
InRow(p) ==
    \A i \in DOMAIN p.outRel :
        IF p.outRel[i].tries > 0 THEN \A j \in 1 .. i : p.outRel[j].tries > 0
        ELSE IF i = Len(p.outRel) THEN p.outRel[i].seq = p.rel
             ELSE p.outRel[i + 1].seq = NextSeq(p.outRel[i].seq)
\* ... every number is in flight once ...
Once(p) ==
    /\ \A i, j \in Sents(p) : p.sent[i].seq = p.sent[j].seq => i = j
    /\ \A i, j \in Agains(p) : p.outRel[i].seq = p.outRel[j].seq => i = j
    /\ \A i \in Sents(p), j \in Agains(p) : p.sent[i].seq # p.outRel[j].seq
\* ... those in the window of the next number are before it, unless it is to begin the window ...
IsNewest(p, n) == n % WindowSize # 0 => \A s \in InFlightOf(p) : WindowOf(s) = WindowOf(n) => s < n
NextIsNew(p) ==
    /\ \A i \in DOMAIN p.outRel :
          p.outRel[i].tries = 0 /\ (i > 1 => p.outRel[i - 1].tries > 0) => IsNewest(p, p.outRel[i].seq)
    /\ Agains(p) = DOMAIN p.outRel => IsNewest(p, NextSeq(p.rel))
\* ... and the windows count what is in flight.
InWindow(p, w) == {s \in InFlightOf(p) : WindowOf(s) = w}
Counts(p) == \A w \in 0 .. Windows - 1 : p.windows[w] = Cardinality(InWindow(p, w))

Sending(p) == Lists(p) /\ InRow(p) /\ Once(p) /\ NextIsNew(p) /\ Counts(p)

\* The invariant.
Inv == TypeOK /\ \A h \in Hosts : Sending(peer[h])

(***************************************************************************)
(* Numbers and windows.                                                    *)
(***************************************************************************)
\* The constants are numbers.
LEMMA Sizable ==
    /\ WindowSize \in Nat \ {0} /\ Windows \in Nat \ {0} /\ FreeWindows \in Nat \ {0} /\ PerDatagram \in Nat \ {0}
    /\ Parts \in Nat \ {0} /\ MaxTries \in Nat \ {0} /\ GroupWindow \in Nat \ {0} /\ FirstSeq \in Nat
    /\ Windows >= FreeWindows + 3
    BY EnetPeerAssumption, EnetAssumption DEF EnetPeerAssumption, EnetAssumption

LEMMA Times ==
    ASSUME NEW a \in Nat \ {0}, NEW b \in Nat \ {0}
    PROVE  a * b \in Nat \ {0} /\ a <= a * b
    OBVIOUS

\* There are numbers.
LEMMA Space == SeqSpace \in Nat \ {0} /\ WindowSize <= SeqSpace /\ SeqSpace = WindowSize * Windows
    BY Sizable, Times DEF SeqSpace

LEMMA Divides ==
    ASSUME NEW m \in Nat \ {0}, NEW n \in Nat
    PROVE  n \div m \in Nat /\ (n \div m) * m <= n /\ n < (n \div m) * m + m /\ n % m \in 0 .. m - 1
           /\ (n \div m) * m \in Nat
           /\ n = (n \div m) * m + (n % m)
    OBVIOUS

LEMMA Quotient ==
    ASSUME NEW m \in Nat \ {0}, NEW k \in Nat, NEW r \in 0 .. m - 1
    PROVE  (k * m + r) \div m = k /\ (k * m + r) % m = r
    OBVIOUS

LEMMA Below ==
    ASSUME NEW m \in Nat \ {0}, NEW k \in Nat, NEW l \in Nat \ {0}, k * m < m * l
    PROVE  k < l
    OBVIOUS

\* The next number is one of the space, for any number the last one is.
LEMMA NextIs ==
    ASSUME NEW n \in Nat
    PROVE  NextSeq(n) \in 0 .. SeqSpace - 1 /\ NextSeq(n) \in Nat /\ NextSeq(n) < SeqSpace
    <1>1. n + 1 \in Nat /\ SeqSpace \in Nat \ {0}
        BY Space
    <1>2. (n + 1) % SeqSpace \in 0 .. SeqSpace - 1
        BY <1>1, Divides
    <1> QED
        BY <1>1, <1>2 DEF NextSeq

\* The window of a number, and that of the next.
LEMMA WindowIs ==
    ASSUME NEW n \in Nat, n < SeqSpace
    PROVE  WindowOf(n) \in 0 .. Windows - 1
    <1> DEFINE k == n \div WindowSize
    <1>0. WindowSize \in Nat \ {0}
        BY Sizable
    <1>1. k \in Nat /\ k * WindowSize <= n /\ k * WindowSize \in Nat
        BY <1>0, Divides
    <1>2. WindowSize * Windows \in Nat /\ k * WindowSize < WindowSize * Windows
        BY <1>1, Space
    <1> HIDE DEF k
    <1>3. k < Windows
        BY <1>1, <1>2, Sizable, Below
    <1> QED
        BY <1>1, <1>3, Sizable DEF k, WindowOf

LEMMA NextInWindow ==
    ASSUME NEW n \in Nat, n < SeqSpace, NextSeq(n) % WindowSize # 0
    PROVE  NextSeq(n) = n + 1 /\ WindowOf(n + 1) = WindowOf(n)
    <1>1. n + 1 # SeqSpace
        <2> SUFFICES ASSUME n + 1 = SeqSpace PROVE FALSE
            OBVIOUS
        <2>1. SeqSpace % SeqSpace = 0 /\ 0 % WindowSize = 0
            BY Space, Sizable
        <2> QED
            BY <2>1 DEF NextSeq
    <1>2. NextSeq(n) = n + 1
        <2>1. n + 1 \in 0 .. SeqSpace - 1
            BY <1>1, Space
        <2>2. 0 * SeqSpace + (n + 1) = n + 1
            BY Space
        <2>3. (0 * SeqSpace + (n + 1)) % SeqSpace = n + 1
            BY <2>1, Space, Quotient
        <2> QED
            BY <2>2, <2>3 DEF NextSeq
    <1> DEFINE k == n \div WindowSize
               r == n % WindowSize
    <1>3. k \in Nat /\ r \in 0 .. WindowSize - 1 /\ n = k * WindowSize + r /\ k * WindowSize \in Nat
        BY Sizable, Divides
    <1>4. r # WindowSize - 1
        <2> SUFFICES ASSUME r = WindowSize - 1 PROVE FALSE
            OBVIOUS
        <2>1. n + 1 = k * WindowSize + WindowSize
            BY <1>3, Sizable
        <2>2. k * WindowSize + WindowSize = (k + 1) * WindowSize + 0
            BY <1>3, Sizable
        <2> DEFINE l == k + 1
        <2>3. l \in Nat /\ 0 \in 0 .. WindowSize - 1
            BY <1>3, Sizable
        <2> HIDE DEF l
        <2>4. (l * WindowSize + 0) % WindowSize = 0
            BY <2>3, Sizable, Quotient
        <2> QED
            BY <1>2, <2>1, <2>2, <2>4 DEF l
    <1>5. r + 1 \in 0 .. WindowSize - 1 /\ n + 1 = k * WindowSize + (r + 1)
        BY <1>3, <1>4, Sizable
    <1>6. (n + 1) \div WindowSize = k
        <2> DEFINE q == r + 1
        <2>1. q \in 0 .. WindowSize - 1 /\ n + 1 = k * WindowSize + q
            BY <1>5
        <2> HIDE DEF q, k, r
        <2>2. (k * WindowSize + q) \div WindowSize = k
            BY <1>3, <2>1, Sizable, Quotient
        <2> QED
            BY <2>1, <2>2
    <1> QED
        BY <1>2, <1>6 DEF WindowOf

(***************************************************************************)
(* The greatest and the least of a set of numbers.                         *)
(***************************************************************************)
\* Finitely many numbers are bounded.
LEMMA Bounded ==
    ASSUME NEW n \in Nat, NEW f \in [1 .. n -> Nat]
    PROVE  \E b \in Nat : \A i \in 1 .. n : f[i] <= b
    <1> DEFINE S == {k \in Nat : \E b \in Nat : \A i \in 1 .. n : i <= k => f[i] <= b}
    <1>1. 0 \in S
        <2>1. \A i \in 1 .. n : ~(i <= 0)
            OBVIOUS
        <2> QED
            BY <2>1
    <1>2. ASSUME NEW k \in Nat, k \in S PROVE k + 1 \in S
        <2>1. PICK b \in Nat : \A i \in 1 .. n : i <= k => f[i] <= b
            BY <1>2
        <2>2. CASE k + 1 \in 1 .. n
            <3> DEFINE c == b + f[k + 1]
            <3>1. c \in Nat /\ b <= c /\ f[k + 1] <= c
                BY <2>2
            <3> HIDE DEF c
            <3>2. \A i \in 1 .. n : i <= k + 1 => f[i] <= c
                <4> SUFFICES ASSUME NEW i \in 1 .. n, i <= k + 1 PROVE f[i] <= c
                    OBVIOUS
                <4>1. CASE i = k + 1
                    BY <3>1, <4>1
                <4>2. CASE i <= k
                    <5>1. f[i] <= b /\ f[i] \in Nat
                        BY <2>1, <4>2
                    <5> QED
                        BY <3>1, <5>1
                <4> QED
                    BY <4>1, <4>2
            <3> QED
                BY <3>1, <3>2
        <2>3. CASE k + 1 \notin 1 .. n
            <3>1. \A i \in 1 .. n : i <= k + 1 => i <= k
                BY <2>3
            <3>2. \A i \in 1 .. n : i <= k + 1 => f[i] <= b
                BY <2>1, <3>1, Zenon
            <3> QED
                BY <3>2
        <2> QED
            BY <2>2, <2>3
    <1> HIDE DEF S
    <1>3. n \in S
        BY <1>1, <1>2, Induction
    <1> QED
        BY <1>3 DEF S

LEMMA Greatest ==
    ASSUME NEW S, S \subseteq Nat, S # {}, NEW b \in Nat, \A x \in S : x <= b
    PROVE  Max(S) \in S /\ \A x \in S : x <= Max(S)
    <1> DEFINE B == {c \in Nat : \A x \in S : x <= c}
    <1>1. B \subseteq Nat /\ B # {}
        OBVIOUS
    <1>2. PICK c \in B : \A d \in B : c <= d
        BY <1>1, Least, Zenon
    <1>3. c \in S
        <2> SUFFICES ASSUME c \notin S PROVE FALSE
            OBVIOUS
        <2>1. \A x \in S : x \in Nat /\ x <= c /\ x # c
            BY <1>2
        <2>2. c \in Nat /\ c - 1 \in Nat
            <3>1. PICK y \in S : y \in Nat
                OBVIOUS
            <3>2. c \in Nat
                BY <1>2
            <3> HIDE DEF B
            <3>3. y <= c /\ y # c
                BY <2>1
            <3> QED
                BY <3>1, <3>2, <3>3
        <2>4. \A x \in S : x <= c - 1
            BY <2>1, <2>2
        <2>3. c - 1 \in B
            BY <2>2, <2>4
        <2> QED
            BY <1>2, <2>2, <2>3
    <1>4. \E x \in S : \A y \in S : x >= y
        BY <1>2, <1>3
    <1>5. Max(S) \in S /\ \A y \in S : Max(S) >= y
        BY <1>4, Zenon DEF Max
    <1> QED
        BY <1>5

LEMMA Smallest ==
    ASSUME NEW S, S \subseteq Nat, S # {}
    PROVE  Min(S) \in S /\ \A x \in S : Min(S) <= x
    <1>1. \E x \in S : \A y \in S : x <= y
        BY Least, Zenon
    <1> QED
        BY <1>1, Zenon DEF Min

(***************************************************************************)
(* Peers.                                                                  *)
(***************************************************************************)
\* The next place in the order of queueing is a number.
LEMMA PlaceIs ==
    ASSUME NEW p \in Peers
    PROVE  NextPlace(p) \in Nat
    <1> DEFINE s == p.out \o p.outRel \o p.sent
               S == {0} \cup {c.at : c \in Range(s)}
               f == [i \in 1 .. Len(s) |-> s[i].at]
    <1>1. s \in Seq(Commands) /\ Len(s) \in Nat /\ \A i \in 1 .. Len(s) : s[i] \in Commands
        <2>1. p.out \in Seq(Commands) /\ p.outRel \in Seq(Commands) /\ p.sent \in Seq(Commands)
            BY DEF Peers
        <2>2. p.out \o p.outRel \in Seq(Commands)
            BY <2>1
        <2>3. s \in Seq(Commands)
            BY <2>1, <2>2
        <2> HIDE DEF s
        <2> QED
            BY <2>3
    <1>2. \A c \in Commands : c.at \in Nat
        BY DEF Commands
    <1> HIDE DEF s
    <1>3. f \in [1 .. Len(s) -> Nat]
        BY <1>1, <1>2
    <1>4. PICK b \in Nat : \A i \in 1 .. Len(s) : f[i] <= b
        BY <1>1, <1>3, Bounded
    <1>5. Range(s) = {s[i] : i \in 1 .. Len(s)}
        BY <1>1 DEF Range
    <1>6. \A c \in Range(s) : c.at \in Nat /\ c.at <= b
        BY <1>1, <1>2, <1>4, <1>5
    <1>7. S \subseteq Nat /\ S # {} /\ \A x \in S : x <= b
        BY <1>6
    <1>8. Max(S) \in Nat
        <2> HIDE DEF S
        <2> QED
            BY <1>7, Greatest
    <1>9. NextPlace(p) = 1 + Max(S)
        BY Zenon DEF NextPlace, s
    <1> QED
        BY <1>8, <1>9

\* A peer that sends what another does is sending it as well.
LEMMA SameSending ==
    ASSUME NEW p, NEW q, Sending(p), \A i \in DOMAIN q.out : q.out[i].ctl = q.out[i].ack,
           q.rel = p.rel, q.windows = p.windows, q.outRel = p.outRel, q.sent = p.sent
    PROVE  Sending(q)
    <1>1. Sents(q) = Sents(p) /\ Agains(q) = Agains(p) /\ InFlightOf(q) = InFlightOf(p)
        BY DEF Sents, Agains, InFlightOf
    <1>2. Lists(q) /\ InRow(q)
        BY DEF Sending, Lists, InRow
    <1>3. Once(q)
        BY <1>1 DEF Sending, Once
    <1>4. NextIsNew(q)
        BY <1>1 DEF Sending, NextIsNew, IsNewest
    <1>5. Counts(q)
        BY <1>1 DEF Sending, Counts, InWindow
    <1> QED
        BY <1>2, <1>3, <1>4, <1>5 DEF Sending

\* A peer that has nothing in flight, and counts nothing.
LEMMA NothingSent ==
    ASSUME NEW q, \A i \in DOMAIN q.out : q.out[i].ctl = q.out[i].ack,
           q.outRel = <<>>, q.sent = <<>>, q.windows = [w \in 0 .. Windows - 1 |-> 0]
    PROVE  Sending(q)
    <1>1. DOMAIN q.outRel = {} /\ DOMAIN q.sent = {}
        OBVIOUS
    <1>2. Sents(q) = {} /\ Agains(q) = {} /\ InFlightOf(q) = {}
        BY <1>1 DEF Sents, Agains, InFlightOf
    <1>3. Lists(q) /\ InRow(q) /\ Once(q) /\ NextIsNew(q)
        BY <1>1, <1>2 DEF Lists, InRow, Once, NextIsNew, IsNewest
    <1>4. Counts(q)
        <2>1. \A w : InWindow(q, w) = {}
            BY <1>2 DEF InWindow
        <2> QED
            BY <2>1, FS_EmptySet DEF Counts
    <1> QED
        BY <1>3, <1>4 DEF Sending

\* What is queued behind the rest of the reliable commands is not in flight.
LEMMA OneMore ==
    ASSUME NEW p \in Peers, NEW q, Sending(p), NEW c \in Commands,
           c.tries = 0, ~c.ctl, c.ack, c.seq = NextSeq(p.rel), q.rel = c.seq,
           q.outRel = Append(p.outRel, c), q.out = p.out, q.sent = p.sent, q.windows = p.windows
    PROVE  Sending(q)
    <1> DEFINE n == Len(p.outRel)
               r == p.outRel
    <1>1. r \in Seq(Commands) /\ n \in Nat /\ DOMAIN r = 1 .. n /\ p.rel \in Nat
          /\ \A i \in 1 .. n : r[i].tries \in Nat
        <2>1. r \in Seq(Commands) /\ p.rel \in Nat
            BY DEF Peers
        <2>2. \A d \in Commands : d.tries \in Nat
            BY DEF Commands
        <2> QED
            BY <2>1, <2>2
    <1>2. /\ DOMAIN q.outRel = 1 .. n + 1 /\ Len(q.outRel) = n + 1
          /\ \A i \in 1 .. n : q.outRel[i] = r[i]
          /\ q.outRel[n + 1] = c
        BY <1>1
    <1>3. Sents(q) = Sents(p) /\ Agains(q) = Agains(p)
        BY <1>1, <1>2 DEF Sents, Agains
    <1>4. InFlightOf(q) = InFlightOf(p)
        <2>1. \A i \in Agains(q) : q.outRel[i] = r[i]
            BY <1>1, <1>2, <1>3 DEF Agains
        <2>2. \A i \in Sents(q) : q.sent[i] = p.sent[i]
            OBVIOUS
        <2>3. {q.outRel[i].seq : i \in Agains(q)} = {r[i].seq : i \in Agains(q)}
            BY <2>1, ZenonT(60)
        <2> QED
            BY <1>3, <2>2, <2>3, ZenonT(60) DEF InFlightOf
    <1> HIDE DEF n, r
    <1>5. Lists(q)
        <2>1. c.seq < SeqSpace
            <3>1. NextSeq(p.rel) \in 0 .. SeqSpace - 1 /\ SeqSpace \in Nat
                BY <1>1, NextIs, Space
            <3> QED
                BY <3>1
        <2> QED
            BY <1>1, <1>2, <2>1 DEF Sending, Lists, r
    <1>6. InRow(q)
        <2> SUFFICES ASSUME NEW i \in 1 .. n + 1
                     PROVE  IF q.outRel[i].tries > 0 THEN \A j \in 1 .. i : q.outRel[j].tries > 0
                            ELSE IF i = Len(q.outRel) THEN q.outRel[i].seq = q.rel
                                 ELSE q.outRel[i + 1].seq = NextSeq(q.outRel[i].seq)
            BY <1>2 DEF InRow
        <2>1. CASE i = n + 1
            BY <1>2, <2>1
        <2>2. CASE i \in 1 .. n
            <3>1. IF r[i].tries > 0 THEN \A j \in 1 .. i : r[j].tries > 0
                  ELSE IF i = n THEN r[i].seq = p.rel ELSE r[i + 1].seq = NextSeq(r[i].seq)
                BY <1>1, <2>2 DEF Sending, InRow, r, n
            <3>2. \A j \in 1 .. i : q.outRel[j] = r[j]
                <4>1. n \in Nat
                    BY <1>1
                <4>2. \A j \in 1 .. i : j \in 1 .. n
                    BY <2>2, <4>1
                <4> QED
                    BY <1>2, <4>2
            <3>3. q.outRel[i] = r[i] /\ i # n + 1
                BY <1>1, <1>2, <2>2
            <3>4. CASE i = n
                BY <1>2, <3>1, <3>2, <3>3, <3>4
            <3>5. CASE i # n
                <4>1. i + 1 \in 1 .. n /\ q.outRel[i + 1] = r[i + 1]
                    BY <1>1, <1>2, <2>2, <3>5
                <4> QED
                    BY <1>2, <3>1, <3>2, <3>3, <3>5, <4>1
            <3> QED
                BY <3>4, <3>5
        <2>3. i = n + 1 \/ i \in 1 .. n
            BY <1>1
        <2> QED
            BY <2>1, <2>2, <2>3
    <1>7. Once(q)
        <2>1. \A i \in Agains(q) : q.outRel[i] = r[i]
            BY <1>1, <1>2, <1>3 DEF Agains, r
        <2> DEFINE a == Agains(p)
                   t == Sents(p)
        <2>2. /\ \A i, j \in t : p.sent[i].seq = p.sent[j].seq => i = j
              /\ \A i, j \in a : r[i].seq = r[j].seq => i = j
              /\ \A i \in t, j \in a : p.sent[i].seq # r[j].seq
            BY DEF Sending, Once, r
        <2>3. \A i \in a : q.outRel[i] = r[i]
            BY <1>3, <2>1
        <2> HIDE DEF a, t
        <2>4. \A i, j \in t : q.sent[i].seq = q.sent[j].seq => i = j
            BY <2>2
        <2>5. \A i, j \in a : q.outRel[i].seq = q.outRel[j].seq => i = j
            <3> SUFFICES ASSUME NEW i \in a, NEW j \in a, q.outRel[i].seq = q.outRel[j].seq PROVE i = j
                OBVIOUS
            <3>1. q.outRel[i] = r[i] /\ q.outRel[j] = r[j]
                BY <2>3
            <3> QED
                BY <2>2, <3>1
        <2>6. \A i \in t, j \in a : q.sent[i].seq # q.outRel[j].seq
            <3> SUFFICES ASSUME NEW i \in t, NEW j \in a PROVE q.sent[i].seq # q.outRel[j].seq
                OBVIOUS
            <3>1. q.outRel[j] = r[j]
                BY <2>3
            <3> QED
                BY <2>2, <3>1
        <2> QED
            BY <1>3, <2>4, <2>5, <2>6 DEF Once, a, t
    <1>8. \A m : IsNewest(q, m) = IsNewest(p, m)
        BY <1>4 DEF IsNewest
    <1>9. NextIsNew(q)
        <2>1. \A i \in 1 .. n : r[i].tries = 0 /\ (i > 1 => r[i - 1].tries > 0) => IsNewest(p, r[i].seq)
            BY <1>1 DEF Sending, NextIsNew, r
        <2>2. CASE Agains(p) = DOMAIN r
            <3>1. IsNewest(p, c.seq)
                BY <2>2 DEF Sending, NextIsNew, r
            <3>2. Agains(q) # DOMAIN q.outRel
                BY <1>1, <1>2, <1>3, <2>2
            <3>3. \A i \in 1 .. n : r[i].tries > 0
                BY <1>1, <2>2 DEF Agains, r
            <3>4. \A i \in 1 .. n : q.outRel[i].tries > 0
                BY <1>2, <3>3
            <3>5. \A i \in 1 .. n : r[i].tries \in Nat
                BY <1>1
            <3>6. ASSUME NEW i \in DOMAIN q.outRel, q.outRel[i].tries = 0 PROVE i = n + 1
                BY <1>1, <1>2, <3>4, <3>6
            <3> QED
                BY <1>2, <1>8, <3>1, <3>2, <3>6 DEF NextIsNew
        <2>3. CASE Agains(p) # DOMAIN r
            <3>1. PICK i \in 1 .. n : ~(r[i].tries > 0)
                BY <1>1, <2>3 DEF Agains, r
            <3>2. ~(r[n].tries > 0) /\ n > 0 /\ n \in 1 .. n
                <4>1. i <= n /\ n \in 1 .. n /\ n \in DOMAIN r
                    BY <1>1, <3>1
                <4>2. r[n].tries > 0 => \A j \in 1 .. n : r[j].tries > 0
                    BY <4>1 DEF Sending, InRow, r
                <4> QED
                    BY <1>1, <3>1, <4>1, <4>2
            <3>3. Agains(q) # DOMAIN q.outRel
                <4>1. i \in DOMAIN q.outRel /\ i \notin Agains(q)
                    BY <1>1, <1>2, <1>3, <3>1 DEF Agains, r
                <4> QED
                    BY <4>1
            <3>4. ASSUME NEW j \in DOMAIN q.outRel, q.outRel[j].tries = 0, j > 1 => q.outRel[j - 1].tries > 0
                  PROVE  IsNewest(q, q.outRel[j].seq)
                <4>1. j # n + 1
                    <5>1. (n + 1) - 1 = n /\ n + 1 > 1 /\ q.outRel[n] = r[n]
                        BY <1>1, <1>2, <3>2
                    <5> QED
                        BY <3>2, <3>4, <5>1
                <4>2. j \in 1 .. n /\ q.outRel[j] = r[j] /\ (j > 1 => j - 1 \in 1 .. n /\ q.outRel[j - 1] = r[j - 1])
                    BY <1>1, <1>2, <4>1
                <4>3. IsNewest(p, r[j].seq)
                    BY <2>1, <3>4, <4>2
                <4> QED
                    BY <1>8, <4>2, <4>3
            <3> QED
                BY <3>3, <3>4 DEF NextIsNew
        <2> QED
            BY <2>2, <2>3
    <1>10. Counts(q)
        BY <1>4 DEF Sending, Counts, InWindow
    <1> QED
        BY <1>5, <1>6, <1>7, <1>9, <1>10 DEF Sending

(***************************************************************************)
(* What a peer does that is right stays right.                             *)
(***************************************************************************)
Fine == {p \in Peers : Sending(p)}
\* What the library queues.
Plain == {c \in [kind: CommandKinds, ack: BOOLEAN, ctl: BOOLEAN, msg: Nat, part: Nat] :
            (c.ctl => c.ack) /\ (~c.ack <=> c.kind \in {"unreliable", "unsequenced"})}

LEMMA ResetFine ==
    ASSUME NEW n \in Nat
    PROVE  ResetPeer(n) \in Fine
    <1> DEFINE q == ResetPeer(n)
    <1>1. q \in Peers
        <2>1. [w \in 0 .. Windows - 1 |-> 0] \in [0 .. Windows - 1 -> Nat]
            OBVIOUS
        <2>2. {} \in SUBSET Nat /\ "disconnected" \in PeerStates /\ FALSE \in BOOLEAN
            BY DEF PeerStates
        <2>3. <<>> \in Seq(Commands) /\ <<>> \in Seq(Acks) /\ <<>> \in Seq(Entries)
            OBVIOUS
        <2> QED
            BY <2>1, <2>2, <2>3 DEF ResetPeer, Peers
    <1>2. q.out = <<>> /\ q.outRel = <<>> /\ q.sent = <<>> /\ q.windows = [w \in 0 .. Windows - 1 |-> 0]
        BY DEF ResetPeer
    <1> HIDE DEF q
    <1>3. \A i \in DOMAIN q.out : q.out[i].ctl = q.out[i].ack
        BY <1>2
    <1>4. Sending(q)
        BY <1>2, <1>3, NothingSent
    <1> QED
        BY <1>1, <1>4 DEF Fine, q

LEMMA ResetQueuesFine ==
    ASSUME NEW p \in Peers
    PROVE  ResetQueues(p) \in Fine
    <1> DEFINE q == ResetQueues(p)
    <1>1. q \in Peers
        <2>1. [w \in 0 .. Windows - 1 |-> 0] \in [0 .. Windows - 1 -> Nat]
            OBVIOUS
        <2>3. <<>> \in Seq(Commands) /\ <<>> \in Seq(Acks) /\ <<>> \in Seq(Entries)
            OBVIOUS
        <2> QED
            BY <2>1, <2>3 DEF ResetQueues, Peers
    <1>2. q.out = <<>> /\ q.outRel = <<>> /\ q.sent = <<>> /\ q.windows = [w \in 0 .. Windows - 1 |-> 0]
        BY DEF ResetQueues, Peers
    <1> HIDE DEF q
    <1>3. \A i \in DOMAIN q.out : q.out[i].ctl = q.out[i].ack
        BY <1>2
    <1>4. Sending(q)
        BY <1>2, <1>3, NothingSent
    <1> QED
        BY <1>1, <1>4 DEF Fine, q

\* A peer of another state, session, or with events waiting.
LEMMA StateFine ==
    ASSUME NEW p \in Fine, NEW st \in PeerStates, NEW n \in Nat, NEW k \in BOOLEAN, NEW b \in BOOLEAN
    PROVE  /\ [p EXCEPT !.st = st] \in Fine
           /\ [p EXCEPT !.known = k, !.session = n] \in Fine
           /\ [p EXCEPT !.st = st, !.known = k] \in Fine
           /\ [p EXCEPT !.pending = b] \in Fine
           /\ [p EXCEPT !.st = st, !.pending = b] \in Fine
           /\ [p EXCEPT !.acks = <<>>] \in Fine
    <1>0. p \in Peers /\ Sending(p)
        BY DEF Fine
    <1>a. \A i \in DOMAIN p.out : p.out[i].ctl = p.out[i].ack
        BY <1>0 DEF Sending, Lists
    <1>1. [p EXCEPT !.st = st] \in Fine
        <2> DEFINE q == [p EXCEPT !.st = st]
        <2>1. q \in Peers /\ q.out = p.out /\ q.rel = p.rel /\ q.windows = p.windows /\ q.outRel = p.outRel /\ q.sent = p.sent
            BY <1>0 DEF Peers
        <2> HIDE DEF q
        <2> QED
            BY <1>0, <1>a, <2>1, SameSending DEF Fine, q
    <1>2. [p EXCEPT !.known = k, !.session = n] \in Fine
        <2> DEFINE q == [p EXCEPT !.known = k, !.session = n]
        <2>1. q \in Peers /\ q.out = p.out /\ q.rel = p.rel /\ q.windows = p.windows /\ q.outRel = p.outRel /\ q.sent = p.sent
            BY <1>0 DEF Peers
        <2> HIDE DEF q
        <2> QED
            BY <1>0, <1>a, <2>1, SameSending, ZenonT(60) DEF Fine, q
    <1>3. [p EXCEPT !.st = st, !.known = k] \in Fine
        <2> DEFINE q == [p EXCEPT !.st = st, !.known = k]
        <2>1. q \in Peers /\ q.out = p.out /\ q.rel = p.rel /\ q.windows = p.windows /\ q.outRel = p.outRel /\ q.sent = p.sent
            BY <1>0 DEF Peers
        <2> HIDE DEF q
        <2> QED
            BY <1>0, <1>a, <2>1, SameSending, ZenonT(60) DEF Fine, q
    <1>4. [p EXCEPT !.pending = b] \in Fine
        <2> DEFINE q == [p EXCEPT !.pending = b]
        <2>1. q \in Peers /\ q.out = p.out /\ q.rel = p.rel /\ q.windows = p.windows /\ q.outRel = p.outRel /\ q.sent = p.sent
            BY <1>0 DEF Peers
        <2> HIDE DEF q
        <2> QED
            BY <1>0, <1>a, <2>1, SameSending DEF Fine, q
    <1>5. [p EXCEPT !.st = st, !.pending = b] \in Fine
        <2> DEFINE q == [p EXCEPT !.st = st, !.pending = b]
        <2>1. q \in Peers /\ q.out = p.out /\ q.rel = p.rel /\ q.windows = p.windows /\ q.outRel = p.outRel /\ q.sent = p.sent
            BY <1>0 DEF Peers
        <2> HIDE DEF q
        <2> QED
            BY <1>0, <1>a, <2>1, SameSending, ZenonT(60) DEF Fine, q
    <1>6. [p EXCEPT !.acks = <<>>] \in Fine
        <2> DEFINE q == [p EXCEPT !.acks = <<>>]
        <2>0. <<>> \in Seq(Acks)
            OBVIOUS
        <2>1. q \in Peers /\ q.out = p.out /\ q.rel = p.rel /\ q.windows = p.windows /\ q.outRel = p.outRel /\ q.sent = p.sent
            BY <1>0, <2>0 DEF Peers
        <2> HIDE DEF q
        <2> QED
            BY <1>0, <1>a, <2>1, SameSending DEF Fine, q
    <1> QED
        BY <1>1, <1>2, <1>3, <1>4, <1>5, <1>6

\* enet_peer_reset of a new connection, and a connection that has been up for a while.
LEMMA EstablishedFine ==
    ASSUME NEW a \in Nat, NEW b \in Nat
    PROVE  Established(a, b) \in Fine
    <1> DEFINE r == ResetPeer(0)
               q == [r EXCEPT !.st = "connected", !.known = TRUE, !.num = 1, !.rel = a, !.inRel = b]
    <1>1. r \in Peers /\ "connected" \in PeerStates
        BY ResetFine DEF Fine, PeerStates
    <1>2. r.out = <<>> /\ r.outRel = <<>> /\ r.sent = <<>> /\ r.windows = [w \in 0 .. Windows - 1 |-> 0]
        BY DEF ResetPeer
    <1> HIDE DEF r
    <1>3. q \in Peers
        BY <1>1 DEF Peers
    <1>4. q.out = r.out /\ q.outRel = r.outRel /\ q.sent = r.sent /\ q.windows = r.windows
        BY <1>1 DEF Peers
    <1> HIDE DEF q
    <1>5. \A i \in DOMAIN q.out : q.out[i].ctl = q.out[i].ack
        BY <1>2, <1>4
    <1>6. Sending(q)
        BY <1>2, <1>4, <1>5, NothingSent
    <1> QED
        BY <1>3, <1>6 DEF Fine, Established, q, r

(* setup_outgoing_command.                                                 *)
LEMMA NumberedIs ==
    ASSUME NEW c \in Plain, NEW seq \in Nat, NEW unrel \in Nat, NEW at \in Nat
    PROVE  /\ Numbered(c, seq, unrel, at) \in Commands
           /\ Numbered(c, seq, unrel, at).seq = seq /\ Numbered(c, seq, unrel, at).tries = 0
           /\ Numbered(c, seq, unrel, at).ctl = c.ctl /\ Numbered(c, seq, unrel, at).ack = c.ack
    BY DEF Numbered, Commands, Plain

LEMMA QueueFine ==
    ASSUME NEW p \in Fine, NEW c \in Plain
    PROVE  QueueOutgoing(p, c) \in Fine
    <1>0. p \in Peers /\ Sending(p)
        BY DEF Fine
    <1>1. /\ p.num \in Nat /\ p.rel \in Nat /\ p.group \in Nat /\ p.unrel \in Nat
          /\ p.out \in Seq(Commands) /\ p.outRel \in Seq(Commands)
          /\ NextSeq(p.rel) \in Nat /\ NextPlace(p) \in Nat
        <2>1. p.num \in Nat /\ p.rel \in Nat /\ p.group \in Nat /\ p.unrel \in Nat /\ p.out \in Seq(Commands)
              /\ p.outRel \in Seq(Commands)
            BY <1>0 DEF Peers
        <2>2. NextSeq(p.rel) \in Nat
            BY <2>1, NextIs, Space
        <2> QED
            BY <1>0, <2>1, <2>2, PlaceIs
    <1>2. \A i \in DOMAIN p.out : p.out[i].ctl = p.out[i].ack
        BY <1>0 DEF Sending, Lists
    \* What goes on the list of the other commands.
    <1>3. ASSUME NEW d \in Commands, d.ctl = d.ack, NEW q \in Peers, q.out = Append(p.out, d), q.rel = p.rel,
                 q.windows = p.windows, q.outRel = p.outRel, q.sent = p.sent
          PROVE  q \in Fine
        <2>1. \A i \in DOMAIN q.out : q.out[i].ctl = q.out[i].ack
            <3>1. DOMAIN q.out = 1 .. Len(p.out) + 1 /\ DOMAIN p.out = 1 .. Len(p.out) /\ Len(p.out) \in Nat
                  /\ q.out[Len(p.out) + 1] = d /\ \A i \in 1 .. Len(p.out) : q.out[i] = p.out[i]
                BY <1>1, <1>3
            <3> QED
                BY <1>2, <1>3, <3>1
        <2> QED
            BY <1>0, <1>3, <2>1, SameSending DEF Fine
    <1>4. c.ctl \in BOOLEAN /\ c.ack \in BOOLEAN /\ (c.ctl => c.ack)
          /\ (~c.ack <=> c.kind \in {"unreliable", "unsequenced"})
        BY DEF Plain
    <1>5. CASE c.ctl
        <2> DEFINE d == Numbered(c, p.num + 1, 0, NextPlace(p))
                   q == [p EXCEPT !.num = @ + 1, !.out = Append(@, d)]
        <2>0. p.num + 1 \in Nat /\ p.group + 1 \in Nat /\ p.unrel + 1 \in Nat /\ p.rel \in Nat /\ 0 \in Nat
            BY <1>1, SMTT(60)
        <2>6. d \in Commands /\ d.ctl = c.ctl /\ d.ack = c.ack
            BY <1>1, <2>0 DEF Numbered, Commands, Plain
        <2>1. d \in Commands /\ d.ctl = d.ack
            BY <1>4, <1>5, <2>6, Zenon
        <2>2. QueueOutgoing(p, c) = q
            BY <1>4, <1>5 DEF QueueOutgoing
        <2> HIDE DEF d
        <2>3. Append(p.out, d) \in Seq(Commands) /\ p.num + 1 \in Nat
            BY <1>1, <2>1
        <2>4. q \in Peers
            BY <1>0, <2>3 DEF Peers
        <2>5. q.out = Append(p.out, d) /\ q.rel = p.rel /\ q.windows = p.windows /\ q.outRel = p.outRel /\ q.sent = p.sent
            BY <1>0 DEF Peers
        <2> HIDE DEF q
        <2> QED
            BY <1>3, <2>1, <2>2, <2>4, <2>5
    <1>6. CASE ~c.ctl /\ c.ack
        <2> DEFINE d == Numbered(c, NextSeq(p.rel), 0, NextPlace(p))
                   q == [p EXCEPT !.rel = NextSeq(@), !.unrel = 0, !.outRel = Append(@, d)]
        <2>0. d \in Commands /\ d.seq = NextSeq(p.rel) /\ d.tries = 0 /\ d.ctl = c.ctl /\ d.ack = c.ack
            <3>1. 0 \in Nat
                OBVIOUS
            <3> QED
                BY <1>1, <3>1 DEF Numbered, Commands, Plain
        <2>1. d \in Commands /\ d.seq = NextSeq(p.rel) /\ d.tries = 0 /\ ~d.ctl /\ d.ack
            BY <1>6, <2>0, Zenon
        <2>2. QueueOutgoing(p, c) = q
            BY <1>4, <1>6 DEF QueueOutgoing
        <2> HIDE DEF d
        <2>3. Append(p.outRel, d) \in Seq(Commands)
            BY <1>1, <2>1
        <2>4. q \in Peers
            BY <1>0, <1>1, <2>3 DEF Peers
        <2>5. q.outRel = Append(p.outRel, d) /\ q.rel = NextSeq(p.rel) /\ q.windows = p.windows /\ q.out = p.out
              /\ q.sent = p.sent
            BY <1>0 DEF Peers
        <2> HIDE DEF q
        <2>6. Sending(q)
            BY <1>0, <2>1, <2>5, OneMore
        <2> QED
            BY <2>2, <2>4, <2>6 DEF Fine
    <1>7. CASE ~c.ctl /\ ~c.ack /\ c.kind = "unsequenced"
        <2> DEFINE d == Numbered(c, 0, p.group + 1, NextPlace(p))
                   q == [p EXCEPT !.group = @ + 1, !.out = Append(@, d)]
        <2>0. p.num + 1 \in Nat /\ p.group + 1 \in Nat /\ p.unrel + 1 \in Nat /\ p.rel \in Nat /\ 0 \in Nat
            BY <1>1
        <2>6. d \in Commands /\ d.ctl = c.ctl /\ d.ack = c.ack
            BY <1>1, <2>0 DEF Numbered, Commands, Plain
        <2>1. d \in Commands /\ d.ctl = d.ack
            BY <1>4, <1>7, <2>6, Zenon
        <2>2. QueueOutgoing(p, c) = q
            BY <1>4, <1>7 DEF QueueOutgoing
        <2> HIDE DEF d
        <2>3. Append(p.out, d) \in Seq(Commands) /\ p.group + 1 \in Nat
            BY <1>1, <2>1
        <2>4. q \in Peers
            BY <1>0, <2>3 DEF Peers
        <2>5. q.out = Append(p.out, d) /\ q.rel = p.rel /\ q.windows = p.windows /\ q.outRel = p.outRel /\ q.sent = p.sent
            BY <1>0 DEF Peers
        <2> HIDE DEF q
        <2> QED
            BY <1>3, <2>1, <2>2, <2>4, <2>5
    <1>8. CASE ~c.ctl /\ ~c.ack /\ c.kind = "unreliable"
        <2> DEFINE d == Numbered(c, p.rel, p.unrel + 1, NextPlace(p))
                   q == [p EXCEPT !.unrel = @ + 1, !.out = Append(@, d)]
        <2>0. p.num + 1 \in Nat /\ p.group + 1 \in Nat /\ p.unrel + 1 \in Nat /\ p.rel \in Nat /\ 0 \in Nat
            BY <1>1
        <2>6. d \in Commands /\ d.ctl = c.ctl /\ d.ack = c.ack
            BY <1>1, <2>0 DEF Numbered, Commands, Plain
        <2>1. d \in Commands /\ d.ctl = d.ack
            BY <1>4, <1>8, <2>6, Zenon
        <2>2. QueueOutgoing(p, c) = q
            BY <1>4, <1>8 DEF QueueOutgoing
        <2> HIDE DEF d
        <2>3. Append(p.out, d) \in Seq(Commands) /\ p.unrel + 1 \in Nat
            BY <1>1, <2>1
        <2>4. q \in Peers
            BY <1>0, <2>3 DEF Peers
        <2>5. q.out = Append(p.out, d) /\ q.rel = p.rel /\ q.windows = p.windows /\ q.outRel = p.outRel /\ q.sent = p.sent
            BY <1>0 DEF Peers
        <2> HIDE DEF q
        <2> QED
            BY <1>3, <2>1, <2>2, <2>4, <2>5
    <1> QED
        BY <1>4, <1>5, <1>6, <1>7, <1>8

\* A loop whose turns stay in S, and a sequence whose steps do.
LEMMA LoopStays ==
    ASSUME NEW n \in Nat, NEW S, NEW s0 \in S, NEW step, \A i \in 1 .. n : \A x \in S : step[<<i, x>>] \in S
    PROVE  \E f : IsLoop(f, n, s0, step) /\ \A i \in 0 .. n : f[i] \in S
    <1> DEFINE T == [i \in 0 .. n |-> S]
    <1>1. \A i \in 0 .. n : T[i] = S
        OBVIOUS
    <1>2. 0 \in 0 .. n /\ \A i \in 1 .. n : i \in 0 .. n /\ i - 1 \in 0 .. n
        OBVIOUS
    <1> HIDE DEF T
    <1>3. s0 \in T[0] /\ \A i \in 1 .. n : \A x \in T[i - 1] : step[<<i, x>>] \in T[i]
        BY <1>1, <1>2
    <1>4. \E f : IsLoop(f, n, s0, step) /\ \A i \in 0 .. n : f[i] \in T[i]
        BY <1>3, LoopKeeps
    <1> QED
        BY <1>1, <1>4

LEMMA Stays ==
    ASSUME NEW n \in Nat, NEW S, NEW F, F[0] \in S, \A m \in 1 .. n : F[m - 1] \in S => F[m] \in S
    PROVE  F[n] \in S
    <1> DEFINE U == {m \in Nat : m <= n => F[m] \in S}
    <1>1. 0 \in U
        OBVIOUS
    <1>2. ASSUME NEW m \in Nat, m \in U PROVE m + 1 \in U
        <2> SUFFICES ASSUME m + 1 <= n PROVE F[m + 1] \in S
            OBVIOUS
        <2>1. F[m] \in S /\ m + 1 \in 1 .. n /\ (m + 1) - 1 = m
            BY <1>2
        <2> QED
            BY <2>1
    <1> HIDE DEF U
    <1>3. n \in U
        BY <1>1, <1>2, Induction
    <1> QED
        BY <1>3 DEF U

LEMMA ControlPlain ==
    ASSUME NEW kind \in {"connect", "verify", "disconnect", "ping"}
    PROVE  Control(kind, TRUE) \in Plain
    BY DEF Control, Plain, CommandKinds

LEMMA DataPlain ==
    ASSUME NEW kind \in {"reliable", "fragment", "unreliable", "unsequenced"}, NEW msg \in Nat, NEW part \in Nat
    PROVE  Data(kind, msg, part) \in Plain
    <1> DEFINE ack == kind \in {"reliable", "fragment"}
               c == [kind |-> kind, ack |-> ack, ctl |-> FALSE, msg |-> msg, part |-> part]
    <1>1. ack \in BOOLEAN /\ (~ack <=> kind \in {"unreliable", "unsequenced"}) /\ kind \in CommandKinds
        BY DEF CommandKinds
    <1> HIDE DEF ack
    <1>2. c \in Plain
        BY <1>1 DEF Plain
    <1> QED
        BY <1>2 DEF Data, c, ack

(* enet_peer_send.                                                         *)
LEMMA SendFine ==
    ASSUME NEW p \in Fine, NEW kind \in MessageKinds, NEW msg \in Nat
    PROVE  SendMessage(p, kind, msg) \in Fine
    <1>1. CASE kind # "big"
        <2>1. SendMessage(p, kind, msg) = QueueOutgoing(p, Data(kind, msg, 1))
            BY <1>1 DEF SendMessage
        <2>2. kind \in {"reliable", "fragment", "unreliable", "unsequenced"} /\ 1 \in Nat
            BY <1>1 DEF MessageKinds
        <2>3. Data(kind, msg, 1) \in Plain
            BY <2>2, DataPlain
        <2> QED
            BY <2>1, <2>3, QueueFine
    <1>2. CASE kind = "big"
        <2> DEFINE G(f) == f = [n \in 0 .. Parts |->
                                   IF n = 0 THEN p ELSE QueueOutgoing(f[n - 1], Data("fragment", msg, n))]
                   step == [e \in (1 .. Parts) \X Fine |-> QueueOutgoing(e[2], Data("fragment", msg, e[1]))]
                   F == CHOOSE f : G(f)
        <2>1. SendMessage(p, kind, msg) = F[Parts]
            BY <1>2 DEF SendMessage
        <2>2. Parts \in Nat /\ \A n \in 1 .. Parts : n \in 0 .. Parts /\ n # 0 /\ n \in Nat /\ n - 1 \in 0 .. Parts
            BY Sizable
        <2>3. ASSUME NEW n \in 1 .. Parts, NEW x \in Fine PROVE QueueOutgoing(x, Data("fragment", msg, n)) \in Fine
            <3>1. "fragment" \in {"reliable", "fragment", "unreliable", "unsequenced"} /\ n \in Nat
                BY <2>2
            <3>2. Data("fragment", msg, n) \in Plain
                BY <3>1, DataPlain
            <3> QED
                BY <3>2, QueueFine
        <2>4. \A n \in 1 .. Parts : \A x \in Fine : step[<<n, x>>] = QueueOutgoing(x, Data("fragment", msg, n))
            OBVIOUS
        <2> HIDE DEF step
        <2>5. PICK f : IsLoop(f, Parts, p, step) /\ \A n \in 0 .. Parts : f[n] \in Fine
            <3>1. \A n \in 1 .. Parts : \A x \in Fine : step[<<n, x>>] \in Fine
                BY <2>3, <2>4
            <3> QED
                BY <2>2, <3>1, LoopStays
        <2>6. G(f)
            <3>1. f = [n \in 0 .. Parts |-> IF n = 0 THEN p ELSE step[<<n, f[n - 1]>>]]
                BY <2>5 DEF IsLoop
            <3>2. \A n \in 0 .. Parts : n # 0 => n \in 1 .. Parts
                BY <2>2
            <3>3. \A n \in 1 .. Parts : step[<<n, f[n - 1]>>] = QueueOutgoing(f[n - 1], Data("fragment", msg, n))
                BY <2>2, <2>4, <2>5
            <3> DEFINE body == [n \in 0 .. Parts |->
                                   IF n = 0 THEN p ELSE QueueOutgoing(f[n - 1], Data("fragment", msg, n))]
            <3>4. \A n \in 0 .. Parts : (IF n = 0 THEN p ELSE step[<<n, f[n - 1]>>]) = body[n]
                BY <3>2, <3>3
            <3> QED
                BY <3>1, <3>4
        <2>7. G(F)
            <3> HIDE DEF G
            <3> QED
                BY <2>6
        <2> HIDE DEF F
        <2>8. F[0] = p /\ \A n \in 1 .. Parts : F[n] = QueueOutgoing(F[n - 1], Data("fragment", msg, n))
            <3> DEFINE body == [n \in 0 .. Parts |->
                                   IF n = 0 THEN p ELSE QueueOutgoing(F[n - 1], Data("fragment", msg, n))]
            <3>1. F = body
                BY <2>7
            <3>2. body[0] = p /\ \A n \in 1 .. Parts : body[n] = QueueOutgoing(F[n - 1], Data("fragment", msg, n))
                BY <2>2
            <3> HIDE DEF body, G
            <3> QED
                BY <3>1, <3>2
        <2> HIDE DEF G
        <2>9. F[0] \in Fine /\ \A n \in 1 .. Parts : F[n - 1] \in Fine => F[n] \in Fine
            BY <2>3, <2>8
        <2>10. F[Parts] \in Fine
            BY <2>2, <2>9, Stays
        <2> QED
            BY <2>1, <2>10
    <1> QED
        BY <1>1, <1>2

(* enet_peer_disconnect, at once or when nothing is left.                  *)
LEMMA DisconnectFine ==
    ASSUME NEW p \in Peers
    PROVE  Disconnect(p) \in Fine
    <1>1. QueueOutgoing(ResetQueues(p), Control("disconnect", TRUE)) \in Fine
        BY ResetQueuesFine, ControlPlain, QueueFine
    <1>2. "disconnecting" \in PeerStates
        BY DEF PeerStates
    <1> QED
        BY <1>1, <1>2, StateFine DEF Disconnect

LEMMA LeaveFine ==
    ASSUME NEW p \in Fine
    PROVE  LeaveWhenDrained(p) \in Fine
    BY DisconnectFine DEF LeaveWhenDrained, Fine

(* The events, and the acknowledgements sent.                              *)
LEMMA DispatchFine ==
    ASSUME NEW p \in Fine, NEW st \in PeerStates
    PROVE  ToDispatch(p, st) \in Fine
    BY StateFine DEF ToDispatch

LEMMA NotifyFine ==
    ASSUME NEW p \in Fine, NEW event \in BOOLEAN
    PROVE  NotifyConnect(p, event) \in Fine /\ NotifyDisconnect(p, event) \in Fine
    <1>1. {"connected", "succeeded", "pending", "zombie"} \subseteq PeerStates
        BY DEF PeerStates
    <1>2. p.session \in Nat
        BY SMTT(60) DEF Fine, Peers
    <1>3. ResetPeer(p.session) \in Fine /\ [p EXCEPT !.st = "connected"] \in Fine
        BY <1>1, <1>2, ResetFine, StateFine
    <1>4. ToDispatch(p, "succeeded") \in Fine /\ ToDispatch(p, "pending") \in Fine /\ ToDispatch(p, "zombie") \in Fine
        BY <1>1, DispatchFine
    <1> QED
        BY <1>3, <1>4 DEF NotifyConnect, NotifyDisconnect

LEMMA SendAcksFine ==
    ASSUME NEW p \in Fine
    PROVE  SendAcks(p) \in Fine
    <1>1. "zombie" \in PeerStates
        BY DEF PeerStates
    <1>2. ToDispatch(p, "zombie") \in Fine
        BY <1>1, DispatchFine
    <1>3. TRUE \in BOOLEAN /\ 0 \in Nat
        OBVIOUS
    <1>4. [p EXCEPT !.acks = <<>>] \in Fine /\ [ToDispatch(p, "zombie") EXCEPT !.acks = <<>>] \in Fine
        <2>1. \A q \in Fine : [q EXCEPT !.acks = <<>>] \in Fine
            BY <1>1, <1>3, StateFine
        <2> QED
            BY <1>2, <2>1, SMTT(60)
    <1> QED
        BY <1>4 DEF SendAcks

\* A place of the second of two lists, and the next one.
LEMMA PlaceAfter ==
    ASSUME NEW n \in Nat, NEW m \in Nat, NEW i \in n + 1 .. n + m
    PROVE  i - n # m => i + 1 \in n + 1 .. n + m /\ (i + 1) - n = (i - n) + 1
    OBVIOUS

(***************************************************************************)
(* Timeouts: what is sent again goes before the rest, and is still in      *)
(* flight.                                                                 *)
(***************************************************************************)
LEMMA SendsAgain ==
    ASSUME NEW p \in Peers, Sending(p), NEW late, NEW q, NEW b \in Seq(Commands), NEW k \in Seq(Commands), NEW t \in Seq(Commands),
           Picks(b, p.sent, {i \in late : p.sent[i].ctl = FALSE}, Len(p.sent)),
           Picks(t, p.sent, {i \in late : p.sent[i].ctl = TRUE}, Len(p.sent)),
           Picks(k, p.sent, DOMAIN p.sent \ late, Len(p.sent)),
           q.out = t \o p.out, q.outRel = b \o p.outRel, q.sent = k, q.rel = p.rel, q.windows = p.windows
    PROVE  Sending(q)
    <1> DEFINE s == p.sent
               r == p.outRel
               n == Len(b)
               m == Len(r)
    <1>1. /\ s \in Seq(Commands) /\ r \in Seq(Commands) /\ p.out \in Seq(Commands) /\ p.rel \in Nat
          /\ n \in Nat /\ m \in Nat /\ DOMAIN s = 1 .. Len(s) /\ Len(s) \in Nat /\ DOMAIN r = 1 .. m
          /\ DOMAIN k = 1 .. Len(k) /\ Len(k) \in Nat
        BY SMTT(60) DEF Peers
    <1>2. \A i \in 1 .. Len(s) : s[i] \in Commands
        BY <1>1
    <1>3. \A c \in Commands : c.tries \in Nat /\ c.ctl \in BOOLEAN /\ c.ack \in BOOLEAN
        BY DEF Commands
    <1>4. PICK g \in [1 .. n -> 1 .. Len(s)] :
              /\ \A i, j \in 1 .. n : i < j => g[i] < g[j]
              /\ \A i \in 1 .. n : b[i] = s[g[i]] /\ g[i] \in {x \in late : s[x].ctl = FALSE}
              /\ \A x \in 1 .. Len(s) : x \in {y \in late : s[y].ctl = FALSE} => \E i \in 1 .. n : g[i] = x
        BY Zenon DEF Picks
    <1>5. PICK h \in [1 .. Len(k) -> 1 .. Len(s)] :
              /\ \A i, j \in 1 .. Len(k) : i < j => h[i] < h[j]
              /\ \A i \in 1 .. Len(k) : k[i] = s[h[i]] /\ h[i] \in DOMAIN s \ late
              /\ \A x \in 1 .. Len(s) : x \in DOMAIN s \ late => \E i \in 1 .. Len(k) : h[i] = x
        BY Zenon DEF Picks
    <1>6. PICK e \in [1 .. Len(t) -> 1 .. Len(s)] :
              \A i \in 1 .. Len(t) : t[i] = s[e[i]] /\ e[i] \in {x \in late : s[x].ctl = TRUE}
        BY Zenon DEF Picks
    <1>7. /\ DOMAIN q.outRel = 1 .. n + m /\ Len(q.outRel) = n + m
          /\ \A i \in 1 .. n : q.outRel[i] = b[i]
          /\ \A i \in n + 1 .. n + m : q.outRel[i] = r[i - n]
        BY <1>1
    <1>8. /\ \A i \in DOMAIN p.out : p.out[i].ctl = p.out[i].ack
          /\ \A i \in 1 .. m : ~r[i].ctl /\ r[i].ack /\ r[i].seq < SeqSpace
          /\ \A i \in 1 .. Len(s) : s[i].ack /\ s[i].tries > 0 /\ (~s[i].ctl => s[i].seq < SeqSpace)
        BY <1>1 DEF Sending, Lists
    <1>9. \A i \in 1 .. n : g[i] \in 1 .. Len(s) /\ g[i] \in late /\ ~s[g[i]].ctl
        BY <1>4
    <1>10. \A i \in 1 .. Len(k) : h[i] \in 1 .. Len(s) /\ h[i] \notin late
        BY <1>5
    <1>11. \A i \in 1 .. n : q.outRel[i] = s[g[i]] /\ q.outRel[i].tries > 0
        BY <1>4, <1>7, <1>8, <1>9
    <1>12. \A i \in 1 .. Len(k) : q.sent[i] = s[h[i]]
        BY <1>5
    <1>13. (\A i, j \in 1 .. n : g[i] = g[j] => i = j) /\ (\A i, j \in 1 .. Len(k) : h[i] = h[j] => i = j)
        <2>1. \A i, j \in 1 .. n : i < j \/ i = j \/ j < i
            BY <1>1
        <2>2. \A i, j \in 1 .. Len(k) : i < j \/ i = j \/ j < i
            BY <1>1
        <2>3. (\A i \in 1 .. n : g[i] \in Int) /\ (\A i \in 1 .. Len(k) : h[i] \in Int)
            BY <1>9, <1>10
        <2>4. ASSUME NEW i \in 1 .. n, NEW j \in 1 .. n, g[i] = g[j] PROVE i = j
            <3>1. ~(g[i] < g[j]) /\ ~(g[j] < g[i])
                BY <2>3, <2>4
            <3> QED
                BY <1>4, <2>1, <3>1, Zenon
        <2>5. ASSUME NEW i \in 1 .. Len(k), NEW j \in 1 .. Len(k), h[i] = h[j] PROVE i = j
            <3>1. ~(h[i] < h[j]) /\ ~(h[j] < h[i])
                BY <2>3, <2>5
            <3> QED
                BY <1>5, <2>2, <3>1, Zenon
        <2> QED
            BY <2>4, <2>5
    <1> HIDE DEF s, r, n, m
    <1>a. n \in Nat /\ m \in Nat
        BY <1>1
    <1>b. \A i \in 1 .. n + m : i \in 1 .. n \/ (i \in n + 1 .. n + m /\ i - n \in 1 .. m)
        BY <1>a
    <1>14. Lists(q)
        <2>1. \A i \in DOMAIN q.out : q.out[i].ctl = q.out[i].ack
            <3>1. DOMAIN q.out = 1 .. Len(t) + Len(p.out) /\ DOMAIN p.out = 1 .. Len(p.out) /\ Len(p.out) \in Nat /\ Len(t) \in Nat
                  /\ (\A i \in 1 .. Len(t) : q.out[i] = t[i])
                  /\ \A i \in Len(t) + 1 .. Len(t) + Len(p.out) : q.out[i] = p.out[i - Len(t)]
                BY <1>1, SMTT(60)
            <3>2. \A i \in 1 .. Len(t) : t[i].ctl = TRUE /\ t[i].ack
                BY <1>6, <1>8
            <3>3. \A i \in 1 .. Len(t) : t[i] \in Commands
                OBVIOUS
            <3> SUFFICES ASSUME NEW i \in DOMAIN q.out PROVE q.out[i].ctl = q.out[i].ack
                OBVIOUS
            <3>4. CASE i \in 1 .. Len(t)
                BY <1>3, <3>1, <3>2, <3>3, <3>4
            <3>5. CASE i \in Len(t) + 1 .. Len(t) + Len(p.out)
                <4>1. i - Len(t) \in DOMAIN p.out
                    BY <3>1, <3>5
                <4> QED
                    BY <1>8, <3>1, <3>5, <4>1
            <3> QED
                BY <3>1, <3>4, <3>5
        <2>2. \A i \in DOMAIN q.outRel : ~q.outRel[i].ctl /\ q.outRel[i].ack /\ q.outRel[i].seq < SeqSpace
            <3> SUFFICES ASSUME NEW i \in 1 .. n + m PROVE ~q.outRel[i].ctl /\ q.outRel[i].ack /\ q.outRel[i].seq < SeqSpace
                BY <1>7
            <3>1. CASE i \in 1 .. n
                BY <1>8, <1>9, <1>11, <3>1
            <3>2. CASE i \in n + 1 .. n + m
                <4>1. i - n \in 1 .. m
                    BY <1>1, <3>2, SMTT(60)
                <4> QED
                    BY <1>7, <1>8, <3>2, <4>1
            <3> QED
                BY <1>b, <3>1, <3>2
        <2>3. \A i \in DOMAIN q.sent : q.sent[i].ack /\ q.sent[i].tries > 0 /\ (~q.sent[i].ctl => q.sent[i].seq < SeqSpace)
            <3>1. DOMAIN q.sent = 1 .. Len(k)
                BY <1>1
            <3> QED
                BY <1>8, <1>10, <1>12, <3>1, SMTT(60)
        <2> QED
            BY <2>1, <2>2, <2>3 DEF Lists
    <1>15. InRow(q)
        <2> SUFFICES ASSUME NEW i \in 1 .. n + m
                     PROVE  IF q.outRel[i].tries > 0 THEN \A j \in 1 .. i : q.outRel[j].tries > 0
                            ELSE IF i = n + m THEN q.outRel[i].seq = q.rel
                                 ELSE q.outRel[i + 1].seq = NextSeq(q.outRel[i].seq)
            BY <1>7 DEF InRow
        <2>1. CASE i \in 1 .. n
            <3>1. \A j \in 1 .. i : j \in 1 .. n
                BY <1>1, <2>1
            <3> QED
                BY <1>11, <2>1, <3>1
        <2>2. CASE i \in n + 1 .. n + m
            <3> DEFINE x == i - n
            <3>1. x \in 1 .. m /\ q.outRel[i] = r[x] /\ (x = m <=> i = n + m)
                <4>1. n \in Nat /\ m \in Nat
                    BY <1>1
                <4>2. x \in 1 .. m /\ (x = m <=> i = n + m)
                    BY <2>2, <4>1
                <4>3. q.outRel[i] = r[x]
                    BY <1>7, <2>2
                <4> QED
                    BY <4>2, <4>3
            <3>2. x # m => q.outRel[i + 1] = r[x + 1]
                <4>0. n \in Nat /\ m \in Nat
                    BY <1>1
                <4>1. x # m => i + 1 \in n + 1 .. n + m /\ (i + 1) - n = x + 1
                    BY <2>2, <4>0, PlaceAfter
                <4> QED
                    BY <1>7, <4>1
            <3>3. \A j \in 1 .. i : j \in 1 .. n \/ (j \in n + 1 .. n + m /\ j - n \in 1 .. x)
                <4>1. n \in Nat /\ m \in Nat
                    BY <1>1
                <4> QED
                    BY <2>2, <4>1, SMTT(60)
            <3> HIDE DEF x
            <3>4. IF r[x].tries > 0 THEN \A j \in 1 .. x : r[j].tries > 0
                  ELSE IF x = m THEN r[x].seq = p.rel ELSE r[x + 1].seq = NextSeq(r[x].seq)
                BY <1>1, <3>1 DEF Sending, InRow, r, m
            <3>5. CASE r[x].tries > 0
                <4>1. \A j \in 1 .. i : q.outRel[j].tries > 0
                    BY <1>7, <1>11, <3>3, <3>4, <3>5
                <4> QED
                    BY <3>1, <3>5, <4>1
            <3>6. CASE ~(r[x].tries > 0)
                BY <3>1, <3>2, <3>4, <3>6
            <3> QED
                BY <3>5, <3>6
        <2>3. i \in 1 .. n \/ i \in n + 1 .. n + m
            BY <1>1
        <2> QED
            BY <2>1, <2>2, <2>3
    <1>16. /\ \A i \in Sents(q) : i \in 1 .. Len(k) /\ h[i] \in Sents(p) /\ q.sent[i].seq = s[h[i]].seq
           /\ \A i \in Agains(q) : \/ i \in 1 .. n /\ g[i] \in Sents(p) /\ q.outRel[i].seq = s[g[i]].seq
                                   \/ i \in n + 1 .. n + m /\ i - n \in Agains(p) /\ q.outRel[i].seq = r[i - n].seq
        <2>1. ASSUME NEW i \in Sents(q) PROVE i \in 1 .. Len(k) /\ h[i] \in Sents(p) /\ q.sent[i].seq = s[h[i]].seq
            <3>1. i \in 1 .. Len(k) /\ ~q.sent[i].ctl
                BY <1>1, <2>1 DEF Sents
            <3> QED
                BY <1>1, <1>10, <1>12, <3>1 DEF Sents, s
        <2>2. ASSUME NEW i \in Agains(q)
              PROVE  \/ i \in 1 .. n /\ g[i] \in Sents(p) /\ q.outRel[i].seq = s[g[i]].seq
                     \/ i \in n + 1 .. n + m /\ i - n \in Agains(p) /\ q.outRel[i].seq = r[i - n].seq
            <3>1. i \in 1 .. n + m /\ q.outRel[i].tries > 0
                BY <1>7, <2>2 DEF Agains
            <3>2. CASE i \in 1 .. n
                BY <1>1, <1>9, <1>11, <3>2 DEF Sents, s
            <3>3. CASE i \in n + 1 .. n + m
                <4>1. i - n \in 1 .. m
                    BY <1>1, <3>3, SMTT(60)
                <4>2. i - n \in Agains(p)
                    BY <1>1, <1>7, <3>1, <3>3, <4>1 DEF Agains, r
                <4> QED
                    BY <1>7, <3>3, <4>2
            <3> QED
                BY <1>b, <3>1, <3>2, <3>3
        <2> QED
            BY <2>1, <2>2
    <1>c. \A i \in Sents(q) : i \in 1 .. Len(k) /\ h[i] \in Sents(p) /\ q.sent[i].seq = s[h[i]].seq
        BY <1>16
    <1>d. ASSUME NEW i \in Agains(q)
          PROVE  \/ i \in 1 .. n /\ g[i] \in Sents(p) /\ q.outRel[i].seq = s[g[i]].seq
                 \/ i \in n + 1 .. n + m /\ i - n \in Agains(p) /\ q.outRel[i].seq = r[i - n].seq
        BY <1>16
    <1>17. /\ \A x \in Sents(p) : \/ \E i \in Sents(q) : q.sent[i].seq = s[x].seq
                                  \/ \E i \in Agains(q) : q.outRel[i].seq = s[x].seq
           /\ \A x \in Agains(p) : n + x \in Agains(q) /\ q.outRel[n + x].seq = r[x].seq
        <2>1. ASSUME NEW x \in Sents(p)
              PROVE  \/ \E i \in Sents(q) : q.sent[i].seq = s[x].seq
                     \/ \E i \in Agains(q) : q.outRel[i].seq = s[x].seq
            <3>1. x \in 1 .. Len(s) /\ ~s[x].ctl /\ s[x].ctl \in BOOLEAN
                BY <1>1, <1>2, <1>3, <2>1 DEF Sents, s
            <3>2. CASE x \in late
                <4>1. PICK i \in 1 .. n : g[i] = x
                    BY <1>4, <3>1, <3>2
                <4>2. i \in Agains(q) /\ q.outRel[i] = s[x]
                    BY <1>1, <1>7, <1>11, <4>1, SMTT(60) DEF Agains
                <4> QED
                    BY <4>2
            <3>3. CASE x \notin late
                <4>1. PICK i \in 1 .. Len(k) : h[i] = x
                    BY <1>1, <1>5, <3>1, <3>3
                <4>2. q.sent[i] = s[x] /\ i \in Sents(q)
                    BY <1>1, <1>12, <3>1, <4>1 DEF Sents
                <4> QED
                    BY <4>2
            <3> QED
                BY <3>2, <3>3
        <2>2. ASSUME NEW x \in Agains(p) PROVE n + x \in Agains(q) /\ q.outRel[n + x].seq = r[x].seq
            <3>1. x \in 1 .. m /\ r[x].tries > 0
                BY <1>1, <2>2 DEF Agains, r
            <3>2. n + x \in n + 1 .. n + m /\ (n + x) - n = x /\ n + x \in 1 .. n + m
                BY <1>1, <3>1
            <3> QED
                BY <1>7, <3>1, <3>2 DEF Agains
        <2> QED
            BY <2>1, <2>2
    <1>18. InFlightOf(q) = InFlightOf(p)
        <2>1. InFlightOf(p) = {s[i].seq : i \in Sents(p)} \cup {r[i].seq : i \in Agains(p)}
            BY DEF InFlightOf, s, r
        <2>2. InFlightOf(q) = {q.sent[i].seq : i \in Sents(q)} \cup {q.outRel[i].seq : i \in Agains(q)}
            BY DEF InFlightOf
        <2>3. ASSUME NEW x \in InFlightOf(q) PROVE x \in InFlightOf(p)
            <3>1. CASE \E i \in Sents(q) : x = q.sent[i].seq
                <4>1. PICK i \in Sents(q) : x = q.sent[i].seq
                    BY <3>1
                <4>2. h[i] \in Sents(p) /\ x = s[h[i]].seq
                    BY <1>c, <4>1
                <4> QED
                    BY <2>1, <4>2
            <3>2. CASE \E i \in Agains(q) : x = q.outRel[i].seq
                <4>1. PICK i \in Agains(q) : x = q.outRel[i].seq
                    BY <3>2
                <4>2. CASE g[i] \in Sents(p) /\ q.outRel[i].seq = s[g[i]].seq
                    BY <2>1, <4>1, <4>2
                <4>3. CASE i - n \in Agains(p) /\ q.outRel[i].seq = r[i - n].seq
                    <5> DEFINE y == i - n
                    <5>1. y \in Agains(p) /\ x = r[y].seq
                        BY <4>1, <4>3
                    <5> HIDE DEF y
                    <5> QED
                        BY <2>1, <5>1
                <4> QED
                    BY <1>d, <4>2, <4>3
            <3> QED
                BY <2>2, <2>3, <3>1, <3>2
        <2>4. ASSUME NEW x \in InFlightOf(p) PROVE x \in InFlightOf(q)
            BY <1>17, <2>1, <2>2, <2>4, ZenonT(60)
        <2> QED
            BY <2>3, <2>4
    <1>19. Once(q)
        <2>1. /\ \A i, j \in Sents(p) : s[i].seq = s[j].seq => i = j
              /\ \A i, j \in Agains(p) : r[i].seq = r[j].seq => i = j
              /\ \A i \in Sents(p), j \in Agains(p) : s[i].seq # r[j].seq
            BY DEF Sending, Once, s, r
        <2>2. ASSUME NEW i \in Sents(q), NEW j \in Sents(q), q.sent[i].seq = q.sent[j].seq PROVE i = j
            <3>1. h[i] = h[j] /\ i \in 1 .. Len(k) /\ j \in 1 .. Len(k)
                <4>1. i \in 1 .. Len(k) /\ j \in 1 .. Len(k) /\ h[i] \in Sents(p) /\ h[j] \in Sents(p)
                      /\ s[h[i]].seq = s[h[j]].seq
                    BY <1>c, <2>2
                <4> QED
                    BY <2>1, <4>1, Zenon
            <3> QED
                BY <1>13, <3>1
        <2>3. ASSUME NEW i \in Agains(q), NEW j \in Agains(q), q.outRel[i].seq = q.outRel[j].seq PROVE i = j
            <3>1. CASE i \in 1 .. n /\ g[i] \in Sents(p) /\ q.outRel[i].seq = s[g[i]].seq
                <4>1. CASE j \in 1 .. n /\ g[j] \in Sents(p) /\ q.outRel[j].seq = s[g[j]].seq
                    <5>1. g[i] = g[j]
                        BY <2>1, <2>3, <3>1, <4>1, Zenon
                    <5> QED
                        BY <1>13, <3>1, <4>1, <5>1
                <4>2. CASE j - n \in Agains(p) /\ q.outRel[j].seq = r[j - n].seq
                    <5>1. s[g[i]].seq # r[j - n].seq
                        BY <2>1, <3>1, <4>2, Zenon
                    <5> QED
                        BY <2>3, <3>1, <4>2, <5>1
                <4> QED
                    BY <1>d, <4>1, <4>2
            <3>2. CASE i \in n + 1 .. n + m /\ i - n \in Agains(p) /\ q.outRel[i].seq = r[i - n].seq
                <4>1. CASE j \in 1 .. n /\ g[j] \in Sents(p) /\ q.outRel[j].seq = s[g[j]].seq
                    <5>1. s[g[j]].seq # r[i - n].seq
                        BY <2>1, <3>2, <4>1, Zenon
                    <5> QED
                        BY <2>3, <3>2, <4>1, <5>1
                <4>2. CASE j \in n + 1 .. n + m /\ j - n \in Agains(p) /\ q.outRel[j].seq = r[j - n].seq
                    <5>1. i - n = j - n
                        BY <2>1, <2>3, <3>2, <4>2, Zenon
                    <5> QED
                        BY <1>1, <3>2, <4>2, <5>1
                <4> QED
                    BY <1>d, <4>1, <4>2
            <3> QED
                BY <1>d, <3>1, <3>2
        <2>4. ASSUME NEW i \in Sents(q), NEW j \in Agains(q) PROVE q.sent[i].seq # q.outRel[j].seq
            <3>1. i \in 1 .. Len(k) /\ h[i] \in Sents(p) /\ q.sent[i].seq = s[h[i]].seq /\ h[i] \notin late
                BY <1>10, <1>16
            <3>2. CASE j \in 1 .. n /\ g[j] \in Sents(p) /\ q.outRel[j].seq = s[g[j]].seq
                <4>1. g[j] # h[i]
                    BY <1>9, <3>1, <3>2
                <4> QED
                    BY <2>1, <3>1, <3>2, <4>1, Zenon
            <3>3. CASE j - n \in Agains(p) /\ q.outRel[j].seq = r[j - n].seq
                <4>1. s[h[i]].seq # r[j - n].seq
                    BY <2>1, <3>1, <3>3, Zenon
                <4> QED
                    BY <3>1, <3>3, <4>1
            <3> QED
                BY <1>d, <3>2, <3>3
        <2> QED
            BY <2>2, <2>3, <2>4 DEF Once
    <1>20. \A x : IsNewest(q, x) = IsNewest(p, x)
        BY <1>18 DEF IsNewest
    <1>21. NextIsNew(q)
        <2>1. /\ \A i \in 1 .. m : r[i].tries = 0 /\ (i > 1 => r[i - 1].tries > 0) => IsNewest(p, r[i].seq)
              /\ Agains(p) = 1 .. m => IsNewest(p, NextSeq(p.rel))
            BY <1>1 DEF Sending, NextIsNew, r
        <2>2. ASSUME NEW i \in DOMAIN q.outRel, q.outRel[i].tries = 0, i > 1 => q.outRel[i - 1].tries > 0
              PROVE  IsNewest(q, q.outRel[i].seq)
            <3>1. i \in 1 .. n + m /\ i \notin 1 .. n
                <4>1. i \in 1 .. n => q.outRel[i].tries > 0
                    BY <1>11
                <4> QED
                    BY <1>7, <2>2, <4>1
            <3>2. i \in n + 1 .. n + m /\ i - n \in 1 .. m /\ (i - n > 1 => i > 1 /\ i - 1 \in n + 1 .. n + m /\ (i - 1) - n = (i - n) - 1)
                BY <1>a, <3>1, SMTT(60)
            <3> DEFINE x == i - n
            <3>3. x \in 1 .. m /\ q.outRel[i] = r[x] /\ (x > 1 => q.outRel[i - 1] = r[x - 1])
                BY <1>7, <3>2
            <3>4. x > 1 => i > 1
                BY <3>2
            <3> HIDE DEF x
            <3> QED
                BY <1>20, <2>1, <2>2, <3>3, <3>4
        <2>3. ASSUME Agains(q) = DOMAIN q.outRel PROVE IsNewest(q, NextSeq(q.rel))
            <3>1. \A x \in 1 .. m : x \in Agains(p)
                <4> SUFFICES ASSUME NEW x \in 1 .. m PROVE x \in Agains(p)
                    OBVIOUS
                <4>1. n + x \in 1 .. n + m /\ n + x \in n + 1 .. n + m /\ (n + x) - n = x /\ n + x \notin 1 .. n
                    BY <1>1, SMTT(60)
                <4>2. n + x \in Agains(q)
                    BY <1>7, <2>3, <4>1
                <4> QED
                    BY <1>16, <4>1, <4>2
            <3>2. Agains(p) = 1 .. m
                BY <1>1, <3>1 DEF Agains, r
            <3> QED
                BY <1>20, <2>1, <3>2
        <2> QED
            BY <2>2, <2>3 DEF NextIsNew
    <1>22. Counts(q)
        BY <1>18 DEF Sending, Counts, InWindow
    <1> QED
        BY <1>14, <1>15, <1>19, <1>21, <1>22 DEF Sending

LEMMA ExpireFine ==
    ASSUME NEW p \in Fine, NEW late
    PROVE  Expire(p, late) \in Fine
    <1> DEFINE s == p.sent
               t == Picked(s, {i \in late : s[i].ctl = TRUE})
               b == Picked(s, {i \in late : s[i].ctl = FALSE})
               k == Picked(s, DOMAIN s \ late)
               q == [p EXCEPT !.out = t \o @, !.outRel = b \o @, !.sent = k]
    <1>1. p \in Peers /\ Sending(p)
        BY DEF Fine
    <1>2. s \in Seq(Commands) /\ p.out \in Seq(Commands) /\ p.outRel \in Seq(Commands)
        BY <1>1 DEF Peers
    <1>3. /\ t \in Seq(Commands) /\ Picks(t, s, {i \in late : s[i].ctl = TRUE}, Len(s))
          /\ b \in Seq(Commands) /\ Picks(b, s, {i \in late : s[i].ctl = FALSE}, Len(s))
          /\ k \in Seq(Commands) /\ Picks(k, s, DOMAIN s \ late, Len(s))
        BY <1>2, PickedIs
    <1>4. Expire(p, late) = q
        BY DEF Expire
    <1> HIDE DEF t, b, k
    <1>5. t \o p.out \in Seq(Commands) /\ b \o p.outRel \in Seq(Commands)
        BY <1>2, <1>3
    <1>6. q \in Peers
        BY <1>1, <1>3, <1>5 DEF Peers
    <1>7. q.out = t \o p.out /\ q.outRel = b \o p.outRel /\ q.sent = k /\ q.rel = p.rel /\ q.windows = p.windows
        BY <1>1 DEF Peers
    <1> HIDE DEF q
    <1>8. Sending(q)
        BY <1>1, <1>3, <1>7, SendsAgain
    <1> QED
        BY <1>4, <1>6, <1>8 DEF Fine

(***************************************************************************)
(* Commands sent for the first time and again.                             *)
(***************************************************************************)
\* A control command is not counted.
LEMMA SendsControl ==
    ASSUME NEW p \in Peers, Sending(p), NEW q, NEW c \in Commands, c.ctl, c.ack, c.tries > 0,
           \A i \in DOMAIN q.out : q.out[i].ctl = q.out[i].ack,
           q.sent = Append(p.sent, c), q.outRel = p.outRel, q.rel = p.rel, q.windows = p.windows
    PROVE  Sending(q)
    <1> DEFINE s == p.sent
               n == Len(s)
    <1>1. s \in Seq(Commands) /\ n \in Nat /\ DOMAIN s = 1 .. n
        BY DEF Peers
    <1>2. DOMAIN q.sent = 1 .. n + 1 /\ q.sent[n + 1] = c /\ \A i \in 1 .. n : q.sent[i] = s[i]
        BY <1>1
    <1>3. n + 1 \notin 1 .. n /\ \A i \in 1 .. n + 1 : i \in 1 .. n \/ i = n + 1
        BY <1>1
    <1> HIDE DEF s, n
    <1>4. Sents(q) = Sents(p)
        <2>1. Sents(p) = {i \in 1 .. n : ~s[i].ctl}
            BY <1>1 DEF Sents, s
        <2>2. Sents(q) = {i \in 1 .. n + 1 : ~q.sent[i].ctl}
            BY <1>2 DEF Sents
        <2>3. \A i \in 1 .. n : i \in 1 .. n + 1
            BY <1>1
        <2> QED
            BY <1>2, <1>3, <2>1, <2>2, <2>3
    <1>5. \A i \in Sents(p) : q.sent[i] = s[i]
        BY <1>1, <1>2 DEF Sents, s
    <1>6. Agains(q) = Agains(p)
        BY DEF Agains
    <1>7. {q.sent[i].seq : i \in Sents(p)} = {s[i].seq : i \in Sents(p)}
        BY <1>5
    <1>8. InFlightOf(q) = InFlightOf(p)
        BY <1>4, <1>6, <1>7 DEF InFlightOf, s
    <1>9. Lists(q)
        <2>1. \A i \in DOMAIN q.outRel : ~q.outRel[i].ctl /\ q.outRel[i].ack /\ q.outRel[i].seq < SeqSpace
            BY DEF Sending, Lists
        <2>2. \A i \in 1 .. n : s[i].ack /\ s[i].tries > 0 /\ (~s[i].ctl => s[i].seq < SeqSpace)
            BY <1>1 DEF Sending, Lists, s
        <2>3. \A i \in DOMAIN q.sent : q.sent[i].ack /\ q.sent[i].tries > 0 /\ (~q.sent[i].ctl => q.sent[i].seq < SeqSpace)
            BY <1>2, <1>3, <2>2
        <2> QED
            BY <2>1, <2>3 DEF Lists
    <1>10. InRow(q)
        BY DEF Sending, InRow
    <1>11. Once(q)
        <2>1. /\ \A i, j \in Sents(p) : s[i].seq = s[j].seq => i = j
              /\ \A i, j \in Agains(p) : p.outRel[i].seq = p.outRel[j].seq => i = j
              /\ \A i \in Sents(p), j \in Agains(p) : s[i].seq # p.outRel[j].seq
            BY DEF Sending, Once, s
        <2>2. ASSUME NEW i \in Sents(q), NEW j \in Sents(q), q.sent[i].seq = q.sent[j].seq PROVE i = j
            <3>1. i \in Sents(p) /\ j \in Sents(p) /\ q.sent[i] = s[i] /\ q.sent[j] = s[j]
                BY <1>4, <1>5
            <3>2. s[i].seq = s[j].seq
                BY <2>2, <3>1
            <3> QED
                BY <2>1, <3>1, <3>2, Zenon
        <2>3. ASSUME NEW i \in Sents(q), NEW j \in Agains(q) PROVE q.sent[i].seq # q.outRel[j].seq
            <3>1. i \in Sents(p) /\ j \in Agains(p) /\ q.sent[i] = s[i]
                BY <1>4, <1>5, <1>6
            <3>2. s[i].seq # p.outRel[j].seq
                BY <2>1, <3>1, Zenon
            <3> QED
                BY <3>1, <3>2
        <2> QED
            BY <1>6, <2>1, <2>2, <2>3, ZenonT(60) DEF Once
    <1>12. NextIsNew(q)
        BY <1>6, <1>8 DEF Sending, NextIsNew, IsNewest
    <1>13. Counts(q)
        BY <1>8 DEF Sending, Counts, InWindow
    <1> QED
        BY <1>9, <1>10, <1>11, <1>12, <1>13 DEF Sending

\* What is in flight is finite.
LEMMA FiniteFlight ==
    ASSUME NEW p \in Peers
    PROVE  IsFiniteSet(InFlightOf(p)) /\ \A w : IsFiniteSet(InWindow(p, w))
    <1> DEFINE a == Sents(p)
               b == Agains(p)
               S == {p.sent[i].seq : i \in a}
               T == {p.outRel[i].seq : i \in b}
    <1>1. IsFiniteSet(1 .. Len(p.sent)) /\ IsFiniteSet(1 .. Len(p.outRel))
        <2>1. Len(p.sent) \in Nat /\ Len(p.outRel) \in Nat
            BY SMTT(60) DEF Peers
        <2>2. 1 \in Int /\ Len(p.sent) \in Int /\ Len(p.outRel) \in Int
            BY <2>1
        <2> QED
            BY <2>2, FS_Interval, Zenon
    <1>2. a \subseteq 1 .. Len(p.sent) /\ b \subseteq 1 .. Len(p.outRel)
        BY SMTT(60) DEF Peers, Sents, Agains
    <1>3. IsFiniteSet(a) /\ IsFiniteSet(b)
        BY <1>1, <1>2, FS_Subset
    <1> HIDE DEF a, b
    <1>4. IsFiniteSet(S) /\ IsFiniteSet(T)
        <2>1. IsFiniteSet(S)
            <3> DEFINE f == [i \in a |-> p.sent[i].seq]
            <3>1. f \in Surjection(a, S)
                BY DEF Surjection
            <3> HIDE DEF f, S
            <3> QED
                BY <1>3, <3>1, FS_Surjection
        <2>2. IsFiniteSet(T)
            <3> DEFINE f == [i \in b |-> p.outRel[i].seq]
            <3>1. f \in Surjection(b, T)
                BY DEF Surjection
            <3> HIDE DEF f, T
            <3> QED
                BY <1>3, <3>1, FS_Surjection
        <2> QED
            BY <2>1, <2>2
    <1>5. InFlightOf(p) = S \cup T
        BY DEF InFlightOf, a, b
    <1> HIDE DEF S, T
    <1>6. IsFiniteSet(InFlightOf(p))
        BY <1>4, <1>5, FS_Union
    <1>7. \A w : InWindow(p, w) \subseteq InFlightOf(p)
        BY DEF InWindow
    <1> QED
        BY <1>6, <1>7, FS_Subset

\* A command that may begin its window finds it empty.
LEMMA BeginsEmpty ==
    ASSUME NEW p \in Peers, Sending(p), NEW c \in Commands, c.seq < SeqSpace, c.tries = 0, c.seq % WindowSize = 0,
           ~WindowBlocked(p, c)
    PROVE  InWindow(p, WindowOf(c.seq)) = {}
    <1> DEFINE w == WindowOf(c.seq)
    <1>1. w \in 0 .. Windows - 1
        BY WindowIs DEF Commands
    <1>2. (w + 0) % Windows = w
        <2>1. Windows \in Nat \ {0} /\ 0 \in Nat
            BY Sizable
        <2>2. (0 * Windows + w) % Windows = w
            BY <1>1, <2>1, Quotient
        <2>3. 0 * Windows + w = w + 0
            BY <1>1, <2>1
        <2> QED
            BY <2>2, <2>3
    <1>3. 0 \in 0 .. FreeWindows + 1
        BY Sizable
    <1>4. ~(p.windows[(w + 0) % Windows] > 0)
        BY <1>3 DEF WindowBlocked
    <1>5. p.windows[w] \in Nat
        BY <1>1 DEF Peers
    <1> HIDE DEF w
    <1>6. p.windows[w] = Cardinality(InWindow(p, w))
        BY <1>1 DEF Sending, Counts
    <1>7. Cardinality(InWindow(p, w)) = 0 /\ IsFiniteSet(InWindow(p, w))
        BY <1>2, <1>4, <1>5, <1>6, FiniteFlight
    <1> QED
        BY <1>7, FS_EmptySet DEF w

\* A reliable command is counted the first time it is sent, and never again.
LEMMA SendsReliable ==
    ASSUME NEW p \in Peers, Sending(p), NEW q, NEW d \in Commands, NEW c,
           p.outRel # <<>>, c = p.outRel[1], d.seq = c.seq, ~d.ctl, d.ack, d.tries > 0, ~WindowBlocked(p, c),
           q.out = p.out, q.outRel = Tail(p.outRel), q.sent = Append(p.sent, d), q.rel = p.rel,
           q.windows = IF c.tries > 0 THEN p.windows ELSE [p.windows EXCEPT ![WindowOf(c.seq)] = @ + 1]
    PROVE  Sending(q)
    <1> DEFINE s == p.sent
               r == p.outRel
               n == Len(s)
               m == Len(r)
               again == c.tries > 0
    <1>1. /\ s \in Seq(Commands) /\ n \in Nat /\ DOMAIN s = 1 .. n
          /\ r \in Seq(Commands) /\ m \in Nat /\ DOMAIN r = 1 .. m /\ m > 0
        BY SMTT(60) DEF Peers
    <1>2. DOMAIN q.sent = 1 .. n + 1 /\ q.sent[n + 1] = d /\ \A i \in 1 .. n : q.sent[i] = s[i]
        BY <1>1
    <1>3. DOMAIN q.outRel = 1 .. m - 1 /\ Len(q.outRel) = m - 1 /\ \A i \in 1 .. m - 1 : q.outRel[i] = r[i + 1]
        BY <1>1
    <1>4. /\ n + 1 \notin 1 .. n /\ \A i \in 1 .. n + 1 : i \in 1 .. n \/ i = n + 1
          /\ 1 \in 1 .. m /\ \A i \in 1 .. m - 1 : i + 1 \in 1 .. m /\ i + 1 # 1 /\ i \in 1 .. m /\ i \in Int
          /\ \A j \in 1 .. m : j = 1 \/ (j - 1 \in 1 .. m - 1 /\ (j - 1) + 1 = j)
        BY <1>1
    <1>5. c \in Commands /\ c.tries \in Nat /\ c.seq \in Nat /\ c = r[1]
        <2>1. c \in Commands
            BY <1>1, <1>4
        <2> QED
            BY <2>1 DEF Commands
    <1> HIDE DEF s, r, n, m
    <1>6. /\ \A i \in 1 .. m : ~r[i].ctl /\ r[i].ack /\ r[i].seq < SeqSpace
          /\ \A i \in 1 .. n : s[i].ack /\ s[i].tries > 0 /\ (~s[i].ctl => s[i].seq < SeqSpace)
          /\ \A i \in DOMAIN p.out : p.out[i].ctl = p.out[i].ack
        BY <1>1 DEF Sending, Lists, s, r
    <1>7. c.seq < SeqSpace
        BY <1>4, <1>5, <1>6
    <1>8. Lists(q)
        <2>1. \A i \in DOMAIN q.outRel : ~q.outRel[i].ctl /\ q.outRel[i].ack /\ q.outRel[i].seq < SeqSpace
            BY <1>3, <1>4, <1>6, SMTT(60)
        <2>2. \A i \in DOMAIN q.sent : q.sent[i].ack /\ q.sent[i].tries > 0 /\ (~q.sent[i].ctl => q.sent[i].seq < SeqSpace)
            <3> SUFFICES ASSUME NEW i \in 1 .. n + 1
                         PROVE  q.sent[i].ack /\ q.sent[i].tries > 0 /\ (~q.sent[i].ctl => q.sent[i].seq < SeqSpace)
                BY <1>2
            <3>1. CASE i = n + 1
                BY <1>2, <1>7, <3>1
            <3>2. CASE i \in 1 .. n
                BY <1>2, <1>6, <3>2
            <3> QED
                BY <1>4, <3>1, <3>2
        <2> QED
            BY <1>6, <2>1, <2>2 DEF Lists
    <1>9. \A i \in 1 .. m :
              IF r[i].tries > 0 THEN \A j \in 1 .. i : r[j].tries > 0
              ELSE IF i = m THEN r[i].seq = p.rel ELSE r[i + 1].seq = NextSeq(r[i].seq)
        BY <1>1 DEF Sending, InRow, r, m
    <1>10. InRow(q)
        <2> SUFFICES ASSUME NEW i \in 1 .. m - 1
                     PROVE  IF q.outRel[i].tries > 0 THEN \A j \in 1 .. i : q.outRel[j].tries > 0
                            ELSE IF i = m - 1 THEN q.outRel[i].seq = q.rel
                                 ELSE q.outRel[i + 1].seq = NextSeq(q.outRel[i].seq)
            BY <1>3, ZenonT(60) DEF InRow
        <2> DEFINE k == i + 1
        <2>0. m \in Nat
            BY <1>1
        <2>1. k \in 1 .. m /\ (k = m <=> i = m - 1) /\ q.outRel[i] = r[k]
            <3>1. k \in 1 .. m /\ (k = m <=> i = m - 1)
                BY <2>0
            <3>2. q.outRel[i] = r[k]
                BY <1>3
            <3> QED
                BY <3>1, <3>2
        <2>2. \A j \in 1 .. i : j \in 1 .. m - 1 /\ j + 1 \in 1 .. k
            BY <1>1
        <2>3. i # m - 1 => q.outRel[i + 1] = r[k + 1]
            <3>1. i # m - 1 => k \in 1 .. m - 1
                BY <1>1
            <3> QED
                BY <1>3, <3>1
        <2> HIDE DEF k
        <2>4. IF r[k].tries > 0 THEN \A j \in 1 .. k : r[j].tries > 0
              ELSE IF k = m THEN r[k].seq = p.rel ELSE r[k + 1].seq = NextSeq(r[k].seq)
            BY <1>9, <2>1
        <2>5. CASE r[k].tries > 0
            <3>1. \A j \in 1 .. i : q.outRel[j].tries > 0
                <4> SUFFICES ASSUME NEW j \in 1 .. i PROVE q.outRel[j].tries > 0
                    OBVIOUS
                <4>1. q.outRel[j] = r[j + 1] /\ j + 1 \in 1 .. k
                    BY <1>3, <2>2
                <4> QED
                    BY <2>4, <2>5, <4>1
            <3> QED
                BY <2>1, <2>5, <3>1
        <2>6. CASE ~(r[k].tries > 0)
            BY <2>1, <2>3, <2>4, <2>6
        <2> QED
            BY <2>5, <2>6
    \* Which of them were in flight.
    <1>11. /\ Sents(q) = Sents(p) \cup {n + 1} /\ n + 1 \notin Sents(p)
           /\ \A i \in Sents(p) : q.sent[i] = s[i]
        <2>1. Sents(p) = {i \in 1 .. n : ~s[i].ctl}
            BY <1>1 DEF Sents, s
        <2>2. Sents(q) = {i \in 1 .. n + 1 : ~q.sent[i].ctl}
            BY <1>2 DEF Sents
        <2>3. ASSUME NEW i \in Sents(q) PROVE i \in Sents(p) \cup {n + 1}
            BY <1>2, <1>4, <2>1, <2>2
        <2>4. \A i \in 1 .. n : i \in 1 .. n + 1
            BY <1>1
        <2>5. n + 1 \in 1 .. n + 1
            BY <1>1
        <2>6. n + 1 \in Sents(q)
            BY <1>2, <2>2, <2>5
        <2>7. ASSUME NEW i \in Sents(p) PROVE i \in Sents(q)
            BY <1>2, <2>1, <2>2, <2>4
        <2>8. n + 1 \notin Sents(p)
            BY <1>4, <2>1
        <2>9. \A i \in Sents(p) : q.sent[i] = s[i]
            BY <1>2, <2>1
        <2> QED
            BY <2>3, <2>6, <2>7, <2>8, <2>9
    <1>12. /\ \A i \in Agains(q) : i + 1 \in Agains(p) /\ i + 1 # 1 /\ q.outRel[i] = r[i + 1] /\ i \in Int
           /\ \A j \in Agains(p) : j = 1 \/ (j - 1 \in Agains(q) /\ q.outRel[j - 1] = r[j])
        <2>1. Agains(p) = {i \in 1 .. m : r[i].tries > 0}
            BY <1>1 DEF Agains, r
        <2>2. Agains(q) = {i \in 1 .. m - 1 : q.outRel[i].tries > 0}
            BY <1>3 DEF Agains
        <2>3. ASSUME NEW i \in Agains(q) PROVE i + 1 \in Agains(p) /\ i + 1 # 1 /\ q.outRel[i] = r[i + 1] /\ i \in Int
            <3>1. i \in 1 .. m - 1 /\ q.outRel[i].tries > 0
                BY <2>2
            <3> QED
                BY <1>3, <1>4, <2>1, <3>1
        <2>4. ASSUME NEW j \in Agains(p), j # 1 PROVE j - 1 \in Agains(q) /\ q.outRel[j - 1] = r[j]
            <3>1. j \in 1 .. m /\ r[j].tries > 0
                BY <2>1
            <3>2. j - 1 \in 1 .. m - 1 /\ (j - 1) + 1 = j
                BY <1>4, <2>4, <3>1
            <3>3. q.outRel[j - 1] = r[j]
                BY <1>3, <3>2
            <3> QED
                BY <2>2, <3>1, <3>2, <3>3
        <2> QED
            BY <2>3, <2>4
    <1>13. again <=> 1 \in Agains(p)
        BY <1>1, <1>4, <1>5 DEF Agains, r
    <1>14. /\ \A i, j \in Sents(p) : s[i].seq = s[j].seq => i = j
           /\ \A i, j \in Agains(p) : r[i].seq = r[j].seq => i = j
           /\ \A i \in Sents(p), j \in Agains(p) : s[i].seq # r[j].seq
        BY DEF Sending, Once, s, r
    <1>15. InFlightOf(p) = {s[i].seq : i \in Sents(p)} \cup {r[i].seq : i \in Agains(p)}
        BY DEF InFlightOf, s, r
    <1>16. InFlightOf(q) = {q.sent[i].seq : i \in Sents(q)} \cup {q.outRel[i].seq : i \in Agains(q)}
        BY DEF InFlightOf
    <1>17. InFlightOf(q) = InFlightOf(p) \cup {c.seq}
        <2>1. ASSUME NEW x \in InFlightOf(q) PROVE x \in InFlightOf(p) \cup {c.seq}
            <3>1. CASE \E i \in Sents(q) : x = q.sent[i].seq
                <4>1. PICK i \in Sents(q) : x = q.sent[i].seq
                    BY <3>1
                <4>2. CASE i = n + 1
                    BY <1>2, <4>1, <4>2
                <4>3. CASE i \in Sents(p)
                    BY <1>11, <1>15, <4>1, <4>3
                <4> QED
                    BY <1>11, <4>2, <4>3
            <3>2. CASE \E i \in Agains(q) : x = q.outRel[i].seq
                <4>1. PICK i \in Agains(q) : x = q.outRel[i].seq
                    BY <3>2
                <4> DEFINE j == i + 1
                <4>2. j \in Agains(p) /\ x = r[j].seq
                    BY <1>12, <4>1
                <4> HIDE DEF j
                <4> QED
                    BY <1>15, <4>2
            <3> QED
                BY <1>16, <2>1, <3>1, <3>2
        <2>2. c.seq \in InFlightOf(q)
            <3>1. n + 1 \in Sents(q) /\ q.sent[n + 1].seq = c.seq
                BY <1>2, <1>11
            <3> QED
                BY <1>16, <3>1
        <2>3. ASSUME NEW x \in InFlightOf(p) PROVE x \in InFlightOf(q)
            <3>1. CASE \E i \in Sents(p) : x = s[i].seq
                <4>1. PICK i \in Sents(p) : x = s[i].seq
                    BY <3>1
                <4>2. i \in Sents(q) /\ x = q.sent[i].seq
                    BY <1>11, <4>1
                <4> QED
                    BY <1>16, <4>2
            <3>2. CASE \E j \in Agains(p) : x = r[j].seq
                <4>1. PICK j \in Agains(p) : x = r[j].seq
                    BY <3>2
                <4>2. CASE j = 1
                    BY <1>5, <2>2, <4>1, <4>2
                <4>3. CASE j # 1
                    <5> DEFINE i == j - 1
                    <5>1. i \in Agains(q) /\ x = q.outRel[i].seq
                        BY <1>12, <4>1, <4>3
                    <5> HIDE DEF i
                    <5> QED
                        BY <1>16, <5>1
                <4> QED
                    BY <4>2, <4>3
            <3> QED
                BY <1>15, <2>3, <3>1, <3>2
        <2> QED
            BY <2>1, <2>2, <2>3
    \* What is sent for the first time is not in flight.
    <1>18. ASSUME ~again PROVE Agains(p) = {} /\ c.seq \notin InFlightOf(p) /\ IsNewest(q, NextSeq(c.seq))
        <2>1. \A j \in 1 .. m : ~(r[j].tries > 0)
            <3> SUFFICES ASSUME NEW j \in 1 .. m, r[j].tries > 0 PROVE FALSE
                OBVIOUS
            <3>1. 1 \in 1 .. j
                BY <1>1
            <3>2. r[1].tries > 0
                BY <1>9, <3>1
            <3> QED
                BY <1>5, <1>18, <3>2
        <2>2. Agains(p) = {}
            BY <1>1, <2>1 DEF Agains, r
        <2>3. c.tries = 0
            BY <1>5, <1>18
        <2>4. c.seq % WindowSize # 0 => IsNewest(p, c.seq)
            BY <1>1, <1>4, <1>5, <2>3 DEF Sending, NextIsNew, r
        <2>5. c.seq % WindowSize = 0 => InWindow(p, WindowOf(c.seq)) = {}
            BY <1>5, <1>7, <2>3, BeginsEmpty
        <2>6. \A x \in InFlightOf(p) : WindowOf(x) = WindowOf(c.seq) => x < c.seq
            <3>1. CASE c.seq % WindowSize # 0
                BY <2>4, <3>1 DEF IsNewest
            <3>2. CASE c.seq % WindowSize = 0
                BY <2>5, <3>2 DEF InWindow
            <3> QED
                BY <3>1, <3>2
        <2>7. c.seq \notin InFlightOf(p)
            BY <1>5, <2>6
        <2>8. InFlightOf(p) \subseteq Nat
            <3>1. \A i \in 1 .. n : s[i] \in Commands
                BY <1>1
            <3>2. \A i \in Sents(p) : s[i].seq \in Nat
                BY <1>1, <3>1 DEF Sents, s, Commands
            <3> QED
                BY <1>15, <2>2, <3>2
        <2>9. IsNewest(q, NextSeq(c.seq))
            <3> SUFFICES ASSUME NextSeq(c.seq) % WindowSize # 0, NEW x \in InFlightOf(q),
                                WindowOf(x) = WindowOf(NextSeq(c.seq))
                         PROVE  x < NextSeq(c.seq)
                BY DEF IsNewest
            <3>1. NextSeq(c.seq) = c.seq + 1 /\ WindowOf(c.seq + 1) = WindowOf(c.seq)
                BY <1>5, <1>7, NextInWindow
            <3>2. x = c.seq \/ x \in InFlightOf(p)
                BY <1>17
            <3>3. WindowOf(x) = WindowOf(c.seq)
                BY <3>1
            <3>4. x \in Nat /\ x <= c.seq
                BY <1>5, <2>6, <2>8, <3>2, <3>3
            <3> QED
                BY <1>5, <3>1, <3>4
        <2> QED
            BY <2>2, <2>7, <2>9
    <1>19. c.seq \notin {s[i].seq : i \in Sents(p)} /\ c.seq \notin {q.outRel[i].seq : i \in Agains(q)}
        <2>1. CASE again
            <3>1. 1 \in Agains(p)
                BY <1>13, <2>1
            <3>2. \A i \in Sents(p) : s[i].seq # c.seq
                BY <1>5, <1>14, <3>1
            <3>3. ASSUME NEW i \in Agains(q), q.outRel[i].seq = c.seq PROVE FALSE
                <4>1. i + 1 \in Agains(p) /\ i + 1 # 1 /\ r[i + 1].seq = r[1].seq
                    BY <1>5, <1>12, <3>3
                <4> QED
                    BY <1>14, <3>1, <4>1, Zenon
            <3> QED
                BY <3>2, <3>3
        <2>2. CASE ~again
            <3>1. c.seq \notin {s[i].seq : i \in Sents(p)}
                BY <1>15, <1>18, <2>2
            <3>2. Agains(q) = {}
                BY <1>12, <1>18, <2>2
            <3> QED
                BY <3>1, <3>2
        <2> QED
            BY <2>1, <2>2
    <1>a. (\A i \in Sents(p) : s[i].seq # c.seq) /\ (\A i \in Agains(q) : q.outRel[i].seq # c.seq)
        BY <1>19
    <1>b. q.sent[n + 1].seq = c.seq
        BY <1>2
    <1>m. m \in Nat /\ m > 0 /\ DOMAIN q.outRel = 1 .. m - 1
        BY <1>1, <1>3
    <1>20. Once(q)
        <2>1. ASSUME NEW i \in Sents(q), NEW j \in Sents(q), q.sent[i].seq = q.sent[j].seq PROVE i = j
            <3>1. CASE i \in Sents(p) /\ j \in Sents(p)
                <4>1. s[i].seq = s[j].seq
                    BY <1>11, <2>1, <3>1
                <4> QED
                    BY <1>14, <3>1, <4>1, Zenon
            <3>2. CASE i = n + 1 /\ j \in Sents(p)
                <4>1. q.sent[i].seq = c.seq /\ q.sent[j].seq = s[j].seq /\ s[j].seq # c.seq
                    BY <1>a, <1>b, <1>11, <3>2
                <4> QED
                    BY <2>1, <4>1
            <3>3. CASE j = n + 1 /\ i \in Sents(p)
                <4>1. q.sent[j].seq = c.seq /\ q.sent[i].seq = s[i].seq /\ s[i].seq # c.seq
                    BY <1>a, <1>b, <1>11, <3>3
                <4> QED
                    BY <2>1, <4>1
            <3> QED
                BY <1>11, <3>1, <3>2, <3>3
        <2>2. ASSUME NEW i \in Agains(q), NEW j \in Agains(q), q.outRel[i].seq = q.outRel[j].seq PROVE i = j
            <3>1. i + 1 \in Agains(p) /\ j + 1 \in Agains(p) /\ r[i + 1].seq = r[j + 1].seq /\ i \in Int /\ j \in Int
                BY <1>12, <2>2
            <3>2. i + 1 = j + 1
                BY <1>14, <3>1, Zenon
            <3> QED
                BY <3>1, <3>2
        <2>3. ASSUME NEW i \in Sents(q), NEW j \in Agains(q) PROVE q.sent[i].seq # q.outRel[j].seq
            <3>1. CASE i = n + 1
                BY <1>a, <1>b, <3>1
            <3>2. CASE i \in Sents(p)
                <4>1. j + 1 \in Agains(p) /\ q.outRel[j] = r[j + 1] /\ q.sent[i] = s[i]
                    BY <1>11, <1>12, <3>2
                <4>2. s[i].seq # r[j + 1].seq
                    BY <1>14, <3>2, <4>1, Zenon
                <4> QED
                    BY <4>1, <4>2
            <3> QED
                BY <1>11, <3>1, <3>2
        <2> QED
            BY <2>1, <2>2, <2>3 DEF Once
    <1>21. NextIsNew(q)
        <2>1. CASE again
            <3>1. InFlightOf(q) = InFlightOf(p)
                BY <1>5, <1>13, <1>15, <1>17, <2>1
            <3>2. \A x : IsNewest(q, x) = IsNewest(p, x)
                BY <3>1 DEF IsNewest
            <3>3. ASSUME NEW i \in DOMAIN q.outRel, q.outRel[i].tries = 0, i > 1 => q.outRel[i - 1].tries > 0
                  PROVE  IsNewest(q, q.outRel[i].seq)
                <4>0. i \in 1 .. m - 1
                    BY <1>m
                <4>1. i \in 1 .. m - 1 /\ i + 1 \in 1 .. m /\ q.outRel[i] = r[i + 1] /\ (i + 1) - 1 = i /\ i + 1 > 1
                    <5>1. i + 1 \in 1 .. m /\ (i + 1) - 1 = i /\ i + 1 > 1
                        BY <1>m, <4>0
                    <5> QED
                        BY <1>3, <4>0, <5>1
                <4>2. r[i].tries > 0
                    <5>1. CASE i = 1
                        BY <1>5, <2>1, <5>1
                    <5>2. CASE i # 1
                        <6>1. i > 1 /\ i - 1 \in 1 .. m - 1 /\ (i - 1) + 1 = i
                            BY <1>1, <4>1, <5>2
                        <6> QED
                            BY <1>3, <3>3, <6>1
                    <5> QED
                        BY <5>1, <5>2
                <4> DEFINE j == i + 1
                <4>3. j \in 1 .. m /\ r[j].tries = 0 /\ r[j - 1].tries > 0 /\ q.outRel[i] = r[j]
                    BY <3>3, <4>1, <4>2
                <4> HIDE DEF j
                <4>4. IsNewest(p, r[j].seq)
                    BY <1>1, <4>3 DEF Sending, NextIsNew, r
                <4> QED
                    BY <3>2, <4>3, <4>4
            <3>4. ASSUME Agains(q) = DOMAIN q.outRel PROVE IsNewest(q, NextSeq(q.rel))
                <4>1. \A j \in 1 .. m : j \in Agains(p)
                    <5> SUFFICES ASSUME NEW j \in 1 .. m, j # 1 PROVE j \in Agains(p)
                        BY <1>13, <2>1
                    <5>1. j - 1 \in 1 .. m - 1 /\ (j - 1) + 1 = j
                        BY <1>4
                    <5>2. j - 1 \in Agains(q)
                        BY <1>3, <3>4, <5>1
                    <5>3. (j - 1) + 1 \in Agains(p)
                        BY <1>12, <5>2
                    <5> QED
                        BY <5>1, <5>3
                <4>2. Agains(p) = DOMAIN r
                    BY <1>1, <4>1 DEF Agains, r
                <4>3. IsNewest(p, NextSeq(p.rel))
                    BY <4>2 DEF Sending, NextIsNew, r
                <4> QED
                    BY <3>2, <4>3
            <3> QED
                BY <3>3, <3>4 DEF NextIsNew
        <2>2. CASE ~again
            <3>1. Agains(q) = {}
                BY <1>12, <1>18, <2>2
            <3>2. ASSUME NEW i \in DOMAIN q.outRel, q.outRel[i].tries = 0, i > 1 => q.outRel[i - 1].tries > 0
                  PROVE  IsNewest(q, q.outRel[i].seq)
                <4>1. i = 1
                    <5> SUFFICES ASSUME i # 1 PROVE FALSE
                        OBVIOUS
                    <5>1. i > 1 /\ i - 1 \in DOMAIN q.outRel
                        BY <1>1, <1>3
                    <5>2. i - 1 \in Agains(q)
                        BY <3>2, <5>1 DEF Agains
                    <5> QED
                        BY <3>1, <5>2
                <4>2. 1 \in 1 .. m - 1 /\ 1 # m /\ q.outRel[1] = r[1 + 1]
                    <5>1. 1 \in 1 .. m - 1
                        BY <1>m, <4>1
                    <5>2. 1 # m
                        BY <1>m, <5>1
                    <5> QED
                        BY <1>3, <5>1, <5>2
                <4>3. r[1 + 1].seq = NextSeq(r[1].seq)
                    BY <1>4, <1>5, <1>9, <2>2, <4>2
                <4> QED
                    BY <1>5, <1>18, <2>2, <4>1, <4>2, <4>3
            <3>3. ASSUME Agains(q) = DOMAIN q.outRel PROVE IsNewest(q, NextSeq(q.rel))
                <4>1. m = 1
                    <5>1. 1 .. m - 1 = {}
                        BY <1>m, <3>1, <3>3
                    <5>2. m > 1 => 1 \in 1 .. m - 1
                        BY <1>m
                    <5> QED
                        BY <1>m, <5>1, <5>2
                <4>2. r[1].seq = p.rel
                    BY <1>4, <1>5, <1>9, <2>2, <4>1
                <4> QED
                    BY <1>5, <1>18, <2>2, <4>2
            <3> QED
                BY <3>2, <3>3 DEF NextIsNew
        <2> QED
            BY <2>1, <2>2
    <1>22. Counts(q)
        <2>1. CASE again
            <3>1. InFlightOf(q) = InFlightOf(p)
                BY <1>5, <1>13, <1>15, <1>17, <2>1
            <3> QED
                BY <2>1, <3>1 DEF Sending, Counts, InWindow
        <2>2. CASE ~again
            <3> DEFINE w == WindowOf(c.seq)
            <3>1. w \in 0 .. Windows - 1 /\ p.windows \in [0 .. Windows - 1 -> Nat]
                BY <1>5, <1>7, WindowIs DEF Peers
            <3>2. q.windows = [p.windows EXCEPT ![w] = @ + 1]
                BY <2>2
            <3>3. InWindow(q, w) = InWindow(p, w) \cup {c.seq} /\ c.seq \notin InWindow(p, w)
                BY <1>17, <1>18, <2>2 DEF InWindow
            <3>4. \A v : v # w => InWindow(q, v) = InWindow(p, v)
                BY <1>17 DEF InWindow
            <3> HIDE DEF w
            <3>5. \A v \in 0 .. Windows - 1 : p.windows[v] = Cardinality(InWindow(p, v))
                BY DEF Sending, Counts
            <3>6. IsFiniteSet(InWindow(p, w))
                BY FiniteFlight
            <3>7. Cardinality(InWindow(q, w)) = Cardinality(InWindow(p, w)) + 1
                BY <3>3, <3>6, FS_AddElement
            <3>8. \A v \in 0 .. Windows - 1 : q.windows[v] = Cardinality(InWindow(q, v))
                <4> SUFFICES ASSUME NEW v \in 0 .. Windows - 1 PROVE q.windows[v] = Cardinality(InWindow(q, v))
                    OBVIOUS
                <4>1. CASE v = w
                    BY <3>1, <3>2, <3>5, <3>7, <4>1
                <4>2. CASE v # w
                    BY <3>1, <3>2, <3>4, <3>5, <4>2
                <4> QED
                    BY <4>1, <4>2
            <3> QED
                BY <3>8 DEF Counts
        <2> QED
            BY <2>1, <2>2
    <1> QED
        BY <1>8, <1>10, <1>20, <1>21, <1>22 DEF Sending

(***************************************************************************)
(* enet_protocol_check_outgoing_commands: the peer is right with what its  *)
(* loop has still to look at.                                              *)
(***************************************************************************)
Whole(s) == [s.peer EXCEPT !.out = @ \o s.out, !.outRel = @ \o s.rel]
Turns == {s \in [peer: Peers, out: Seq(Commands), rel: Seq(Commands), cmds: Seq(Wires), full: BOOLEAN] :
            s.peer.out = <<>> /\ (s.peer.outRel = <<>> \/ s.rel = <<>>) /\ Sending(Whole(s))}

LEMMA WholeIs ==
    ASSUME NEW s, s.peer \in Peers
    PROVE  /\ Whole(s).out = s.peer.out \o s.out /\ Whole(s).outRel = s.peer.outRel \o s.rel
           /\ Whole(s).sent = s.peer.sent /\ Whole(s).rel = s.peer.rel /\ Whole(s).windows = s.peer.windows
           /\ (s.out \in Seq(Commands) /\ s.rel \in Seq(Commands) => Whole(s) \in Peers)
    <1> DEFINE p == s.peer
               q == [p EXCEPT !.out = @ \o s.out, !.outRel = @ \o s.rel]
    <1>1. p \in Peers /\ p.out \in Seq(Commands) /\ p.outRel \in Seq(Commands)
        BY DEF Peers
    <1>2. Whole(s) = q
        BY DEF Whole
    <1> HIDE DEF p
    <1>3. q.out = p.out \o s.out /\ q.outRel = p.outRel \o s.rel /\ q.sent = p.sent /\ q.rel = p.rel /\ q.windows = p.windows
        BY <1>1 DEF Peers
    <1>4. ASSUME s.out \in Seq(Commands), s.rel \in Seq(Commands) PROVE q \in Peers
        <2>1. p.out \o s.out \in Seq(Commands) /\ p.outRel \o s.rel \in Seq(Commands)
            BY <1>1, <1>4
        <2> QED
            BY <1>1, <2>1 DEF Peers
    <1> HIDE DEF q
    <1> QED
        BY <1>2, <1>3, <1>4 DEF p

LEMMA WireIs ==
    ASSUME NEW c \in Commands
    PROVE  Wire(c) \in Wires
    BY DEF Wire, Wires, Commands

LEMMA OneMoreIn ==
    ASSUME NEW S, NEW f \in [S -> Nat], NEW w \in S
    PROVE  [f EXCEPT ![w] = @ + 1] \in [S -> Nat]
    OBVIOUS

LEMMA TransmittedIs ==
    ASSUME NEW p \in Peers, NEW c \in Commands, ~c.ctl => c.seq < SeqSpace
    PROVE  /\ Transmitted(p, c) \in Peers
           /\ [c EXCEPT !.tries = @ + 1] \in Commands /\ [c EXCEPT !.tries = @ + 1].tries > 0
           /\ [c EXCEPT !.tries = @ + 1].seq = c.seq /\ [c EXCEPT !.tries = @ + 1].ctl = c.ctl
           /\ [c EXCEPT !.tries = @ + 1].ack = c.ack
           /\ Transmitted(p, c).sent = Append(p.sent, [c EXCEPT !.tries = @ + 1])
           /\ Transmitted(p, c).windows = IF c.ctl \/ c.tries > 0 THEN p.windows
                                          ELSE [p.windows EXCEPT ![WindowOf(c.seq)] = @ + 1]
           /\ Transmitted(p, c).out = p.out /\ Transmitted(p, c).outRel = p.outRel /\ Transmitted(p, c).rel = p.rel
    <1> DEFINE d == [c EXCEPT !.tries = @ + 1]
               W == IF c.ctl \/ c.tries > 0 THEN p.windows ELSE [p.windows EXCEPT ![WindowOf(c.seq)] = @ + 1]
               q == [p EXCEPT !.sent = Append(@, d), !.windows = W]
    <1>1. d \in Commands /\ d.tries > 0 /\ d.seq = c.seq /\ d.ctl = c.ctl /\ d.ack = c.ack
        BY DEF Commands
    <1>2. p.sent \in Seq(Commands) /\ p.windows \in [0 .. Windows - 1 -> Nat]
        BY DEF Peers
    <1>3. W \in [0 .. Windows - 1 -> Nat]
        <2>1. ~c.ctl => WindowOf(c.seq) \in 0 .. Windows - 1
            BY WindowIs DEF Commands
        <2>2. CASE c.ctl \/ c.tries > 0
            BY <1>2, <2>2
        <2>3. CASE ~(c.ctl \/ c.tries > 0)
            <3> DEFINE w == WindowOf(c.seq)
            <3>1. w \in 0 .. Windows - 1
                BY <2>1, <2>3
            <3>2. W = [p.windows EXCEPT ![w] = @ + 1]
                BY <2>3
            <3> HIDE DEF w, W
            <3> QED
                BY <1>2, <3>1, <3>2, OneMoreIn
        <2> QED
            BY <2>2, <2>3
    <1>4. Transmitted(p, c) = q
        BY DEF Transmitted
    <1> HIDE DEF d, W
    <1>5. Append(p.sent, d) \in Seq(Commands)
        BY <1>1, <1>2
    <1>6. q \in Peers
        BY <1>3, <1>5 DEF Peers
    <1>7. q.sent = Append(p.sent, d) /\ q.windows = W /\ q.out = p.out /\ q.outRel = p.outRel /\ q.rel = p.rel
        BY DEF Peers
    <1> HIDE DEF q
    <1> QED
        BY <1>1, <1>4, <1>6, <1>7 DEF d, W

\* One turn.
LEMMA TurnKeeps ==
    ASSUME NEW s \in Turns, NEW limit, NEW dropped
    PROVE  SendNext(s, limit, dropped) \in Turns
    <1> DEFINE fromOut == s.out # <<>> /\ ~(s.rel # <<>> /\ Head(s.rel).at < Head(s.out).at)
               c == IF fromOut THEN Head(s.out) ELSE Head(s.rel)
               t == IF fromOut THEN [s EXCEPT !.out = Tail(@)] ELSE [s EXCEPT !.rel = Tail(@)]
               idle == s.full \/ (s.out = <<>> /\ s.rel = <<>>)
               stopped == ~c.ctl /\ c.ack /\ (WindowBlocked(s.peer, c) \/ InTransit(s.peer) + 1 > limit)
               x1 == [s EXCEPT !.peer.outRel = @ \o s.rel, !.rel = <<>>]
               x2 == [s EXCEPT !.full = TRUE]
               x3 == [t EXCEPT !.peer = Transmitted(@, c), !.cmds = Append(@, Wire(c))]
               x4 == [t EXCEPT !.cmds = Append(@, Wire(c))]
    <1>1. /\ s \in [peer: Peers, out: Seq(Commands), rel: Seq(Commands), cmds: Seq(Wires), full: BOOLEAN]
          /\ s.peer \in Peers /\ s.out \in Seq(Commands) /\ s.rel \in Seq(Commands) /\ s.cmds \in Seq(Wires)
          /\ s.peer.out = <<>> /\ (s.peer.outRel = <<>> \/ s.rel = <<>>) /\ Sending(Whole(s))
        BY DEF Turns
    <1>2. s.peer.outRel \in Seq(Commands) /\ s.peer.sent \in Seq(Commands) /\ <<>> \in Seq(Commands)
        BY <1>1 DEF Peers
    <1>3. Whole(s) \in Peers
        BY <1>1, WholeIs
    <1>4. Whole(s).out = s.out /\ Whole(s).outRel = s.peer.outRel \o s.rel
          /\ Whole(s).sent = s.peer.sent /\ Whole(s).rel = s.peer.rel /\ Whole(s).windows = s.peer.windows
        <2>1. <<>> \o s.out = s.out
            BY <1>1
        <2> QED
            BY <1>1, <2>1, WholeIs
    <1>5. \A i \in DOMAIN s.out : s.out[i].ctl = s.out[i].ack
        BY <1>1, <1>4 DEF Sending, Lists
    \* Another state of the loop with the same lists.
    <1>6. ASSUME NEW x \in [peer: Peers, out: Seq(Commands), rel: Seq(Commands), cmds: Seq(Wires), full: BOOLEAN],
                 x.peer.out = <<>>, x.peer.outRel = <<>> \/ x.rel = <<>>,
                 x.peer.outRel \o x.rel = s.peer.outRel \o s.rel, \A i \in DOMAIN x.out : x.out[i].ctl = x.out[i].ack,
                 x.peer.sent = s.peer.sent, x.peer.rel = s.peer.rel, x.peer.windows = s.peer.windows
          PROVE  x \in Turns
        <2>1. x.peer \in Peers /\ x.out \in Seq(Commands) /\ <<>> \o x.out = x.out
            OBVIOUS
        <2>2. /\ Whole(x).out = x.out /\ Whole(x).outRel = Whole(s).outRel /\ Whole(x).sent = Whole(s).sent
              /\ Whole(x).rel = Whole(s).rel /\ Whole(x).windows = Whole(s).windows
            BY <1>4, <1>6, <2>1, WholeIs
        <2>3. \A i \in DOMAIN Whole(x).out : Whole(x).out[i].ctl = Whole(x).out[i].ack
            BY <1>6, <2>2
        <2>4. Sending(Whole(x))
            BY <1>1, <2>2, <2>3, SameSending
        <2> QED
            BY <1>6, <2>4 DEF Turns
    <1>7. \/ SendNext(s, limit, dropped) = s
          \/ ~idle /\ stopped /\ SendNext(s, limit, dropped) = x1
          \/ SendNext(s, limit, dropped) = x2
          \/ ~idle /\ ~stopped /\ c.ack /\ SendNext(s, limit, dropped) = x3
          \/ ~idle /\ ~c.ack /\ SendNext(s, limit, dropped) = t
          \/ ~idle /\ ~c.ack /\ SendNext(s, limit, dropped) = x4
        BY Zenon DEF SendNext
    <1>8. CASE SendNext(s, limit, dropped) = x1
        <2> DEFINE r == s.peer.outRel \o s.rel
                   p == [s.peer EXCEPT !.outRel = r]
        <2>1. r \in Seq(Commands) /\ r \o <<>> = r
            BY <1>1, <1>2
        <2>2. x1 = [s EXCEPT !.peer = p, !.rel = <<>>]
            BY <1>1
        <2> HIDE DEF r
        <2>3. p \in Peers
            BY <1>1, <2>1 DEF Peers
        <2>4. p.out = s.peer.out /\ p.outRel = r /\ p.sent = s.peer.sent /\ p.rel = s.peer.rel /\ p.windows = s.peer.windows
            BY <1>1 DEF Peers
        <2> HIDE DEF p, x1
        <2>5. x1.peer = p /\ x1.out = s.out /\ x1.rel = <<>>
              /\ x1 \in [peer: Peers, out: Seq(Commands), rel: Seq(Commands), cmds: Seq(Wires), full: BOOLEAN]
            BY <1>1, <1>2, <2>2, <2>3
        <2>6. x1.peer.outRel \o x1.rel = s.peer.outRel \o s.rel
            BY <2>1, <2>4, <2>5 DEF r
        <2> QED
            BY <1>1, <1>5, <1>6, <1>8, <2>4, <2>5, <2>6
    <1>9. CASE SendNext(s, limit, dropped) = x2
        <2>1. /\ x2 \in [peer: Peers, out: Seq(Commands), rel: Seq(Commands), cmds: Seq(Wires), full: BOOLEAN]
              /\ x2.peer = s.peer /\ x2.out = s.out /\ x2.rel = s.rel
            BY <1>1
        <2> HIDE DEF x2
        <2> QED
            BY <1>1, <1>5, <1>6, <1>9, <2>1
    \* The first of the other commands.
    <1>10. ASSUME ~idle, fromOut
           PROVE  /\ c \in Commands /\ c = s.out[1] /\ (c.ctl <=> c.ack)
                  /\ Tail(s.out) \in Seq(Commands) /\ \A i \in DOMAIN Tail(s.out) : Tail(s.out)[i].ctl = Tail(s.out)[i].ack
                  /\ t.peer = s.peer /\ t.out = Tail(s.out) /\ t.rel = s.rel /\ t.cmds = s.cmds
                  /\ t \in [peer: Peers, out: Seq(Commands), rel: Seq(Commands), cmds: Seq(Wires), full: BOOLEAN]
        <2>1. s.out # <<>> /\ c = Head(s.out) /\ t = [s EXCEPT !.out = Tail(@)]
            BY <1>10, Zenon
        <2> HIDE DEF c, t
        <2>2. c \in Commands /\ c = s.out[1] /\ 1 \in DOMAIN s.out
            BY <1>1, <2>1
        <2>3. c.ctl \in BOOLEAN /\ c.ack \in BOOLEAN /\ c.ctl = c.ack
            BY <1>5, <2>2 DEF Commands
        <2>4. Tail(s.out) \in Seq(Commands) /\ DOMAIN Tail(s.out) = 1 .. Len(s.out) - 1
              /\ (\A i \in 1 .. Len(s.out) - 1 : Tail(s.out)[i] = s.out[i + 1] /\ i + 1 \in DOMAIN s.out)
            BY <1>1, <2>1
        <2>5. \A i \in DOMAIN Tail(s.out) : Tail(s.out)[i].ctl = Tail(s.out)[i].ack
            BY <1>5, <2>4
        <2> QED
            BY <1>1, <2>1, <2>2, <2>3, <2>4, <2>5
    \* The first of the reliable ones.
    <1>11. ASSUME ~idle, ~fromOut
           PROVE  /\ c \in Commands /\ c = s.rel[1] /\ ~c.ctl /\ c.ack /\ c.seq < SeqSpace
                  /\ s.peer.outRel = <<>> /\ s.rel # <<>> /\ Whole(s).outRel = s.rel
                  /\ Tail(s.rel) \in Seq(Commands)
                  /\ t.peer = s.peer /\ t.out = s.out /\ t.rel = Tail(s.rel) /\ t.cmds = s.cmds
                  /\ t \in [peer: Peers, out: Seq(Commands), rel: Seq(Commands), cmds: Seq(Wires), full: BOOLEAN]
        <2>1. s.rel # <<>> /\ c = Head(s.rel) /\ t = [s EXCEPT !.rel = Tail(@)]
            BY <1>11, Zenon
        <2> HIDE DEF c, t
        <2>2. c \in Commands /\ c = s.rel[1] /\ 1 \in DOMAIN s.rel /\ Tail(s.rel) \in Seq(Commands)
            BY <1>1, <2>1
        <2>3. s.peer.outRel = <<>> /\ Whole(s).outRel = s.rel
            BY <1>1, <1>4, <2>1
        <2>4. ~c.ctl /\ c.ack /\ c.seq < SeqSpace
            BY <1>1, <2>2, <2>3 DEF Sending, Lists
        <2> QED
            BY <1>1, <2>1, <2>2, <2>3, <2>4
    <1>12. CASE ~idle /\ ~c.ack /\ SendNext(s, limit, dropped) = t
        <2>1. fromOut
            BY <1>11, <1>12
        <2> HIDE DEF c, fromOut, idle
        <2> QED
            BY <1>1, <1>6, <1>10, <1>12, <2>1
    <1>13. CASE ~idle /\ ~c.ack /\ SendNext(s, limit, dropped) = x4
        <2>1. fromOut
            BY <1>11, <1>13
        <2> HIDE DEF fromOut, idle
        <2>2. Append(s.cmds, Wire(c)) \in Seq(Wires)
            <3> HIDE DEF c
            <3> QED
                BY <1>1, <1>10, <1>13, <2>1, WireIs
        <2> HIDE DEF c, t
        <2>3. /\ x4 \in [peer: Peers, out: Seq(Commands), rel: Seq(Commands), cmds: Seq(Wires), full: BOOLEAN]
              /\ x4.peer = t.peer /\ x4.out = t.out /\ x4.rel = t.rel
            BY <1>10, <1>13, <2>1, <2>2
        <2> HIDE DEF x4
        <2>4. x4.peer = s.peer /\ x4.out = Tail(s.out) /\ x4.rel = s.rel
              /\ \A i \in DOMAIN Tail(s.out) : Tail(s.out)[i].ctl = Tail(s.out)[i].ack
            BY <1>10, <1>13, <2>1, <2>3
        <2>5. \A i \in DOMAIN x4.out : x4.out[i].ctl = x4.out[i].ack
            BY <2>4
        <2>6. x4.peer.outRel \o x4.rel = s.peer.outRel \o s.rel
            BY <2>4
        <2>7. x4 \in Turns
            BY <1>1, <1>6, <2>3, <2>4, <2>5, <2>6
        <2> QED
            BY <1>13, <2>7
    <1>14. CASE ~idle /\ ~stopped /\ c.ack /\ SendNext(s, limit, dropped) = x3
        <2> DEFINE p == Transmitted(s.peer, c)
                   d == [c EXCEPT !.tries = @ + 1]
        <2> HIDE DEF idle
        <2>1. c \in Commands /\ (~c.ctl => c.seq < SeqSpace)
              /\ t \in [peer: Peers, out: Seq(Commands), rel: Seq(Commands), cmds: Seq(Wires), full: BOOLEAN]
              /\ t.peer = s.peer /\ t.cmds = s.cmds
            <3>1. CASE fromOut
                <4> HIDE DEF c, fromOut, t
                <4> QED
                    BY <1>10, <1>14, <3>1
            <3>2. CASE ~fromOut
                <4> HIDE DEF c, fromOut, t
                <4> QED
                    BY <1>11, <1>14, <3>2
            <3> QED
                BY <3>1, <3>2
        <2> HIDE DEF c, t
        <2>2. /\ p \in Peers /\ d \in Commands /\ d.tries > 0 /\ d.seq = c.seq /\ d.ctl = c.ctl /\ d.ack = c.ack
              /\ p.sent = Append(s.peer.sent, d) /\ p.out = s.peer.out /\ p.outRel = s.peer.outRel /\ p.rel = s.peer.rel
              /\ p.windows = IF c.ctl \/ c.tries > 0 THEN s.peer.windows
                             ELSE [s.peer.windows EXCEPT ![WindowOf(c.seq)] = @ + 1]
            BY <1>1, <2>1, TransmittedIs, SMTT(60)
        <2> HIDE DEF d
        <2>3. Append(s.cmds, Wire(c)) \in Seq(Wires)
            BY <1>1, <2>1, WireIs
        <2>4. x3 = [t EXCEPT !.peer = p, !.cmds = Append(s.cmds, Wire(c))]
            BY <2>1
        <2> HIDE DEF p
        <2>5. /\ x3 \in [peer: Peers, out: Seq(Commands), rel: Seq(Commands), cmds: Seq(Wires), full: BOOLEAN]
              /\ x3.peer = p /\ x3.out = t.out /\ x3.rel = t.rel
            BY <2>1, <2>2, <2>3, <2>4
        <2> HIDE DEF x3
        <2>6. /\ Whole(x3).out = <<>> \o t.out /\ Whole(x3).outRel = s.peer.outRel \o t.rel
              /\ Whole(x3).sent = Append(s.peer.sent, d) /\ Whole(x3).rel = s.peer.rel /\ Whole(x3).windows = p.windows
            <3>1. x3.peer = p /\ p \in Peers /\ p.out = <<>> /\ p.outRel = s.peer.outRel /\ p.rel = s.peer.rel
                  /\ p.sent = Append(s.peer.sent, d) /\ x3.out = t.out /\ x3.rel = t.rel
                BY <1>1, <2>2, <2>5
            <3>2. x3.peer \in Peers
                BY <3>1
            <3>3. /\ Whole(x3).out = x3.peer.out \o x3.out /\ Whole(x3).outRel = x3.peer.outRel \o x3.rel
                  /\ Whole(x3).sent = x3.peer.sent /\ Whole(x3).rel = x3.peer.rel /\ Whole(x3).windows = x3.peer.windows
                BY <3>2, WholeIs, Zenon
            <3> QED
                BY <3>1, <3>3
        <2>7. CASE fromOut
            <3> HIDE DEF fromOut, stopped
            <3>1. c.ctl /\ t.out = Tail(s.out) /\ t.rel = s.rel /\ t.out \in Seq(Commands)
                  /\ \A i \in DOMAIN t.out : t.out[i].ctl = t.out[i].ack
                BY <1>10, <1>14, <2>7
            <3>2. <<>> \o t.out = t.out
                BY <3>1
            <3>3. /\ Whole(x3).out = t.out /\ Whole(x3).outRel = Whole(s).outRel /\ Whole(x3).sent = Append(Whole(s).sent, d)
                  /\ Whole(x3).rel = Whole(s).rel /\ Whole(x3).windows = Whole(s).windows
                BY <1>4, <2>2, <2>6, <3>1, <3>2
            <3>4. d.ctl /\ d.ack
                BY <1>14, <2>2, <3>1
            <3>5. Sending(Whole(x3))
                BY <1>1, <1>3, <2>2, <3>1, <3>3, <3>4, SendsControl
            <3>6. x3.peer.out = <<>> /\ (x3.peer.outRel = <<>> \/ x3.rel = <<>>)
                BY <1>1, <2>2, <2>5, <3>1
            <3> QED
                BY <1>14, <2>5, <3>5, <3>6 DEF Turns
        <2>8. CASE ~fromOut
            <3> HIDE DEF fromOut
            <3>1. /\ c = s.rel[1] /\ ~c.ctl /\ c.ack /\ s.peer.outRel = <<>> /\ s.rel # <<>> /\ Whole(s).outRel = s.rel
                  /\ Tail(s.rel) \in Seq(Commands) /\ t.out = s.out /\ t.rel = Tail(s.rel)
                BY <1>11, <1>14, <2>8
            <3>2. ~WindowBlocked(s.peer, c)
                BY <1>14, <3>1
            <3> HIDE DEF stopped
            <3>3. ~WindowBlocked(Whole(s), c)
                BY <1>4, <3>2 DEF WindowBlocked
            <3>4. <<>> \o s.out = s.out /\ <<>> \o Tail(s.rel) = Tail(s.rel)
                BY <1>1, <3>1
            <3>5. /\ Whole(x3).out = Whole(s).out /\ Whole(x3).outRel = Tail(Whole(s).outRel)
                  /\ Whole(x3).sent = Append(Whole(s).sent, d) /\ Whole(x3).rel = Whole(s).rel
                  /\ Whole(x3).windows = p.windows
                BY <1>4, <2>6, <3>1, <3>4
            <3>6. p.windows = IF c.tries > 0 THEN Whole(s).windows
                              ELSE [Whole(s).windows EXCEPT ![WindowOf(c.seq)] = @ + 1]
                BY <1>4, <2>2, <3>1
            <3>7. ~d.ctl /\ d.ack
                BY <2>2, <3>1
            <3>8. Sending(Whole(x3))
                BY <1>1, <1>3, <2>2, <3>1, <3>3, <3>5, <3>6, <3>7, SendsReliable, ZenonT(60)
            <3>9. x3.peer.out = <<>> /\ (x3.peer.outRel = <<>> \/ x3.rel = <<>>)
                BY <1>1, <2>2, <2>5, <3>1
            <3> QED
                BY <1>14, <2>5, <3>8, <3>9 DEF Turns
        <2> QED
            BY <2>7, <2>8
    <1> QED
        BY <1>7, <1>8, <1>9, <1>12, <1>13, <1>14

LEMMA CheckFine ==
    ASSUME NEW p \in Fine, NEW limit, NEW dropped
    PROVE  CheckOutgoing(p, limit, dropped).peer \in Fine /\ CheckOutgoing(p, limit, dropped).cmds \in Seq(Wires)
    <1> DEFINE turns == Len(p.out) + Len(p.outRel) + 1
               s0 == [peer |-> [p EXCEPT !.out = <<>>, !.outRel = <<>>], out |-> p.out, rel |-> p.outRel,
                      cmds |-> <<>>, full |-> FALSE]
               G(f) == f = [n \in 0 .. turns |-> IF n = 0 THEN s0 ELSE SendNext(f[n - 1], limit, dropped)]
               F == CHOOSE f : G(f)
               step == [e \in (1 .. turns) \X Turns |-> SendNext(e[2], limit, dropped)]
    <1>1. p \in Peers /\ Sending(p) /\ p.out \in Seq(Commands) /\ p.outRel \in Seq(Commands)
        BY DEF Fine, Peers
    <1>2. turns \in Nat
        <2> DEFINE a == Len(p.out)
                   b == Len(p.outRel)
        <2>1. a \in Nat /\ b \in Nat
            BY <1>1
        <2>2. turns = a + b + 1
            OBVIOUS
        <2> HIDE DEF a, b, turns
        <2> QED
            BY <2>1, <2>2
    <1>3. s0 \in Turns
        <2> DEFINE e == [p EXCEPT !.out = <<>>, !.outRel = <<>>]
        <2>1. e \in Peers /\ e.out = <<>> /\ e.outRel = <<>> /\ e.sent = p.sent /\ e.rel = p.rel /\ e.windows = p.windows
            <3>1. <<>> \in Seq(Commands)
                OBVIOUS
            <3> QED
                BY <1>1, <3>1 DEF Peers
        <2> HIDE DEF e
        <2>2. <<>> \o p.out = p.out /\ <<>> \o p.outRel = p.outRel /\ <<>> \in Seq(Wires)
            BY <1>1
        <2> DEFINE s == [peer |-> e, out |-> p.out, rel |-> p.outRel, cmds |-> <<>>, full |-> FALSE]
        <2>3. s \in [peer: Peers, out: Seq(Commands), rel: Seq(Commands), cmds: Seq(Wires), full: BOOLEAN]
              /\ s.peer = e /\ s.out = p.out /\ s.rel = p.outRel
            BY <1>1, <2>1, <2>2
        <2> HIDE DEF s
        <2>4. Whole(s).out = p.out /\ Whole(s).outRel = p.outRel /\ Whole(s).sent = p.sent /\ Whole(s).rel = p.rel
              /\ Whole(s).windows = p.windows
            BY <2>1, <2>2, <2>3, WholeIs
        <2>5. \A i \in DOMAIN Whole(s).out : Whole(s).out[i].ctl = Whole(s).out[i].ack
            BY <1>1, <2>4 DEF Sending, Lists
        <2>6. Sending(Whole(s))
            BY <1>1, <2>4, <2>5, SameSending
        <2>7. s \in Turns
            BY <2>1, <2>3, <2>6 DEF Turns
        <2> QED
            BY <2>7 DEF s, e
    <1> HIDE DEF s0, turns
    <1>4. \A n \in 0 .. turns : n # 0 => n \in 1 .. turns
        BY <1>2
    <1>5. \A n \in 1 .. turns : n \in 0 .. turns /\ n # 0 /\ n - 1 \in 0 .. turns
        BY <1>2
    <1>6. \A n \in 1 .. turns : \A x \in Turns : step[<<n, x>>] = SendNext(x, limit, dropped)
        OBVIOUS
    <1>7. \A n \in 1 .. turns : \A x \in Turns : step[<<n, x>>] \in Turns
        BY <1>6, TurnKeeps
    <1> HIDE DEF step
    <1>8. PICK f : IsLoop(f, turns, s0, step) /\ \A n \in 0 .. turns : f[n] \in Turns
        BY <1>2, <1>3, <1>7, LoopStays
    <1>9. G(f)
        <2>1. f = [n \in 0 .. turns |-> IF n = 0 THEN s0 ELSE step[<<n, f[n - 1]>>]]
            BY <1>8 DEF IsLoop
        <2>2. \A n \in 1 .. turns : step[<<n, f[n - 1]>>] = SendNext(f[n - 1], limit, dropped)
            BY <1>5, <1>6, <1>8
        <2> DEFINE body == [n \in 0 .. turns |-> IF n = 0 THEN s0 ELSE SendNext(f[n - 1], limit, dropped)]
        <2>3. \A n \in 0 .. turns : (IF n = 0 THEN s0 ELSE step[<<n, f[n - 1]>>]) = body[n]
            BY <1>4, <2>2
        <2> QED
            BY <2>1, <2>3
    <1>10. G(F)
        <2> HIDE DEF G
        <2> QED
            BY <1>9
    <1> HIDE DEF F
    <1>11. F[0] = s0 /\ \A n \in 1 .. turns : F[n] = SendNext(F[n - 1], limit, dropped)
        <2> DEFINE body == [n \in 0 .. turns |-> IF n = 0 THEN s0 ELSE SendNext(F[n - 1], limit, dropped)]
        <2>1. F = body
            BY <1>10
        <2>2. 0 \in 0 .. turns
            BY <1>2
        <2>3. body[0] = s0 /\ \A n \in 1 .. turns : body[n] = SendNext(F[n - 1], limit, dropped)
            BY <1>5, <2>2
        <2> HIDE DEF body, G
        <2> QED
            BY <2>1, <2>3
    <1>12. F[turns] \in Turns
        <2>1. F[0] \in Turns /\ \A n \in 1 .. turns : F[n - 1] \in Turns => F[n] \in Turns
            BY <1>3, <1>11, TurnKeeps
        <2> HIDE DEF G
        <2> QED
            BY <1>2, <2>1, Stays
    <1> DEFINE s == F[turns]
    <1>13. /\ CheckOutgoing(p, limit, dropped).peer = Whole(s)
           /\ CheckOutgoing(p, limit, dropped).cmds = s.cmds
        BY DEF CheckOutgoing, Whole, F, G, s0, turns
    <1> HIDE DEF s, G
    <1>14. s \in Turns
        BY <1>12 DEF s
    <1>15. Whole(s) \in Peers /\ Sending(Whole(s)) /\ s.cmds \in Seq(Wires)
        BY <1>14, WholeIs DEF Turns
    <1>16. Whole(s) \in Fine
        BY <1>15 DEF Fine
    <1> QED
        BY <1>13, <1>15, <1>16

(***************************************************************************)
(* remove_sent_reliable_command: what is acknowledged is not in flight any *)
(* more.                                                                   *)
(***************************************************************************)
\* k are the elements of r at the places of I: g tells where each comes from.
Stay(r, k, I, g) ==
    /\ g \in [1 .. Len(k) -> 1 .. Len(r)]
    /\ \A i, j \in 1 .. Len(k) : i < j => g[i] < g[j]
    /\ \A i \in 1 .. Len(k) : k[i] = r[g[i]] /\ g[i] \in I
    /\ \A x \in 1 .. Len(r) : x \in I => \E i \in 1 .. Len(k) : g[i] = x
\* Those sent before go first, and the others are numbered in a row up to the last number.
Row(r, last) ==
    \A i \in 1 .. Len(r) :
        IF r[i].tries > 0 THEN \A j \in 1 .. i : r[j].tries > 0
        ELSE IF i = Len(r) THEN r[i].seq = last ELSE r[i + 1].seq = NextSeq(r[i].seq)

\* What stays of the reliable commands, in their order.
LEMMA StayInRow ==
    ASSUME NEW r \in Seq(Commands), NEW k \in Seq(Commands), NEW I, NEW last, NEW g,
           Stay(r, k, I, g), \A x \in 1 .. Len(r) : r[x].tries = 0 => x \in I, Row(r, last)
    PROVE  /\ Row(k, last)
           /\ \A i \in 1 .. Len(k) : k[i].tries = 0 /\ (i > 1 => k[i - 1].tries > 0) =>
                  (g[i] > 1 => r[g[i] - 1].tries > 0)
    <1> DEFINE n == Len(k)
               m == Len(r)
    <1>1. n \in Nat /\ m \in Nat
        OBVIOUS
    <1>2. \A x \in 1 .. m : r[x].tries \in Nat
        <2>1. \A x \in 1 .. m : r[x] \in Commands
            OBVIOUS
        <2> QED
            BY <2>1 DEF Commands
    <1> HIDE DEF n, m
    <1>3. \A i \in 1 .. n : g[i] \in 1 .. m /\ k[i] = r[g[i]]
        BY DEF n, m, Stay
    <1>4. \A i, j \in 1 .. n : i < j => g[i] < g[j]
        BY DEF n, Stay
    <1>5. \A x \in 1 .. m : r[x].tries = 0 => \E i \in 1 .. n : g[i] = x
        BY DEF n, m, Stay
    <1>6. \A i \in 1 .. m :
              IF r[i].tries > 0 THEN \A j \in 1 .. i : r[j].tries > 0
              ELSE IF i = m THEN r[i].seq = last ELSE r[i + 1].seq = NextSeq(r[i].seq)
        BY DEF m, Row
    \* From the first that was not sent on, none was.
    <1>7. ASSUME NEW x \in 1 .. m, NEW y \in 1 .. m, x <= y, r[x].tries = 0 PROVE r[y].tries = 0
        <2>1. x \in 1 .. y
            BY <1>7
        <2>2. r[y].tries > 0 => r[x].tries > 0
            BY <1>6, <2>1
        <2> QED
            BY <1>2, <1>7, <2>2
    <1>8. ASSUME NEW i \in 1 .. n
          PROVE  IF k[i].tries > 0 THEN \A j \in 1 .. i : k[j].tries > 0
                 ELSE IF i = n THEN k[i].seq = last ELSE k[i + 1].seq = NextSeq(k[i].seq)
        <2> DEFINE x == g[i]
        <2>1. x \in 1 .. m /\ k[i] = r[x]
            BY <1>3
        <2>2. CASE k[i].tries > 0
            <3> SUFFICES ASSUME NEW j \in 1 .. i PROVE k[j].tries > 0
                BY <2>2
            <3>1. j \in 1 .. n /\ (j < i \/ j = i)
                BY <1>1
            <3>2. g[j] \in 1 .. m /\ g[j] <= x /\ k[j] = r[g[j]]
                BY <1>3, <1>4, <2>1, <3>1
            <3>3. g[j] \in 1 .. x
                BY <2>1, <3>2
            <3> HIDE DEF x
            <3> QED
                BY <1>6, <2>1, <2>2, <3>2, <3>3
        <2>3. CASE ~(k[i].tries > 0)
            <3>1. r[x].tries = 0
                BY <1>2, <2>1, <2>3
            <3>2. CASE i = n
                <4>1. x = m
                    <5>0. m \in 1 .. m /\ x <= m
                        BY <1>1, <2>1
                    <5>1. r[m].tries = 0
                        BY <1>7, <2>1, <3>1, <5>0
                    <5>2. PICK j \in 1 .. n : g[j] = m
                        BY <1>5, <5>0, <5>1
                    <5>3. CASE j = i
                        BY <5>2, <5>3
                    <5>4. CASE j # i
                        <6>1. j < i
                            BY <1>1, <3>2, <5>4
                        <6>2. g[j] < g[i]
                            BY <1>4, <6>1
                        <6> QED
                            BY <1>1, <2>1, <5>0, <5>2, <6>2
                    <5> QED
                        BY <5>3, <5>4
                <4>2. r[m].seq = last
                    BY <1>6, <2>1, <2>3, <4>1
                <4> QED
                    BY <2>1, <2>3, <3>2, <4>1, <4>2
            <3>3. CASE i # n
                <4>1. i + 1 \in 1 .. n /\ i < i + 1
                    BY <1>1, <3>3
                <4>2. g[i + 1] \in 1 .. m /\ x < g[i + 1] /\ k[i + 1] = r[g[i + 1]]
                    BY <1>3, <1>4, <4>1
                <4> DEFINE y == x + 1
                <4>3. y \in 1 .. m /\ x <= y /\ y <= g[i + 1] /\ x # m
                    BY <1>1, <2>1, <4>2, SMTT(60)
                <4>4. r[y].tries = 0
                    BY <1>7, <2>1, <3>1, <4>3
                <4>5. PICK j \in 1 .. n : g[j] = y
                    BY <1>5, <4>3, <4>4
                <4>6. g[i + 1] = y
                    <5>1. j \in Int /\ i \in Int /\ g[j] \in Int /\ g[i + 1] \in Int /\ x \in Int
                        BY <1>1, <1>3, <2>1, <4>2, SMTT(60)
                    <5>2. ~(j < i) /\ j # i
                        <6>1. g[j] = x + 1
                            BY <4>5
                        <6>2. j < i => g[j] < x
                            BY <1>4
                        <6> QED
                            BY <5>1, <6>1, <6>2
                    <5>3. j = i + 1 \/ i + 1 < j
                        BY <5>1, <5>2
                    <5>4. i + 1 < j => g[i + 1] < g[j]
                        BY <1>4, <4>1
                    <5> QED
                        BY <4>3, <4>5, <5>1, <5>3, <5>4
                <4>7. r[x + 1].seq = NextSeq(r[x].seq)
                    <5>1. ~(r[x].tries > 0)
                        BY <2>1, <2>3
                    <5> HIDE DEF x
                    <5> QED
                        BY <1>6, <2>1, <4>3, <5>1
                <4> QED
                    BY <2>1, <2>3, <3>3, <4>2, <4>6, <4>7
            <3> QED
                BY <3>2, <3>3
        <2> QED
            BY <2>2, <2>3
    <1>9. ASSUME NEW i \in 1 .. n, k[i].tries = 0, i > 1 => k[i - 1].tries > 0, g[i] > 1
          PROVE  r[g[i] - 1].tries > 0
        <2> DEFINE x == g[i]
                   y == x - 1
        <2>1. x \in 1 .. m /\ y \in 1 .. m /\ y < x /\ y + 1 = x
            BY <1>1, <1>3, <1>9
        <2> SUFFICES ASSUME r[y].tries = 0 PROVE FALSE
            BY <1>2, <2>1
        <2> HIDE DEF x, y
        <2>2. PICK j \in 1 .. n : g[j] = y
            BY <1>5, <2>1
        <2>3. j \in Int /\ i \in Int /\ x \in Int /\ y \in Int
            BY <1>1, <2>1
        <2>4. ~(i < j) /\ i # j
            <3>1. i < j => g[i] < g[j]
                BY <1>4
            <3> QED
                BY <2>1, <2>2, <2>3, <3>1 DEF x
        <2>5. j < i /\ i > 1 /\ i - 1 \in 1 .. n /\ i - 1 < i /\ (j = i - 1 \/ j < i - 1)
            BY <1>1, <2>3, <2>4
        <2>6. g[i - 1] = y
            <3>1. g[i - 1] < x /\ (j < i - 1 => y < g[i - 1]) /\ g[i - 1] \in 1 .. m
                BY <1>3, <1>4, <2>2, <2>5 DEF x
            <3> QED
                BY <2>1, <2>2, <2>3, <2>5, <3>1
        <2>7. k[i - 1] = r[y]
            BY <1>3, <2>5, <2>6
        <2> QED
            BY <1>9, <2>5, <2>7
    <1> QED
        BY <1>8, <1>9 DEF n, Row

\* The elements of a sequence of commands that are kept, and that one is numbered and counted in.
LEMMA Forgets ==
    ASSUME NEW p \in Peers, Sending(p), NEW q, NEW seq \in Nat, NEW ctl \in BOOLEAN,
           NEW t \in Seq(Commands), NEW k \in Seq(Commands), NEW o \in Seq(Commands),
           Picks(t, p.sent, {i \in DOMAIN p.sent : ~IsAcked(p.sent[i], seq, ctl)}, Len(p.sent)),
           Picks(k, p.outRel, {i \in DOMAIN p.outRel : ~IsAcked(p.outRel[i], seq, ctl)}, Len(p.outRel)),
           Picks(o, p.out, {i \in DOMAIN p.out : ~IsAcked(p.out[i], seq, ctl)}, Len(p.out)),
           ctl \/ seq \in InFlightOf(p),
           q.sent = t, q.outRel = k, q.out = o, q.rel = p.rel,
           q.windows = IF ctl THEN p.windows ELSE [p.windows EXCEPT ![WindowOf(seq)] = @ - 1]
    PROVE  Sending(q)
    <1> DEFINE s == p.sent
               r == p.outRel
               n == Len(t)
               m == Len(k)
    <1>1. /\ s \in Seq(Commands) /\ DOMAIN s = 1 .. Len(s) /\ r \in Seq(Commands) /\ DOMAIN r = 1 .. Len(r)
          /\ n \in Nat /\ m \in Nat /\ DOMAIN t = 1 .. n /\ DOMAIN k = 1 .. m
          /\ p.out \in Seq(Commands) /\ DOMAIN p.out = 1 .. Len(p.out) /\ DOMAIN o = 1 .. Len(o)
        BY SMTT(60) DEF Peers
    <1>2. PICK g \in [1 .. n -> 1 .. Len(s)] :
              /\ \A i, j \in 1 .. n : i < j => g[i] < g[j]
              /\ \A i \in 1 .. n : t[i] = s[g[i]] /\ g[i] \in {x \in DOMAIN s : ~IsAcked(s[x], seq, ctl)}
              /\ \A x \in 1 .. Len(s) : x \in {y \in DOMAIN s : ~IsAcked(s[y], seq, ctl)} => \E i \in 1 .. n : g[i] = x
        BY Zenon DEF Picks
    <1>3. PICK h \in [1 .. m -> 1 .. Len(r)] :
              /\ \A i, j \in 1 .. m : i < j => h[i] < h[j]
              /\ \A i \in 1 .. m : k[i] = r[h[i]] /\ h[i] \in {x \in DOMAIN r : ~IsAcked(r[x], seq, ctl)}
              /\ \A x \in 1 .. Len(r) : x \in {y \in DOMAIN r : ~IsAcked(r[y], seq, ctl)} => \E i \in 1 .. m : h[i] = x
        BY Zenon DEF Picks
    <1>4. PICK e \in [1 .. Len(o) -> 1 .. Len(p.out)] : \A i \in 1 .. Len(o) : o[i] = p.out[e[i]]
        BY ZenonT(60) DEF Picks
    <1>5. /\ \A i \in 1 .. n : g[i] \in 1 .. Len(s) /\ t[i] = s[g[i]] /\ ~IsAcked(s[g[i]], seq, ctl)
          /\ \A i \in 1 .. m : h[i] \in 1 .. Len(r) /\ k[i] = r[h[i]] /\ ~IsAcked(r[h[i]], seq, ctl)
        BY <1>2, <1>3
    <1>6. /\ \A x \in 1 .. Len(s) : ~IsAcked(s[x], seq, ctl) => \E i \in 1 .. n : g[i] = x
          /\ \A x \in 1 .. Len(r) : ~IsAcked(r[x], seq, ctl) => \E i \in 1 .. m : h[i] = x
        BY <1>1, <1>2, <1>3
    <1>7. (\A i, j \in 1 .. n : g[i] = g[j] => i = j) /\ (\A i, j \in 1 .. m : h[i] = h[j] => i = j)
        <2>1. (\A i \in 1 .. n : g[i] \in Int) /\ (\A i \in 1 .. m : h[i] \in Int)
            BY <1>5
        <2>2. (\A i, j \in 1 .. n : i < j \/ i = j \/ j < i) /\ (\A i, j \in 1 .. m : i < j \/ i = j \/ j < i)
            BY <1>1
        <2>3. ASSUME NEW i \in 1 .. n, NEW j \in 1 .. n, g[i] = g[j] PROVE i = j
            <3>1. ~(g[i] < g[j]) /\ ~(g[j] < g[i])
                BY <2>1, <2>3
            <3> QED
                BY <1>2, <2>2, <3>1, Zenon
        <2>4. ASSUME NEW i \in 1 .. m, NEW j \in 1 .. m, h[i] = h[j] PROVE i = j
            <3>1. ~(h[i] < h[j]) /\ ~(h[j] < h[i])
                BY <2>1, <2>4
            <3> QED
                BY <1>3, <2>2, <3>1, Zenon
        <2> QED
            BY <2>3, <2>4
    <1> HIDE DEF s, r, n, m
    <1>8. /\ \A i \in DOMAIN p.out : p.out[i].ctl = p.out[i].ack
          /\ \A i \in 1 .. Len(r) : ~r[i].ctl /\ r[i].ack /\ r[i].seq < SeqSpace
          /\ \A i \in 1 .. Len(s) : s[i].ack /\ s[i].tries > 0 /\ (~s[i].ctl => s[i].seq < SeqSpace)
        BY <1>1 DEF Sending, Lists, s, r
    <1>9. (\A i \in 1 .. Len(r) : r[i].ctl \in BOOLEAN /\ r[i].tries \in Nat) /\ (\A i \in 1 .. Len(s) : s[i].ctl \in BOOLEAN)
        <2>1. (\A i \in 1 .. Len(r) : r[i] \in Commands) /\ (\A i \in 1 .. Len(s) : s[i] \in Commands)
            BY <1>1
        <2> QED
            BY <2>1 DEF Commands
    <1>10. Lists(q)
        <2>1. \A i \in DOMAIN q.out : q.out[i].ctl = q.out[i].ack
            <3> SUFFICES ASSUME NEW i \in 1 .. Len(o) PROVE o[i].ctl = o[i].ack
                BY <1>1
            <3>1. e[i] \in DOMAIN p.out /\ o[i] = p.out[e[i]]
                BY <1>1, <1>4
            <3> QED
                BY <1>8, <3>1
        <2>2. \A i \in DOMAIN q.outRel : ~q.outRel[i].ctl /\ q.outRel[i].ack /\ q.outRel[i].seq < SeqSpace
            BY <1>1, <1>5, <1>8, SMTT(60)
        <2>3. \A i \in DOMAIN q.sent : q.sent[i].ack /\ q.sent[i].tries > 0 /\ (~q.sent[i].ctl => q.sent[i].seq < SeqSpace)
            BY <1>1, <1>5, <1>8, SMTT(60)
        <2> QED
            BY <2>1, <2>2, <2>3 DEF Lists
    <1>11. \A x \in 1 .. Len(r) : r[x].tries = 0 => ~IsAcked(r[x], seq, ctl)
        BY DEF IsAcked
    <1>12. /\ Row(k, p.rel)
           /\ \A i \in 1 .. Len(k) : k[i].tries = 0 /\ (i > 1 => k[i - 1].tries > 0) =>
                  (h[i] > 1 => r[h[i] - 1].tries > 0)
        <2> DEFINE I == {x \in DOMAIN r : ~IsAcked(r[x], seq, ctl)}
        <2>1. Stay(r, k, I, h)
            BY <1>3, Zenon DEF Stay, m
        <2>2. \A x \in 1 .. Len(r) : r[x].tries = 0 => x \in I
            BY <1>1, <1>11
        <2>3. Row(r, p.rel)
            BY <1>1 DEF Sending, InRow, Row, r
        <2> HIDE DEF I
        <2> QED
            BY <1>1, <2>1, <2>2, <2>3, StayInRow
    <1>13. InRow(q)
        BY <1>1, <1>12 DEF InRow, Row, m
    <1>14. \A i \in Sents(q) : i \in 1 .. n /\ g[i] \in Sents(p) /\ q.sent[i].seq = s[g[i]].seq /\ (~ctl => s[g[i]].seq # seq)
        <2> SUFFICES ASSUME NEW i \in Sents(q)
                     PROVE  i \in 1 .. n /\ g[i] \in Sents(p) /\ q.sent[i].seq = s[g[i]].seq /\ (~ctl => s[g[i]].seq # seq)
            OBVIOUS
        <2>1. i \in 1 .. n /\ ~t[i].ctl
            BY <1>1 DEF Sents
        <2>2. g[i] \in 1 .. Len(s) /\ t[i] = s[g[i]] /\ ~IsAcked(s[g[i]], seq, ctl)
            BY <1>5, <2>1
        <2>3. g[i] \in Sents(p)
            BY <1>1, <2>1, <2>2 DEF Sents, s
        <2>4. ~ctl => s[g[i]].seq # seq
            BY <1>8, <1>9, <2>1, <2>2 DEF IsAcked
        <2> QED
            BY <2>1, <2>2, <2>3, <2>4
    <1>15. \A i \in Agains(q) : i \in 1 .. m /\ h[i] \in Agains(p) /\ q.outRel[i].seq = r[h[i]].seq /\ (~ctl => r[h[i]].seq # seq)
        <2> SUFFICES ASSUME NEW i \in Agains(q)
                     PROVE  i \in 1 .. m /\ h[i] \in Agains(p) /\ q.outRel[i].seq = r[h[i]].seq /\ (~ctl => r[h[i]].seq # seq)
            OBVIOUS
        <2>1. i \in 1 .. m /\ k[i].tries > 0
            BY <1>1 DEF Agains
        <2>2. h[i] \in 1 .. Len(r) /\ k[i] = r[h[i]] /\ ~IsAcked(r[h[i]], seq, ctl)
            BY <1>5, <2>1
        <2>3. h[i] \in Agains(p)
            BY <1>1, <2>1, <2>2 DEF Agains, r
        <2>4. ~ctl => r[h[i]].seq # seq
            BY <1>8, <1>9, <2>1, <2>2 DEF IsAcked
        <2> QED
            BY <2>1, <2>2, <2>3, <2>4
    <1>16. \A x \in Sents(p) : ctl \/ s[x].seq # seq => \E i \in Sents(q) : q.sent[i].seq = s[x].seq
        <2> SUFFICES ASSUME NEW x \in Sents(p), ctl \/ s[x].seq # seq PROVE \E i \in Sents(q) : q.sent[i].seq = s[x].seq
            OBVIOUS
        <2>1. x \in 1 .. Len(s) /\ ~s[x].ctl
            BY <1>1 DEF Sents, s
        <2>2. ~IsAcked(s[x], seq, ctl)
            BY <1>9, <2>1 DEF IsAcked
        <2>3. PICK i \in 1 .. n : g[i] = x
            BY <1>6, <2>1, <2>2
        <2>4. i \in Sents(q) /\ q.sent[i] = s[x]
            BY <1>1, <1>5, <2>1, <2>3 DEF Sents
        <2> QED
            BY <2>4
    <1>17. \A x \in Agains(p) : ctl \/ r[x].seq # seq => \E i \in Agains(q) : q.outRel[i].seq = r[x].seq
        <2> SUFFICES ASSUME NEW x \in Agains(p), ctl \/ r[x].seq # seq PROVE \E i \in Agains(q) : q.outRel[i].seq = r[x].seq
            OBVIOUS
        <2>1. x \in 1 .. Len(r) /\ r[x].tries > 0
            BY <1>1 DEF Agains, r
        <2>2. ~IsAcked(r[x], seq, ctl)
            BY <1>8, <1>9, <2>1 DEF IsAcked
        <2>3. PICK i \in 1 .. m : h[i] = x
            BY <1>6, <2>1, <2>2
        <2>4. i \in Agains(q) /\ q.outRel[i] = r[x]
            BY <1>1, <1>5, <2>1, <2>3 DEF Agains
        <2> QED
            BY <2>4
    <1>18. InFlightOf(q) = IF ctl THEN InFlightOf(p) ELSE InFlightOf(p) \ {seq}
        <2>1. InFlightOf(p) = {s[i].seq : i \in Sents(p)} \cup {r[i].seq : i \in Agains(p)}
            BY DEF InFlightOf, s, r
        <2>2. InFlightOf(q) = {q.sent[i].seq : i \in Sents(q)} \cup {q.outRel[i].seq : i \in Agains(q)}
            BY DEF InFlightOf
        <2>3. ASSUME NEW x \in InFlightOf(q) PROVE x \in InFlightOf(p) /\ (~ctl => x # seq)
            <3>1. CASE \E i \in Sents(q) : x = q.sent[i].seq
                <4>1. PICK i \in Sents(q) : x = q.sent[i].seq
                    BY <3>1
                <4>2. g[i] \in Sents(p) /\ x = s[g[i]].seq /\ (~ctl => x # seq)
                    BY <1>14, <4>1
                <4> QED
                    BY <2>1, <4>2
            <3>2. CASE \E i \in Agains(q) : x = q.outRel[i].seq
                <4>1. PICK i \in Agains(q) : x = q.outRel[i].seq
                    BY <3>2
                <4>2. h[i] \in Agains(p) /\ x = r[h[i]].seq /\ (~ctl => x # seq)
                    BY <1>15, <4>1
                <4> QED
                    BY <2>1, <4>2
            <3> QED
                BY <2>2, <2>3, <3>1, <3>2
        <2>4. ASSUME NEW x \in InFlightOf(p), ctl \/ x # seq PROVE x \in InFlightOf(q)
            <3>1. CASE \E i \in Sents(p) : x = s[i].seq
                <4>1. PICK i \in Sents(p) : x = s[i].seq
                    BY <3>1
                <4>2. \E j \in Sents(q) : q.sent[j].seq = x
                    BY <1>16, <2>4, <4>1
                <4> QED
                    BY <2>2, <4>2
            <3>2. CASE \E i \in Agains(p) : x = r[i].seq
                <4>1. PICK i \in Agains(p) : x = r[i].seq
                    BY <3>2
                <4>2. \E j \in Agains(q) : q.outRel[j].seq = x
                    BY <1>17, <2>4, <4>1
                <4> QED
                    BY <2>2, <4>2
            <3> QED
                BY <2>1, <2>4, <3>1, <3>2
        <2>5. CASE ctl
            BY <2>3, <2>4, <2>5
        <2>6. CASE ~ctl
            BY <2>3, <2>4, <2>6
        <2> QED
            BY <2>5, <2>6
    <1>19. Once(q)
        <2>1. /\ \A i, j \in Sents(p) : s[i].seq = s[j].seq => i = j
              /\ \A i, j \in Agains(p) : r[i].seq = r[j].seq => i = j
              /\ \A i \in Sents(p), j \in Agains(p) : s[i].seq # r[j].seq
            BY DEF Sending, Once, s, r
        <2>2. ASSUME NEW i \in Sents(q), NEW j \in Sents(q), q.sent[i].seq = q.sent[j].seq PROVE i = j
            <3>1. i \in 1 .. n /\ j \in 1 .. n /\ g[i] \in Sents(p) /\ g[j] \in Sents(p) /\ s[g[i]].seq = s[g[j]].seq
                BY <1>14, <2>2
            <3>2. g[i] = g[j]
                BY <2>1, <3>1, Zenon
            <3> QED
                BY <1>7, <3>1, <3>2
        <2>3. ASSUME NEW i \in Agains(q), NEW j \in Agains(q), q.outRel[i].seq = q.outRel[j].seq PROVE i = j
            <3>1. i \in 1 .. m /\ j \in 1 .. m /\ h[i] \in Agains(p) /\ h[j] \in Agains(p) /\ r[h[i]].seq = r[h[j]].seq
                BY <1>15, <2>3
            <3>2. h[i] = h[j]
                BY <2>1, <3>1, Zenon
            <3> QED
                BY <1>7, <3>1, <3>2
        <2>4. ASSUME NEW i \in Sents(q), NEW j \in Agains(q) PROVE q.sent[i].seq # q.outRel[j].seq
            <3>1. g[i] \in Sents(p) /\ h[j] \in Agains(p) /\ q.sent[i].seq = s[g[i]].seq /\ q.outRel[j].seq = r[h[j]].seq
                BY <1>14, <1>15
            <3>2. s[g[i]].seq # r[h[j]].seq
                BY <2>1, <3>1, Zenon
            <3> QED
                BY <3>1, <3>2
        <2> QED
            BY <2>2, <2>3, <2>4 DEF Once
    <1>20. InFlightOf(q) \subseteq InFlightOf(p)
        BY <1>18
    <1>21. \A x : IsNewest(p, x) => IsNewest(q, x)
        BY <1>20 DEF IsNewest
    <1>22. NextIsNew(q)
        <2>1. ASSUME NEW i \in DOMAIN q.outRel, q.outRel[i].tries = 0, i > 1 => q.outRel[i - 1].tries > 0
              PROVE  IsNewest(q, q.outRel[i].seq)
            <3> DEFINE x == h[i]
            <3>1. i \in 1 .. m /\ x \in DOMAIN r /\ q.outRel[i] = r[x]
                BY <1>1, <1>5
            <3>2. x > 1 => r[x - 1].tries > 0
                BY <1>12, <2>1, <3>1 DEF m
            <3> HIDE DEF x
            <3>3. IsNewest(p, r[x].seq)
                BY <2>1, <3>1, <3>2 DEF Sending, NextIsNew, r
            <3> QED
                BY <1>21, <3>1, <3>3
        <2>2. ASSUME Agains(q) = DOMAIN q.outRel PROVE IsNewest(q, NextSeq(q.rel))
            <3>1. ASSUME NEW x \in 1 .. Len(r) PROVE x \in Agains(p)
                <4> SUFFICES ASSUME r[x].tries = 0 PROVE FALSE
                    BY <1>1, <1>9, SMTT(60) DEF Agains, r
                <4>1. PICK i \in 1 .. m : h[i] = x
                    BY <1>6, <1>11
                <4>2. i \in DOMAIN q.outRel /\ q.outRel[i].tries = 0
                    BY <1>1, <1>5, <4>1
                <4> QED
                    BY <2>2, <4>2 DEF Agains
            <3>2. Agains(p) = DOMAIN r
                BY <1>1, <3>1 DEF Agains, r
            <3>3. IsNewest(p, NextSeq(p.rel))
                BY <3>2 DEF Sending, NextIsNew, r
            <3> QED
                BY <1>21, <3>3
        <2> QED
            BY <2>1, <2>2 DEF NextIsNew
    <1>23. Counts(q)
        <2>1. CASE ctl
            <3>1. InFlightOf(q) = InFlightOf(p) /\ q.windows = p.windows
                BY <1>18, <2>1
            <3> QED
                BY <3>1 DEF Sending, Counts, InWindow
        <2>2. CASE ~ctl
            <3> DEFINE w == WindowOf(seq)
            <3>0. seq < SeqSpace
                <4>1. seq \in {s[i].seq : i \in Sents(p)} \cup {r[i].seq : i \in Agains(p)}
                    BY <2>2 DEF InFlightOf, s, r
                <4>2. \A i \in Sents(p) : s[i].seq < SeqSpace
                    BY <1>1, <1>8 DEF Sents, s
                <4>3. \A i \in Agains(p) : r[i].seq < SeqSpace
                    BY <1>1, <1>8 DEF Agains, r
                <4> QED
                    BY <4>1, <4>2, <4>3
            <3>1. w \in 0 .. Windows - 1 /\ p.windows \in [0 .. Windows - 1 -> Nat]
                BY <3>0, WindowIs DEF Peers
            <3>2. q.windows = [p.windows EXCEPT ![w] = @ - 1]
                BY <2>2
            <3>3. InWindow(q, w) = InWindow(p, w) \ {seq} /\ seq \in InWindow(p, w)
                BY <1>18, <2>2 DEF InWindow
            <3>4. \A v : v # w => InWindow(q, v) = InWindow(p, v)
                BY <1>18, <2>2 DEF InWindow
            <3> HIDE DEF w
            <3>5. \A v \in 0 .. Windows - 1 : p.windows[v] = Cardinality(InWindow(p, v))
                BY DEF Sending, Counts
            <3>6. IsFiniteSet(InWindow(p, w))
                BY FiniteFlight
            <3>7. Cardinality(InWindow(q, w)) = Cardinality(InWindow(p, w)) - 1
                BY <3>3, <3>6, FS_RemoveElement
            <3>8. \A v \in 0 .. Windows - 1 : q.windows[v] = Cardinality(InWindow(q, v))
                <4> SUFFICES ASSUME NEW v \in 0 .. Windows - 1 PROVE q.windows[v] = Cardinality(InWindow(q, v))
                    OBVIOUS
                <4>1. CASE v = w
                    BY <3>1, <3>2, <3>5, <3>7, <4>1
                <4>2. CASE v # w
                    BY <3>1, <3>2, <3>4, <3>5, <4>2
                <4> QED
                    BY <4>1, <4>2
            <3> QED
                BY <3>8 DEF Counts
        <2> QED
            BY <2>1, <2>2
    <1> QED
        BY <1>10, <1>13, <1>19, <1>22, <1>23 DEF Sending

\* An acknowledged command of the channel is in flight.
LEMMA AckedFlies ==
    ASSUME NEW p \in Fine, NEW seq \in Nat, NEW c \in Acked(p, seq, FALSE)
    PROVE  seq \in InFlightOf(p)
    <1> DEFINE s == p.sent
               o == p.out
               r == p.outRel
               l == s \o o \o r
    <1>1. s \in Seq(Commands) /\ o \in Seq(Commands) /\ r \in Seq(Commands)
        BY DEF Fine, Peers
    <1>2. /\ \A i \in DOMAIN o : o[i].ctl = o[i].ack
          /\ InFlightOf(p) = {s[i].seq : i \in Sents(p)} \cup {r[i].seq : i \in Agains(p)}
        BY DEF Fine, Sending, Lists, InFlightOf
    <1> HIDE DEF s, o, r
    <1>3. s \o o \in Seq(Commands) /\ l \in Seq(Commands)
        BY <1>1
    <1>4. PICK i \in DOMAIN l : c = l[i] /\ IsAcked(l[i], seq, FALSE)
        <2>1. c \in Range(l) /\ IsAcked(c, seq, FALSE)
            BY DEF Acked, s, o, r
        <2> HIDE DEF l
        <2> QED
            BY <2>1 DEF Range
    <1>5. \/ \E j \in DOMAIN s : c = s[j]
          \/ \E j \in DOMAIN o : c = o[j]
          \/ \E j \in DOMAIN r : c = r[j]
        <2> DEFINE a == Len(s)
                   b == Len(o)
                   d == Len(r)
        <2>1. a \in Nat /\ b \in Nat /\ d \in Nat /\ DOMAIN s = 1 .. a /\ DOMAIN o = 1 .. b /\ DOMAIN r = 1 .. d
            BY <1>1
        <2>2. DOMAIN l = 1 .. a + b + d /\ \A j \in 1 .. a + b + d :
                  l[j] = IF j <= a THEN s[j] ELSE IF j <= a + b THEN o[j - a] ELSE r[j - (a + b)]
            BY <1>1
        <2> HIDE DEF l, a, b, d
        <2>3. CASE i <= a
            BY <1>4, <2>1, <2>2, <2>3
        <2>4. CASE i > a /\ i <= a + b
            <3>1. i - a \in 1 .. b /\ ~(i <= a)
                BY <2>1, <2>2, <2>4
            <3> QED
                BY <1>4, <2>1, <2>2, <2>4, <3>1
        <2>5. CASE i > a + b
            <3>1. i - (a + b) \in 1 .. d /\ ~(i <= a) /\ ~(i <= a + b)
                BY <2>1, <2>2, <2>5
            <3> QED
                BY <1>4, <2>1, <2>2, <3>1
        <2>6. i <= a \/ (i > a /\ i <= a + b) \/ i > a + b
            BY <2>1, <2>2
        <2> QED
            BY <2>3, <2>4, <2>5, <2>6
    <1>6. c.ack /\ c.seq = seq /\ c.ctl = FALSE /\ c.tries > 0
        BY <1>4 DEF IsAcked
    <1>7. CASE \E j \in DOMAIN s : c = s[j]
        <2>1. PICK j \in DOMAIN s : c = s[j]
            BY <1>7
        <2>2. j \in Sents(p)
            BY <1>6, <2>1 DEF Sents, s
        <2> QED
            BY <1>2, <1>6, <2>1, <2>2
    <1>8. CASE \E j \in DOMAIN o : c = o[j]
        BY <1>2, <1>6, <1>8
    <1>9. CASE \E j \in DOMAIN r : c = r[j]
        <2>1. PICK j \in DOMAIN r : c = r[j]
            BY <1>9
        <2>2. j \in Agains(p)
            BY <1>6, <2>1 DEF Agains, r
        <2> QED
            BY <1>2, <1>6, <2>1, <2>2
    <1> QED
        BY <1>5, <1>7, <1>8, <1>9

\* One less of a count that is not zero.
LEMMA OneLessIn ==
    ASSUME NEW S, NEW f \in [S -> Nat], NEW w \in S, f[w] # 0
    PROVE  [f EXCEPT ![w] = @ - 1] \in [S -> Nat]
    <1>1. f[w] \in Nat
        OBVIOUS
    <1>2. f[w] - 1 \in Nat
        BY <1>1
    <1>3. \A v \in S : f[v] \in Nat
        OBVIOUS
    <1> QED
        BY <1>2, <1>3

LEMMA ForgetFine ==
    ASSUME NEW p \in Fine, NEW seq \in Nat, NEW ctl \in BOOLEAN
    PROVE  Forget(p, seq, ctl) \in Fine
    <1> DEFINE t == Picked(p.sent, {i \in DOMAIN p.sent : ~IsAcked(p.sent[i], seq, ctl)})
               o == Picked(p.out, {i \in DOMAIN p.out : ~IsAcked(p.out[i], seq, ctl)})
               k == Picked(p.outRel, {i \in DOMAIN p.outRel : ~IsAcked(p.outRel[i], seq, ctl)})
               w == WindowOf(seq)
               W == IF ctl \/ p.windows[w] = 0 THEN p.windows ELSE [p.windows EXCEPT ![w] = @ - 1]
               q == [p EXCEPT !.sent = t, !.out = o, !.outRel = k, !.windows = W]
    <1>1. p \in Peers /\ Sending(p) /\ p.sent \in Seq(Commands) /\ p.out \in Seq(Commands) /\ p.outRel \in Seq(Commands)
          /\ p.windows \in [0 .. Windows - 1 -> Nat]
        BY DEF Fine, Peers
    <1>2. CASE Acked(p, seq, ctl) = {}
        BY <1>2 DEF Forget
    <1>3. CASE Acked(p, seq, ctl) # {}
        <2>1. Forget(p, seq, ctl) = q
            BY <1>3 DEF Forget
        <2>2. /\ t \in Seq(Commands) /\ Picks(t, p.sent, {i \in DOMAIN p.sent : ~IsAcked(p.sent[i], seq, ctl)}, Len(p.sent))
              /\ o \in Seq(Commands) /\ Picks(o, p.out, {i \in DOMAIN p.out : ~IsAcked(p.out[i], seq, ctl)}, Len(p.out))
              /\ k \in Seq(Commands)
              /\ Picks(k, p.outRel, {i \in DOMAIN p.outRel : ~IsAcked(p.outRel[i], seq, ctl)}, Len(p.outRel))
            BY <1>1, PickedIs
        <2>3. ctl \/ seq \in InFlightOf(p)
            <3>1. CASE ctl
                BY <3>1
            <3>2. CASE ctl = FALSE
                BY <1>3, <3>2, AckedFlies
            <3> QED
                BY <3>1, <3>2
        <2>4. ~ctl => w \in 0 .. Windows - 1 /\ p.windows[w] # 0
            <3> SUFFICES ASSUME ~ctl PROVE w \in 0 .. Windows - 1 /\ p.windows[w] # 0
                OBVIOUS
            <3>1. seq \in InFlightOf(p) /\ seq \in InWindow(p, w)
                BY <2>3 DEF InWindow
            <3>2. seq < SeqSpace
                <4>1. seq \in {p.sent[i].seq : i \in Sents(p)} \cup {p.outRel[i].seq : i \in Agains(p)}
                    BY <3>1 DEF InFlightOf
                <4>2. \A i \in Sents(p) : p.sent[i].seq < SeqSpace
                    BY <1>1 DEF Sents, Sending, Lists
                <4>3. \A i \in Agains(p) : p.outRel[i].seq < SeqSpace
                    BY <1>1 DEF Agains, Sending, Lists
                <4> QED
                    BY <4>1, <4>2, <4>3
            <3>3. w \in 0 .. Windows - 1
                BY <3>2, WindowIs
            <3> HIDE DEF w
            <3>4. p.windows[w] = Cardinality(InWindow(p, w)) /\ IsFiniteSet(InWindow(p, w))
                BY <1>1, <3>3, FiniteFlight DEF Sending, Counts
            <3> QED
                BY <3>1, <3>3, <3>4, FS_EmptySet
        <2>5. W = IF ctl THEN p.windows ELSE [p.windows EXCEPT ![w] = @ - 1]
            BY <2>4
        <2>6. W \in [0 .. Windows - 1 -> Nat]
            <3>1. CASE ctl
                BY <1>1, <2>5, <3>1
            <3>2. CASE ~ctl
                <4>1. w \in 0 .. Windows - 1 /\ p.windows[w] # 0 /\ W = [p.windows EXCEPT ![w] = @ - 1]
                    BY <2>4, <2>5, <3>2
                <4> HIDE DEF w, W
                <4> QED
                    BY <1>1, <4>1, OneLessIn
            <3> QED
                BY <3>1, <3>2
        <2> HIDE DEF t, o, k, W
        <2>7. q \in Peers
            BY <1>1, <2>2, <2>6 DEF Peers
        <2>8. q.sent = t /\ q.out = o /\ q.outRel = k /\ q.windows = W /\ q.rel = p.rel
            BY <1>1 DEF Peers
        <2> HIDE DEF q
        <2>9. q.windows = IF ctl THEN p.windows ELSE [p.windows EXCEPT ![WindowOf(seq)] = @ - 1]
            BY <2>5, <2>8
        <2>10. Sending(q)
            BY <1>1, <2>2, <2>3, <2>8, <2>9, Forgets
        <2> QED
            BY <2>1, <2>7, <2>10 DEF Fine
    <1> QED
        BY <1>2, <1>3

(***************************************************************************)
(* Receiving touches nothing of what the peer is sending.                  *)
(***************************************************************************)
LEMMA ReceivedFine ==
    ASSUME NEW p \in Fine, NEW q \in Peers, q.out = p.out, q.rel = p.rel, q.windows = p.windows,
           q.outRel = p.outRel, q.sent = p.sent
    PROVE  q \in Fine
    <1>1. Sending(p) /\ \A i \in DOMAIN p.out : p.out[i].ctl = p.out[i].ack
        BY DEF Fine, Sending, Lists
    <1>2. Sending(q)
        BY <1>1, SameSending
    <1> QED
        BY <1>2 DEF Fine

\* A difference of numbers, and where a fragmented message starts and ends, are in the number space.
LEMMA Wraps ==
    ASSUME NEW n \in Int
    PROVE  n % SeqSpace \in Nat
    <1>1. SeqSpace \in Nat \ {0}
        BY Space
    <1> DEFINE m == SeqSpace
    <1> HIDE DEF m
    <1>2. m \in Nat \ {0} => n % m \in Nat
        OBVIOUS
    <1> QED
        BY <1>1, <1>2 DEF m

LEMMA EntryIs ==
    ASSUME NEW c \in Wires, NEW seq \in Nat, NEW missing \in SUBSET (1 .. Parts)
    PROVE  Entry(c, seq, missing) \in Entries
    <1>1. c.kind \in CommandKinds /\ c.unrel \in Nat /\ c.msg \in Nat /\ Parts \in Nat
        BY Sizable DEF Wires
    <1>2. (IF c.kind = "fragment" THEN Parts ELSE 1) \in Nat
        BY <1>1
    <1> QED
        BY <1>1, <1>2 DEF Entry, Entries

(* Handing over.                                                           *)
LEMMA DispatchedFine ==
    ASSUME NEW p \in Fine, NEW entries \in Seq(Entries)
    PROVE  Dispatched(p, entries) \in Fine
    <1> DEFINE q == [p EXCEPT !.dispatched = @ \o entries, !.pending = TRUE]
    <1>1. p \in Peers /\ p.dispatched \in Seq(Entries)
        BY DEF Fine, Peers
    <1>2. p.dispatched \o entries \in Seq(Entries)
        BY <1>1
    <1>3. q \in Peers /\ q.out = p.out /\ q.rel = p.rel /\ q.windows = p.windows /\ q.outRel = p.outRel /\ q.sent = p.sent
        BY <1>1, <1>2 DEF Peers
    <1> HIDE DEF q
    <1>4. q \in Fine
        BY <1>3, ReceivedFine
    <1> QED
        BY <1>4 DEF Dispatched, q

LEMMA DispatchUnreliableFine ==
    ASSUME NEW p \in Fine
    PROVE  DispatchUnreliable(p) \in Fine
    <1> DEFINE q == p.queueUnrel
               Waits(e) == e.kind # "unsequenced" /\ e.seq # p.inRel /\ Accepts(p, e.seq)
               N == {Len(q) + 1} \cup {i \in DOMAIN q : Waits(q[i])}
               n == Min(N)
               now == {i \in 1 .. n - 1 : q[i].kind = "unsequenced" \/ q[i].seq = p.inRel}
               numbers == {q[i].unrel : i \in {j \in now : q[j].kind # "unsequenced"}}
               M == {p.inUnrel} \cup numbers
               t == SubSeq(q, n, Len(q))
               r == [p EXCEPT !.queueUnrel = t, !.inUnrel = Max(M)]
               k == Picked(q, now)
    <1>1. p \in Peers /\ q \in Seq(Entries) /\ p.inUnrel \in Nat
        BY DEF Fine, Peers
    <1>2. Len(q) \in Nat /\ DOMAIN q = 1 .. Len(q) /\ \A i \in 1 .. Len(q) : q[i] \in Entries
        BY <1>1
    <1>3. n \in 1 .. Len(q) + 1
        <2>1. N \subseteq 1 .. Len(q) + 1 /\ N # {}
            <3> HIDE DEF Waits
            <3> QED
                BY <1>2
        <2> HIDE DEF N
        <2>2. N \subseteq Nat
            BY <1>2, <2>1
        <2>3. Min(N) \in N
            BY <2>1, <2>2, Smallest
        <2> QED
            BY <2>1, <2>3
    <1> HIDE DEF n
    <1>4. now \subseteq 1 .. Len(q)
        BY <1>2, <1>3
    <1>5. Max(M) \in Nat
        <2> DEFINE f == [i \in 1 .. Len(q) |-> q[i].unrel]
        <2>1. \A i \in 1 .. Len(q) : q[i].unrel \in Nat
            BY <1>2 DEF Entries
        <2>2. f \in [1 .. Len(q) -> Nat]
            BY <2>1
        <2>3. PICK b \in Nat : \A i \in 1 .. Len(q) : f[i] <= b
            BY <1>2, <2>2, Bounded
        <2>4. \A i \in 1 .. Len(q) : q[i].unrel <= b
            BY <2>3
        <2>5. numbers \subseteq Nat /\ \A x \in numbers : x <= b
            BY <1>4, <2>1, <2>4
        <2> HIDE DEF numbers
        <2> DEFINE d == b + p.inUnrel
        <2>6. d \in Nat /\ M \subseteq Nat /\ M # {} /\ \A x \in M : x <= d
            <3>1. \A x \in numbers : x \in Nat /\ x <= b
                BY <2>5
            <3>2. b <= d /\ p.inUnrel <= d /\ d \in Nat /\ b \in Nat
                BY <1>1, <2>3
            <3>3. ASSUME NEW x \in numbers PROVE x <= d
                <4>1. x \in Nat /\ x <= b
                    BY <3>1
                <4> HIDE DEF d
                <4> QED
                    BY <3>2, <4>1
            <3> HIDE DEF d
            <3> QED
                BY <1>1, <2>5, <3>2, <3>3
        <2> HIDE DEF M, d
        <2>7. Max(M) \in M
            BY <2>6, Greatest
        <2> QED
            BY <2>6, <2>7
    <1>6. t \in Seq(Entries)
        BY <1>1, <1>2, <1>3
    <1>7. k \in Seq(Entries)
        BY <1>1, PickedIs
    <1>8. DispatchUnreliable(p) = Dispatched(r, k)
        BY DEF DispatchUnreliable, n
    <1> HIDE DEF M, t, k
    <1>9. r \in Peers /\ r.out = p.out /\ r.rel = p.rel /\ r.windows = p.windows /\ r.outRel = p.outRel /\ r.sent = p.sent
        BY <1>1, <1>5, <1>6 DEF Peers
    <1> HIDE DEF r
    <1>10. r \in Fine
        BY <1>9, ReceivedFine
    <1> QED
        BY <1>7, <1>8, <1>10, DispatchedFine

\* How many of a queue are in turn: the first k, for some k.
LEMMA InTurnFirst ==
    ASSUME NEW n \in Nat, NEW P
    PROVE  \E k \in 0 .. n : (\A i \in 1 .. k : i \in P) /\ (k < n => k + 1 \notin P)
    <1> DEFINE S == {i \in 1 .. n : i \notin P}
    <1>1. CASE S = {}
        <2>1. n \in 0 .. n /\ \A i \in 1 .. n : i \in P
            BY <1>1
        <2> QED
            BY <2>1
    <1>2. CASE S # {}
        <2>1. S \subseteq Nat
            OBVIOUS
        <2>2. PICK m \in S : \A i \in S : m <= i
            BY <1>2, <2>1, Least, Zenon
        <2>3. m \in 1 .. n /\ m \notin P
            BY <2>2
        <2>4. ASSUME NEW i \in 1 .. m - 1 PROVE i \in P
            <3>1. i \in 1 .. n /\ ~(m <= i)
                BY <2>3
            <3> QED
                BY <2>2, <3>1
        <2>5. m - 1 \in 0 .. n /\ (m - 1) + 1 = m
            BY <2>3
        <2> QED
            BY <2>3, <2>4, <2>5
    <1> QED
        BY <1>1, <1>2

LEMMA DispatchReliableFine ==
    ASSUME NEW p \in Fine
    PROVE  DispatchReliable(p) \in Fine
    <1> DEFINE q == p.queueRel
               U == [n \in 0 .. Len(q) |-> IF n = 0 THEN p.inRel ELSE LastSeq(q[n])]
               n == CHOOSE k \in 0 .. Len(q) :
                       /\ \A i \in 1 .. k : InTurn(q[i], U[i - 1])
                       /\ k < Len(q) => ~InTurn(q[k + 1], U[k])
               t == SubSeq(q, n + 1, Len(q))
               r == [p EXCEPT !.queueRel = t, !.inRel = U[n], !.inUnrel = 0]
               k == SubSeq(q, 1, n)
    <1>1. p \in Peers /\ q \in Seq(Entries) /\ p.inRel \in Nat
        BY DEF Fine, Peers
    <1>2. Len(q) \in Nat /\ DOMAIN q = 1 .. Len(q) /\ \A i \in 1 .. Len(q) : q[i] \in Entries
        BY <1>1
    <1>3. \A i \in 0 .. Len(q) : U[i] \in Nat
        <2>1. ASSUME NEW e \in Entries PROVE LastSeq(e) \in Nat
            <3>1. e.seq \in Nat /\ e.parts \in Nat
                BY DEF Entries
            <3>2. e.seq + e.parts - 1 \in Int
                BY <3>1
            <3> QED
                BY <3>2, Wraps DEF LastSeq
        <2>2. ASSUME NEW i \in 0 .. Len(q) PROVE U[i] \in Nat
            <3>1. i = 0 \/ i \in 1 .. Len(q)
                BY <1>2
            <3>2. CASE i = 0
                BY <1>1, <1>2, <3>2
            <3>3. CASE i \in 1 .. Len(q)
                <4>1. i # 0 /\ LastSeq(q[i]) \in Nat
                    BY <1>2, <2>1, <3>3
                <4> QED
                    BY <4>1
            <3> QED
                BY <3>1, <3>2, <3>3
        <2> QED
            BY <2>2
    <1>4. n \in 0 .. Len(q)
        <2> DEFINE P == {i \in 1 .. Len(q) : InTurn(q[i], U[i - 1])}
        <2>1. PICK j \in 0 .. Len(q) : (\A i \in 1 .. j : i \in P) /\ (j < Len(q) => j + 1 \notin P)
            <3> HIDE DEF P
            <3> QED
                BY <1>2, InTurnFirst
        <2> HIDE DEF U
        <2>2. \A i \in 1 .. j : InTurn(q[i], U[i - 1])
            BY <2>1
        <2>3. j < Len(q) => ~InTurn(q[j + 1], U[j])
            <3> SUFFICES ASSUME j < Len(q) PROVE ~InTurn(q[j + 1], U[j])
                OBVIOUS
            <3>1. j + 1 \in 1 .. Len(q) /\ (j + 1) - 1 = j
                BY <1>2, <2>1
            <3> QED
                BY <2>1, <3>1
        <2>4. \E i \in 0 .. Len(q) :
                 (\A l \in 1 .. i : InTurn(q[l], U[l - 1])) /\ (i < Len(q) => ~InTurn(q[i + 1], U[i]))
            BY <2>2, <2>3
        <2> QED
            BY <2>4, Zenon
    <1>5. DispatchReliable(p) = IF n = 0 THEN p ELSE DispatchUnreliable(Dispatched(r, k))
        BY DEF DispatchReliable
    <1> HIDE DEF n, U
    <1>6. t \in Seq(Entries) /\ k \in Seq(Entries)
        BY <1>1, <1>2, <1>4
    <1>7. U[n] \in Nat
        BY <1>3, <1>4
    <1> HIDE DEF t, k
    <1>8. r \in Peers /\ r.out = p.out /\ r.rel = p.rel /\ r.windows = p.windows /\ r.outRel = p.outRel /\ r.sent = p.sent
        BY <1>1, <1>6, <1>7 DEF Peers
    <1> HIDE DEF r
    <1>9. r \in Fine
        BY <1>8, ReceivedFine
    <1> QED
        BY <1>5, <1>6, <1>9, DispatchedFine, DispatchUnreliableFine

(***************************************************************************)
(* The handlers of a datagram's commands.                                  *)
(***************************************************************************)
LEMMA InsertIs ==
    ASSUME NEW p, NEW q \in Seq(Entries), NEW e \in Entries
    PROVE  Insert(p, q, e) \in Seq(Entries)
    <1> DEFINE before == {i \in DOMAIN q : Before(p, q[i], e)}
               a == Picked(q, before)
               b == Picked(q, DOMAIN q \ before)
    <1>1. a \in Seq(Entries) /\ b \in Seq(Entries)
        BY PickedIs
    <1>2. Insert(p, q, e) = a \o <<e>> \o b
        BY DEF Insert
    <1> HIDE DEF a, b
    <1>3. <<e>> \in Seq(Entries)
        OBVIOUS
    <1>4. a \o <<e>> \in Seq(Entries)
        BY <1>1, <1>3
    <1>5. (a \o <<e>>) \o b \in Seq(Entries)
        BY <1>1, <1>4
    <1> QED
        BY <1>2, <1>5

\* A peer with another queue.
LEMMA RequeuedFine ==
    ASSUME NEW p \in Fine, NEW t \in Seq(Entries)
    PROVE  [p EXCEPT !.queueRel = t] \in Fine /\ [p EXCEPT !.queueUnrel = t] \in Fine
    <1>1. p \in Peers
        BY DEF Fine
    <1>2. [p EXCEPT !.queueRel = t] \in Fine
        <2> DEFINE q == [p EXCEPT !.queueRel = t]
        <2>1. q \in Peers /\ q.out = p.out /\ q.rel = p.rel /\ q.windows = p.windows /\ q.outRel = p.outRel
              /\ q.sent = p.sent
            BY <1>1 DEF Peers
        <2> HIDE DEF q
        <2>2. q \in Fine
            BY <2>1, ReceivedFine
        <2> QED
            BY <2>2 DEF q
    <1>3. [p EXCEPT !.queueUnrel = t] \in Fine
        <2> DEFINE q == [p EXCEPT !.queueUnrel = t]
        <2>1. q \in Peers /\ q.out = p.out /\ q.rel = p.rel /\ q.windows = p.windows /\ q.outRel = p.outRel
              /\ q.sent = p.sent
            BY <1>1 DEF Peers
        <2> HIDE DEF q
        <2>2. q \in Fine
            BY <2>1, ReceivedFine
        <2> QED
            BY <2>2 DEF q
    <1> QED
        BY <1>2, <1>3

(* queue_incoming_command.                                                 *)
LEMMA QueuedFine ==
    ASSUME NEW p \in Fine, NEW e \in Entries
    PROVE  /\ QueueReliable(p, e) \in Fine /\ QueueUnreliable(p, e) \in Fine /\ QueueUnsequenced(p, e) \in Fine
    <1>1. p.queueRel \in Seq(Entries) /\ p.queueUnrel \in Seq(Entries)
        BY DEF Fine, Peers
    <1>2. QueueReliable(p, e) \in Fine
        <2> DEFINE t == Insert(p, p.queueRel, e)
        <2>1. t \in Seq(Entries)
            BY <1>1, InsertIs
        <2>2. QueueReliable(p, e) = p \/ QueueReliable(p, e) = DispatchReliable([p EXCEPT !.queueRel = t])
            BY DEF QueueReliable
        <2> HIDE DEF t
        <2>3. DispatchReliable([p EXCEPT !.queueRel = t]) \in Fine
            BY <2>1, RequeuedFine, DispatchReliableFine
        <2> QED
            BY <2>2, <2>3
    <1>3. QueueUnreliable(p, e) \in Fine
        <2> DEFINE t == Insert(p, p.queueUnrel, e)
        <2>1. t \in Seq(Entries)
            BY <1>1, InsertIs
        <2>2. QueueUnreliable(p, e) = p \/ QueueUnreliable(p, e) = DispatchUnreliable([p EXCEPT !.queueUnrel = t])
            BY DEF QueueUnreliable
        <2> HIDE DEF t
        <2>3. DispatchUnreliable([p EXCEPT !.queueUnrel = t]) \in Fine
            BY <2>1, RequeuedFine, DispatchUnreliableFine
        <2> QED
            BY <2>2, <2>3
    <1>4. QueueUnsequenced(p, e) \in Fine
        <2> DEFINE t == <<e>> \o p.queueUnrel
        <2>0. <<e>> \in Seq(Entries)
            OBVIOUS
        <2>1. t \in Seq(Entries)
            BY <1>1, <2>0
        <2>2. QueueUnsequenced(p, e) = p \/ QueueUnsequenced(p, e) = DispatchUnreliable([p EXCEPT !.queueUnrel = t])
            BY DEF QueueUnsequenced
        <2> HIDE DEF t
        <2>3. DispatchUnreliable([p EXCEPT !.queueUnrel = t]) \in Fine
            BY <2>1, RequeuedFine, DispatchUnreliableFine
        <2> QED
            BY <2>2, <2>3
    <1> QED
        BY <1>2, <1>3, <1>4

\* What a handler answers with.
Answers == [peer: Fine, ok: BOOLEAN]

LEMMA AnswerIs ==
    ASSUME NEW p \in Fine
    PROVE  /\ Go(p) \in Answers /\ Fail(p) \in Answers
           /\ Go(p).peer = p /\ Fail(p).peer = p
    BY DEF Answers, Go, Fail

LEMMA HandleFragmentFine ==
    ASSUME NEW p \in Fine, NEW c \in Wires
    PROVE  HandleFragment(p, c) \in Answers
    <1> DEFINE start == (c.seq - (c.part - 1)) % SeqSpace
               missing == (1 .. Parts) \ {c.part}
               e == Entry(c, start, missing)
               q == p.queueRel
               t == [i \in DOMAIN q |-> IF q[i].seq = start THEN [q[i] EXCEPT !.missing = @ \ {c.part}] ELSE q[i]]
               r == [p EXCEPT !.queueRel = t]
    <1>1. start \in Nat
        <2>1. c.seq \in Nat /\ c.part \in Nat
            BY DEF Wires
        <2>2. c.seq - (c.part - 1) \in Int
            BY <2>1
        <2> QED
            BY <2>2, Wraps
    <1>2. e \in Entries
        <2>1. missing \in SUBSET (1 .. Parts)
            OBVIOUS
        <2> HIDE DEF start, missing
        <2> QED
            BY <1>1, <2>1, EntryIs
    <1>3. t \in Seq(Entries)
        <2>1. q \in Seq(Entries) /\ Len(q) \in Nat /\ DOMAIN q = 1 .. Len(q) /\ \A i \in 1 .. Len(q) : q[i] \in Entries
            <3>1. q \in Seq(Entries)
                BY DEF Fine, Peers
            <3> HIDE DEF q
            <3> QED
                BY <3>1
        <2> HIDE DEF q, start
        <2>2. ASSUME NEW f \in Entries PROVE [f EXCEPT !.missing = @ \ {c.part}] \in Entries
            <3>1. f.missing \ {c.part} \in SUBSET (1 .. Parts)
                BY DEF Entries
            <3> QED
                BY <3>1 DEF Entries
        <2>3. t = [i \in 1 .. Len(q) |-> IF q[i].seq = start THEN [q[i] EXCEPT !.missing = @ \ {c.part}] ELSE q[i]]
            BY <2>1
        <2>4. \A i \in 1 .. Len(q) :
                  (IF q[i].seq = start THEN [q[i] EXCEPT !.missing = @ \ {c.part}] ELSE q[i]) \in Entries
            BY <2>1, <2>2
        <2>5. t \in [1 .. Len(q) -> Entries]
            BY <2>3, <2>4
        <2> HIDE DEF t
        <2> QED
            BY <2>1, <2>5
    <1>4. \/ HandleFragment(p, c) = Go(p)
          \/ HandleFragment(p, c) = Go(DispatchReliable(r))
          \/ HandleFragment(p, c) = Fail(p)
          \/ HandleFragment(p, c) = Go(QueueReliable(p, e))
        <2> DEFINE A == Accepts(p, start)
                   H == Has(q, e)
                   x == Go(DispatchReliable(r))
                   y == IF p.st = "later" \/ start = p.inRel THEN Fail(p) ELSE Go(QueueReliable(p, e))
        <2>1. HandleFragment(p, c) = CASE ~A -> Go(p) [] A /\ H -> x [] OTHER -> y
            BY DEF HandleFragment
        <2>2. y = Fail(p) \/ y = Go(QueueReliable(p, e))
            OBVIOUS
        <2>b. A \in BOOLEAN /\ H \in BOOLEAN
            BY DEF Accepts, Has
        <2> HIDE DEF A, H, x, y
        <2>3. HandleFragment(p, c) \in {Go(p), x, y}
            <3>1. CASE ~A
                <4>1. (CASE ~A -> Go(p) [] A /\ H -> x [] OTHER -> y) = Go(p)
                    BY <3>1
                <4> QED
                    BY <2>1, <4>1
            <3>2. CASE A /\ H
                <4>1. (CASE ~A -> Go(p) [] A /\ H -> x [] OTHER -> y) = x
                    BY <3>2
                <4> QED
                    BY <2>1, <4>1
            <3>3. CASE A /\ ~H
                <4>1. (CASE ~A -> Go(p) [] A /\ H -> x [] OTHER -> y) = y
                    BY <3>3
                <4> QED
                    BY <2>1, <4>1
            <3> QED
                BY <3>1, <3>2, <3>3
        <2> QED
            BY <2>2, <2>3 DEF x
    <1> HIDE DEF t, e
    <1>5. DispatchReliable(r) \in Fine
        BY <1>3, RequeuedFine, DispatchReliableFine
    <1> HIDE DEF r
    <1>6. QueueReliable(p, e) \in Fine
        BY <1>2, QueuedFine
    <1> QED
        BY <1>4, <1>5, <1>6, AnswerIs

LEMMA HandleUnsequencedFine ==
    ASSUME NEW p \in Fine, NEW c \in Wires
    PROVE  HandleUnsequenced(p, c) \in Answers
    <1> DEFINE Base(g) == g - (g % GroupWindow)
               q == QueueUnsequenced(p, Entry(c, 0, {}))
               kept == {g \in q.seen : Base(g) = Base(c.unrel)}
               r == [q EXCEPT !.seen = {c.unrel} \cup kept]
    <1>1. q \in Fine
        <2>1. Entry(c, 0, {}) \in Entries
            BY EntryIs
        <2> QED
            BY <2>1, QueuedFine
    <1>2. HandleUnsequenced(p, c) = Go(p) \/ HandleUnsequenced(p, c) = Go(r)
        BY DEF HandleUnsequenced
    <1> HIDE DEF q
    <1>3. q \in Peers /\ q.seen \in SUBSET Nat /\ c.unrel \in Nat
        BY <1>1 DEF Fine, Peers, Wires
    <1>4. {c.unrel} \cup kept \in SUBSET Nat
        BY <1>3
    <1> HIDE DEF kept
    <1>5. r \in Peers /\ r.out = q.out /\ r.rel = q.rel /\ r.windows = q.windows /\ r.outRel = q.outRel /\ r.sent = q.sent
        BY <1>3, <1>4 DEF Peers
    <1> HIDE DEF r
    <1>6. r \in Fine
        BY <1>1, <1>5, ReceivedFine
    <1> QED
        BY <1>2, <1>6, AnswerIs


LEMMA HandleConnectFine ==
    ASSUME NEW p \in Fine
    PROVE  HandleConnect(p) \in Answers
    <1> DEFINE n == (p.session + 1) % 4
               q == ResetPeer(n)
               r == [q EXCEPT !.st = "acknowledging_connect", !.known = TRUE]
    <1>1. n \in Nat
        <2>1. p.session \in Nat
            BY DEF Fine, Peers
        <2> QED
            BY <2>1
    <1>2. q \in Fine
        <2> HIDE DEF n
        <2> QED
            BY <1>1, ResetFine
    <1>3. "acknowledging_connect" \in PeerStates /\ TRUE \in BOOLEAN
        BY SMTT(60) DEF PeerStates
    <1>4. r \in Fine
        <2> HIDE DEF q
        <2> QED
            BY <1>1, <1>2, <1>3, StateFine
    <1>5. HandleConnect(p) = Fail(p) \/ HandleConnect(p) = Go(QueueOutgoing(r, Control("verify", TRUE)))
        BY DEF HandleConnect
    <1> HIDE DEF r
    <1>6. QueueOutgoing(r, Control("verify", TRUE)) \in Fine
        BY <1>4, ControlPlain, QueueFine
    <1> QED
        BY <1>5, <1>6, AnswerIs

LEMMA HandleVerifyFine ==
    ASSUME NEW p \in Fine, NEW d \in Datagrams, NEW event \in BOOLEAN
    PROVE  HandleVerify(p, d, event) \in Answers
    <1> DEFINE q == Forget(p, 1, TRUE)
               r == [q EXCEPT !.known = TRUE, !.session = d.session]
    <1>1. q \in Fine
        <2>1. 1 \in Nat /\ TRUE \in BOOLEAN
            OBVIOUS
        <2> QED
            BY <2>1, ForgetFine
    <1>2. d.session \in Nat /\ "connected" \in PeerStates
        BY DEF Datagrams, PeerStates
    <1>3. r \in Fine
        <2> HIDE DEF q
        <2>1. TRUE \in BOOLEAN
            OBVIOUS
        <2> QED
            BY <1>1, <1>2, <2>1, StateFine
    <1>4. HandleVerify(p, d, event) = Go(p) \/ HandleVerify(p, d, event) = Go(NotifyConnect(r, event))
        BY DEF HandleVerify
    <1> HIDE DEF r
    <1>5. NotifyConnect(r, event) \in Fine
        BY <1>3, NotifyFine
    <1> QED
        BY <1>4, <1>5, AnswerIs

LEMMA HandleAcknowledgeFine ==
    ASSUME NEW p \in Fine, NEW c \in Wires, NEW event \in BOOLEAN
    PROVE  HandleAcknowledge(p, c, event) \in Answers
    <1> DEFINE kinds == {a.kind : a \in Acked(p, c.seq, c.ctl)}
               q == Forget(p, c.seq, c.ctl)
               x == IF "verify" \in kinds THEN Go(NotifyConnect(q, event)) ELSE Fail(q)
               y == IF "disconnect" \in kinds THEN Go(NotifyDisconnect(q, event)) ELSE Fail(q)
    <1>1. q \in Fine
        <2>1. c.seq \in Nat /\ c.ctl \in BOOLEAN
            BY DEF Wires
        <2> QED
            BY <2>1, ForgetFine
    <1>2. HandleAcknowledge(p, c, event) =
              CASE p.st = "acknowledging_connect" -> x
                [] p.st = "disconnecting" -> y
                [] p.st \in {"disconnected", "zombie"} -> Go(p)
                [] OTHER -> Go(LeaveWhenDrained(q))
        BY DEF HandleAcknowledge
    <1>3. x \in {Go(NotifyConnect(q, event)), Fail(q)} /\ y \in {Go(NotifyDisconnect(q, event)), Fail(q)}
        OBVIOUS
    <1> HIDE DEF x, y, q
    <1>4. HandleAcknowledge(p, c, event) \in {x, y, Go(p), Go(LeaveWhenDrained(q))}
        BY <1>2
    <1>5. NotifyConnect(q, event) \in Fine /\ NotifyDisconnect(q, event) \in Fine /\ LeaveWhenDrained(q) \in Fine
        BY <1>1, NotifyFine, LeaveFine
    <1>6. /\ Go(NotifyConnect(q, event)) \in Answers /\ Go(NotifyDisconnect(q, event)) \in Answers
          /\ Go(LeaveWhenDrained(q)) \in Answers /\ Go(p) \in Answers /\ Fail(q) \in Answers
        BY <1>1, <1>5, AnswerIs
    <1> QED
        BY <1>3, <1>4, <1>6

LEMMA HandleDisconnectFine ==
    ASSUME NEW p \in Fine, NEW c \in Wires
    PROVE  HandleDisconnect(p, c) \in Answers
    <1> DEFINE q == ResetQueues(p)
               r == [q EXCEPT !.st = "acknowledging_disconnect"]
    <1>1. q \in Fine /\ ResetPeer(p.session) \in Fine
        <2>1. p \in Peers /\ p.session \in Nat
            BY SMTT(60) DEF Fine, Peers
        <2> QED
            BY <2>1, ResetQueuesFine, ResetFine
    <1>2. "zombie" \in PeerStates /\ "acknowledging_disconnect" \in PeerStates
        BY DEF PeerStates
    <1>3. HandleDisconnect(p, c) \in {Go(p), Go(ToDispatch(q, "zombie")), Go(ResetPeer(p.session)), Go(r)}
        <2> DEFINE z == Go(IF c.ack THEN r ELSE ToDispatch(q, "zombie"))
                   a == Go(ToDispatch(q, "zombie"))
                   b == Go(ResetPeer(p.session))
        <2>1. HandleDisconnect(p, c) =
                  CASE p.st \in {"disconnected", "zombie", "acknowledging_disconnect"} -> Go(p)
                    [] p.st \in {"succeeded", "disconnecting", "connecting"} -> a
                    [] p.st \in {"acknowledging_connect", "pending"} -> b
                    [] OTHER -> z
            BY DEF HandleDisconnect
        <2>2. z \in {a, Go(r)}
            OBVIOUS
        <2> HIDE DEF z, a, b
        <2>3. HandleDisconnect(p, c) \in {Go(p), a, b, z}
            BY <2>1
        <2> HIDE DEF r, q
        <2> QED
            BY <2>2, <2>3 DEF a, b
    <1> HIDE DEF q
    <1>4. r \in Fine /\ ToDispatch(q, "zombie") \in Fine
        <2>1. 0 \in Nat /\ TRUE \in BOOLEAN
            OBVIOUS
        <2> QED
            BY <1>1, <1>2, <2>1, StateFine, DispatchFine
    <1> HIDE DEF r
    <1>5. Go(p) \in Answers /\ Go(ToDispatch(q, "zombie")) \in Answers /\ Go(ResetPeer(p.session)) \in Answers /\ Go(r) \in Answers
        BY <1>1, <1>4, AnswerIs
    <1> QED
        BY <1>3, <1>5

LEMMA HandleDataFine ==
    ASSUME NEW p \in Fine, NEW c \in Wires, c.kind \in {"reliable", "fragment", "unreliable", "unsequenced"}
    PROVE  HandleData(p, c) \in Answers
    <1> DEFINE e == Entry(c, c.seq, {})
    <1>1. e \in Entries
        <2>1. c.seq \in Nat /\ {} \in SUBSET (1 .. Parts)
            BY DEF Wires
        <2> QED
            BY <2>1, EntryIs
    <1>2. \/ HandleData(p, c) = Fail(p)
          \/ HandleData(p, c) = Go(QueueReliable(p, e))
          \/ HandleData(p, c) = HandleFragment(p, c)
          \/ HandleData(p, c) = Go(QueueUnreliable(p, e))
          \/ HandleData(p, c) = HandleUnsequenced(p, c)
        <2>1. CASE ~Talks(p)
            BY <2>1 DEF HandleData
        <2>2. CASE Talks(p)
            <3>1. CASE c.kind = "reliable"
                BY <2>2, <3>1 DEF HandleData
            <3>2. CASE c.kind = "fragment"
                BY <2>2, <3>2 DEF HandleData
            <3>3. CASE c.kind = "unreliable"
                BY <2>2, <3>3 DEF HandleData
            <3>4. CASE c.kind = "unsequenced"
                BY <2>2, <3>4 DEF HandleData
            <3> QED
                BY <3>1, <3>2, <3>3, <3>4
        <2> QED
            BY <2>1, <2>2
    <1> HIDE DEF e
    <1>3. QueueReliable(p, e) \in Fine /\ QueueUnreliable(p, e) \in Fine
        BY <1>1, QueuedFine
    <1> QED
        BY <1>2, <1>3, AnswerIs, HandleFragmentFine, HandleUnsequencedFine

LEMMA QueueAckFine ==
    ASSUME NEW p \in Fine, NEW c \in Wires
    PROVE  QueueAck(p, c) \in Fine
    <1> DEFINE a == [seq |-> c.seq, ctl |-> c.ctl, of |-> c.kind]
               q == [p EXCEPT !.acks = Append(@, a)]
    <1>1. p \in Peers /\ p.acks \in Seq(Acks) /\ a \in Acks
        BY DEF Fine, Peers, Wires, Acks
    <1>2. QueueAck(p, c) = p \/ QueueAck(p, c) = q
        BY DEF QueueAck
    <1> HIDE DEF a
    <1>3. Append(p.acks, a) \in Seq(Acks)
        BY <1>1
    <1>4. q \in Peers /\ q.out = p.out /\ q.rel = p.rel /\ q.windows = p.windows /\ q.outRel = p.outRel /\ q.sent = p.sent
        BY <1>1, <1>3 DEF Peers
    <1> HIDE DEF q
    <1>5. q \in Fine
        BY <1>4, ReceivedFine
    <1> QED
        BY <1>2, <1>5

LEMMA HandleFine ==
    ASSUME NEW p \in Fine, NEW c \in Wires, NEW d \in Datagrams, NEW event \in BOOLEAN
    PROVE  Handle(p, c, d, event) \in Answers
    <1> DEFINE x == IF Talks(p) THEN Go(p) ELSE Fail(p)
    <1>1. c.kind \in CommandKinds
        BY DEF Wires
    <1>2. x \in Answers
        BY AnswerIs
    <1>3. Handle(p, c, d, event) =
              CASE c.kind = "ack"        -> HandleAcknowledge(p, c, event)
                [] c.kind = "connect"    -> Fail(p)
                [] c.kind = "verify"     -> HandleVerify(p, d, event)
                [] c.kind = "disconnect" -> HandleDisconnect(p, c)
                [] c.kind = "ping"       -> x
                [] OTHER                 -> HandleData(p, c)
        BY DEF Handle
    <1> HIDE DEF x
    <1>4. CASE c.kind \in {"reliable", "fragment", "unreliable", "unsequenced"}
        BY <1>3, <1>4, HandleDataFine
    <1>5. CASE c.kind \in {"ack", "connect", "verify", "disconnect", "ping"}
        <2>1. Handle(p, c, d, event) \in {HandleAcknowledge(p, c, event), Fail(p), HandleVerify(p, d, event),
                                          HandleDisconnect(p, c), x}
            BY <1>3, <1>5
        <2> QED
            BY <1>2, <2>1, AnswerIs, HandleAcknowledgeFine, HandleVerifyFine, HandleDisconnectFine
    <1> QED
        BY <1>1, <1>4, <1>5 DEF CommandKinds

LEMMA HandleNextFine ==
    ASSUME NEW s \in Answers, NEW c \in Wires, NEW d \in Datagrams, NEW event \in BOOLEAN
    PROVE  HandleNext(s, c, d, event) \in Answers
    <1> DEFINE r == Handle(s.peer, c, d, event)
    <1>1. s.peer \in Fine
        BY DEF Answers
    <1>2. r \in Answers
        BY <1>1, HandleFine
    <1>3. HandleNext(s, c, d, event) \in {s, Go(QueueAck(r.peer, c)), r}
        BY DEF HandleNext
    <1> HIDE DEF r
    <1>4. r.peer \in Fine
        BY <1>2 DEF Answers
    <1>5. Go(QueueAck(r.peer, c)) \in Answers
        BY <1>4, QueueAckFine, AnswerIs
    <1> QED
        BY <1>2, <1>3, <1>5

(* enet_protocol_handle_incoming_commands: a datagram.                     *)
LEMMA HandledFine ==
    ASSUME NEW p \in Fine, NEW d \in Datagrams, NEW event \in BOOLEAN
    PROVE  Handled(p, d, event) \in Fine
    <1> DEFINE cmds == d.cmds
               n == Len(cmds)
               G(f) == f = [i \in 0 .. n |-> IF i = 0 THEN Go(p) ELSE HandleNext(f[i - 1], cmds[i], d, event)]
               F == CHOOSE f : G(f)
               step == [e \in (1 .. n) \X Answers |-> HandleNext(e[2], cmds[e[1]], d, event)]
    <1>1. n \in Nat /\ \A i \in 1 .. n : cmds[i] \in Wires
        <2>1. cmds \in Seq(Wires)
            BY DEF Datagrams
        <2> HIDE DEF cmds
        <2> QED
            BY <2>1
    <1>2. /\ \A i \in 0 .. n : i # 0 => i \in 1 .. n
          /\ \A i \in 1 .. n : i \in 0 .. n /\ i # 0 /\ i - 1 \in 0 .. n
          /\ 0 \in 0 .. n
        <2> HIDE DEF n
        <2> QED
            BY <1>1
    <1>3. Handled(p, d, event) = IF d.known THEN F[n].peer ELSE HandleConnect(p).peer
        BY DEF Handled
    <1> HIDE DEF n, cmds
    <1>4. \A i \in 1 .. n : \A x \in Answers :
              step[<<i, x>>] = HandleNext(x, cmds[i], d, event) /\ HandleNext(x, cmds[i], d, event) \in Answers
        BY <1>1, HandleNextFine
    <1>5. Go(p) \in Answers
        BY AnswerIs
    <1> HIDE DEF step
    <1>6. PICK f : IsLoop(f, n, Go(p), step) /\ \A i \in 0 .. n : f[i] \in Answers
        BY <1>1, <1>4, <1>5, LoopStays
    <1>7. G(f)
        <2>1. f = [i \in 0 .. n |-> IF i = 0 THEN Go(p) ELSE step[<<i, f[i - 1]>>]]
            BY <1>6 DEF IsLoop
        <2>2. \A i \in 1 .. n : step[<<i, f[i - 1]>>] = HandleNext(f[i - 1], cmds[i], d, event)
            BY <1>2, <1>4, <1>6
        <2> DEFINE body == [i \in 0 .. n |-> IF i = 0 THEN Go(p) ELSE HandleNext(f[i - 1], cmds[i], d, event)]
        <2>3. \A i \in 0 .. n : (IF i = 0 THEN Go(p) ELSE step[<<i, f[i - 1]>>]) = body[i]
            BY <1>2, <2>2
        <2> QED
            BY <2>1, <2>3
    <1>8. G(F)
        <2> HIDE DEF G
        <2> QED
            BY <1>7
    <1> HIDE DEF F
    <1>9. F[0] = Go(p) /\ \A i \in 1 .. n : F[i] = HandleNext(F[i - 1], cmds[i], d, event)
        <2> DEFINE body == [i \in 0 .. n |-> IF i = 0 THEN Go(p) ELSE HandleNext(F[i - 1], cmds[i], d, event)]
        <2>1. F = body
            BY <1>8
        <2>2. body[0] = Go(p) /\ \A i \in 1 .. n : body[i] = HandleNext(F[i - 1], cmds[i], d, event)
            BY <1>2
        <2> HIDE DEF body, G
        <2> QED
            BY <2>1, <2>2
    <1>10. F[n] \in Answers
        <2>1. F[0] \in Answers /\ \A i \in 1 .. n : F[i - 1] \in Answers => F[i] \in Answers
            BY <1>1, <1>5, <1>9, HandleNextFine
        <2> HIDE DEF G
        <2> QED
            BY <1>1, <2>1, Stays
    <1>11. F[n].peer \in Fine
        <2> HIDE DEF G
        <2> QED
            BY <1>10 DEF Answers
    <1>12. HandleConnect(p).peer \in Fine
        BY HandleConnectFine DEF Answers
    <1> HIDE DEF G
    <1> QED
        BY <1>3, <1>11, <1>12

(***************************************************************************)
(* The actions.                                                            *)
(***************************************************************************)
LEMMA InvIs == Inv <=> TypeOK /\ peer \in [Hosts -> Fine]
    <1>1. ASSUME Inv PROVE TypeOK /\ peer \in [Hosts -> Fine]
        BY <1>1 DEF Inv, TypeOK, Fine
    <1>2. ASSUME TypeOK, peer \in [Hosts -> Fine] PROVE Inv
        <2>1. \A h \in Hosts : peer[h] \in Fine
            BY <1>2
        <2> QED
            BY <1>2, <2>1 DEF Inv, Fine
    <1> QED
        BY <1>1, <1>2

\* What is left when one host's peer is another that is fine.
LEMMA Steps ==
    ASSUME Inv, NEW h \in Hosts, NEW q \in Fine, peer' = [peer EXCEPT ![h] = q],
           net' \subseteq Datagrams, sent' \in Seq(MessageKinds), got' \in Seq(Nat),
           room' \in [up: BOOLEAN, sends: SUBSET MessageKinds, messages: Nat, leaves: SUBSET Departures,
                      pings: Nat, copies: Nat]
    PROVE  Inv'
    <1>1. peer \in [Hosts -> Fine] /\ Fine \subseteq Peers
        BY InvIs DEF Fine
    <1>2. \A k \in Hosts : peer'[k] \in Fine
        BY <1>1
    <1>3. peer' \in [Hosts -> Peers]
        BY <1>1, <1>2
    <1>4. TypeOK'
        BY <1>3 DEF TypeOK
    <1>5. \A k \in Hosts : Sending(peer'[k])
        BY <1>2 DEF Fine
    <1> QED
        BY <1>4, <1>5 DEF Inv

Rooms == [up: BOOLEAN, sends: SUBSET MessageKinds, messages: Nat, leaves: SUBSET Departures, pings: Nat, copies: Nat]

LEMMA Holds ==
    ASSUME Inv
    PROVE  /\ \A h \in Hosts : peer[h] \in Fine /\ peer[h] \in Peers
           /\ net \subseteq Datagrams /\ sent \in Seq(MessageKinds) /\ got \in Seq(Nat) /\ room \in Rooms
    BY InvIs DEF TypeOK, Fine, Rooms

LEMMA DatagramIs ==
    ASSUME Inv, NEW h \in Hosts, NEW cmds \in Seq(Wires)
    PROVE  Sent(Datagram(h, cmds)) \subseteq Datagrams
    <1>1. peer[h] \in Peers /\ net \subseteq Datagrams
        BY Holds
    <1>2. Other(h) \in Hosts /\ peer[h].known \in BOOLEAN /\ peer[h].session \in Nat
        BY <1>1 DEF Other, Hosts, Peers
    <1>3. Datagram(h, cmds) \in Datagrams
        BY <1>2 DEF Datagram, Datagrams
    <1> QED
        BY <1>1, <1>3 DEF Sent

LEMMA AckListIs ==
    ASSUME Inv, NEW h \in Hosts
    PROVE  AckList(h) \in Seq(Wires)
    <1> DEFINE a == peer[h].acks
    <1>1. a \in Seq(Acks)
        BY Holds DEF Peers
    <1>2. AckList(h) = [i \in DOMAIN a |-> AckWire(a[i])]
        BY DEF AckList
    <1> HIDE DEF a
    <1>3. Len(a) \in Nat /\ DOMAIN a = 1 .. Len(a) /\ \A i \in 1 .. Len(a) : a[i] \in Acks
        BY <1>1
    <1>4. \A x \in Acks : AckWire(x) \in Wires
        BY DEF AckWire, Acks, Wires, CommandKinds
    <1>5. AckList(h) \in [1 .. Len(a) -> Wires]
        BY <1>2, <1>3, <1>4
    <1> QED
        BY <1>3, <1>5

LEMMA SendStep ==
    ASSUME Inv, NEW kind \in MessageKinds, Send(kind)
    PROVE  Inv'
    <1> DEFINE q == SendMessage(peer["client"], kind, Len(sent) + 1)
    <1>1. peer["client"] \in Fine /\ "client" \in Hosts /\ sent \in Seq(MessageKinds) /\ Len(sent) + 1 \in Nat
        <2>1. "client" \in Hosts
            BY DEF Hosts
        <2>2. sent \in Seq(MessageKinds)
            BY Holds
        <2>3. Len(sent) + 1 \in Nat
            BY <2>2
        <2> QED
            BY <2>1, <2>2, <2>3, Holds
    <1>2. q \in Fine
        BY <1>1, SendFine
    <1>3. peer' = [peer EXCEPT !["client"] = q] /\ UNCHANGED <<net, got, room>> /\ sent' = Append(sent, kind)
        BY DEF Send
    <1>4. sent' \in Seq(MessageKinds)
        BY <1>1, <1>3
    <1> HIDE DEF q
    <1> QED
        BY <1>1, <1>2, <1>3, <1>4, Holds, Steps DEF Rooms

LEMMA LeaveIs ==
    ASSUME Inv, NEW h, NEW how, Leave(h, how)
    PROVE  room' \in Rooms
    <1>1. room \in Rooms /\ room' = [room EXCEPT !.leaves = {}] /\ {} \in SUBSET Departures
        BY Holds DEF Leave
    <1> QED
        BY <1>1 DEF Rooms

LEMMA LeaveSteps ==
    ASSUME Inv, NEW h \in Hosts, DisconnectPeer(h) \/ DisconnectLater(h) \/ DisconnectNow(h)
    PROVE  Inv'
    <1> DEFINE p == peer[h]
    <1>1. p \in Fine /\ p \in Peers /\ p.session \in Nat
        <2>1. p \in Fine /\ p \in Peers
            BY Holds
        <2> HIDE DEF p
        <2> QED
            BY <2>1 DEF Peers
    <1>2. CASE DisconnectPeer(h)
        <2>1. peer' = [peer EXCEPT ![h] = Disconnect(p)] /\ UNCHANGED <<net, sent, got>> /\ room' \in Rooms
            BY <1>2, LeaveIs DEF DisconnectPeer
        <2>2. Disconnect(p) \in Fine
            BY <1>1, DisconnectFine
        <2> HIDE DEF p
        <2> QED
            BY <2>1, <2>2, Holds, Steps DEF Rooms
    <1>3. CASE DisconnectLater(h)
        <2> DEFINE q == IF HasOutgoing(p) THEN [p EXCEPT !.st = "later"] ELSE Disconnect(p)
        <2>1. peer' = [peer EXCEPT ![h] = q] /\ UNCHANGED <<net, sent, got>> /\ room' \in Rooms
            BY <1>3, LeaveIs DEF DisconnectLater
        <2> HIDE DEF p
        <2>2. [p EXCEPT !.st = "later"] \in Fine
            <3>1. "later" \in PeerStates /\ 0 \in Nat /\ TRUE \in BOOLEAN
                BY DEF PeerStates
            <3> QED
                BY <1>1, <3>1, StateFine
        <2>3. q \in Fine
            BY <1>1, <2>2, DisconnectFine
        <2> HIDE DEF q
        <2> QED
            BY <2>1, <2>3, Holds, Steps DEF Rooms
    <1>4. CASE DisconnectNow(h)
        <2> DEFINE c == Wire(Numbered(Control("disconnect", FALSE), p.num + 1, 0, 1))
                   q == ResetPeer(p.session)
        <2>1. peer' = [peer EXCEPT ![h] = q] /\ UNCHANGED <<sent, got>> /\ room' \in Rooms
              /\ (net' = net \/ net' = Sent(Datagram(h, <<c>>)))
            BY <1>4, LeaveIs DEF DisconnectNow
        <2>2. c \in Wires
            <3>1. p.num + 1 \in Nat
                BY <1>1, SMTT(60) DEF Peers
            <3>2. "disconnect" \in CommandKinds
                BY DEF CommandKinds
            <3> QED
                BY <3>1, <3>2 DEF Wire, Numbered, Control, Wires
        <2> HIDE DEF c, p
        <2>3. <<c>> \in Seq(Wires)
            BY <2>2
        <2>4. net' \subseteq Datagrams
            BY <2>1, <2>3, Holds, DatagramIs
        <2>5. q \in Fine
            BY <1>1, ResetFine
        <2> HIDE DEF q
        <2> QED
            BY <2>1, <2>4, <2>5, Holds, Steps DEF Rooms
    <1> QED
        BY <1>2, <1>3, <1>4

LEMMA DispatchStep ==
    ASSUME Inv, NEW h \in Hosts, Dispatch(h)
    PROVE  Inv'
    <1> DEFINE p == peer[h]
               has == p.st = "connected" /\ p.dispatched # <<>>
               a == [p EXCEPT !.st = "connected", !.pending = FALSE]
               b == ResetPeer(p.session)
               c == [p EXCEPT !.dispatched = Tail(@), !.pending = Len(p.dispatched) > 1]
               e == [p EXCEPT !.pending = FALSE]
               q == CASE p.st \in {"pending", "succeeded"} -> a
                      [] p.st = "zombie" -> b
                      [] has -> c
                      [] OTHER -> e
    <1>1. p \in Fine /\ p \in Peers
        BY Holds
    <1>2. peer' = [peer EXCEPT ![h] = q] /\ UNCHANGED <<net, sent, room>>
          /\ got' = IF has THEN Append(got, Head(p.dispatched).msg) ELSE got
        BY DEF Dispatch
    <1> HIDE DEF p
    <1>3. p.session \in Nat /\ p.dispatched \in Seq(Entries)
        BY <1>1 DEF Peers
    <1>4. a \in Fine /\ b \in Fine /\ e \in Fine
        <2>1. "connected" \in PeerStates /\ 0 \in Nat /\ FALSE \in BOOLEAN
            BY SMTT(60) DEF PeerStates
        <2>2. a \in Fine /\ e \in Fine
            BY <1>1, <2>1, StateFine
        <2>3. b \in Fine
            BY <1>3, ResetFine
        <2> QED
            BY <2>2, <2>3
    <1>5. has => c \in Fine
        <2> SUFFICES ASSUME has PROVE c \in Fine
            OBVIOUS
        <2> DEFINE t == Tail(p.dispatched)
                   k == Len(p.dispatched) > 1
                   r == [p EXCEPT !.dispatched = t, !.pending = k]
        <2>1. t \in Seq(Entries) /\ k \in BOOLEAN
            BY <1>3
        <2> HIDE DEF t, k
        <2>2. r \in Peers /\ r.out = p.out /\ r.rel = p.rel /\ r.windows = p.windows /\ r.outRel = p.outRel
              /\ r.sent = p.sent
            BY <1>1, <2>1 DEF Peers
        <2> HIDE DEF r
        <2>3. r \in Fine
            BY <1>1, <2>2, ReceivedFine
        <2>4. c = r
            BY DEF r, t, k
        <2> QED
            BY <2>3, <2>4
    <1>6. q \in Fine
        <2> HIDE DEF a, b, c, e, has
        <2>1. has \in BOOLEAN
            BY DEF has
        <2>2. CASE p.st \in {"pending", "succeeded"}
            <3>1. ~has
                BY <2>2 DEF has
            <3> QED
                BY <1>4, <2>2, <3>1
        <2>3. CASE p.st = "zombie"
            <3>1. ~has
                BY <2>3 DEF has
            <3> QED
                BY <1>4, <2>3, <3>1
        <2>4. CASE p.st \notin {"pending", "succeeded"} /\ p.st # "zombie" /\ has
            BY <1>5, <2>4
        <2>5. CASE p.st \notin {"pending", "succeeded"} /\ p.st # "zombie" /\ ~has
            BY <1>4, <2>5
        <2> QED
            BY <2>1, <2>2, <2>3, <2>4, <2>5
    <1> HIDE DEF q
    <1>7. got' \in Seq(Nat)
        <2>1. got \in Seq(Nat)
            BY Holds
        <2>2. ASSUME has PROVE Head(p.dispatched).msg \in Nat
            <3>1. Head(p.dispatched) \in Entries
                BY <1>3, <2>2
            <3> QED
                BY <3>1 DEF Entries
        <2> HIDE DEF has
        <2>3. CASE has
            <3> DEFINE m == Head(p.dispatched).msg
            <3>1. m \in Nat /\ got' = Append(got, m)
                BY <1>2, <2>2, <2>3
            <3> HIDE DEF m
            <3> QED
                BY <2>1, <3>1
        <2>4. CASE ~has
            BY <1>2, <2>1, <2>4
        <2> QED
            BY <2>3, <2>4
    <1> QED
        BY <1>2, <1>6, <1>7, Holds, Steps DEF Rooms


LEMMA TransmitStep ==
    ASSUME Inv, NEW h \in Hosts, NEW late, NEW limit, NEW dropped, NEW quiet \in BOOLEAN,
           Transmit(h, late, limit, dropped, quiet)
    PROVE  Inv'
    <1> DEFINE ready == Expire(SendAcks(peer[h]), late)
               first == CheckOutgoing(ready, limit, dropped)
               left == IF Frees(first.cmds) THEN first.peer ELSE LeaveWhenDrained(first.peer)
               more == Pinged(left)
               second == CheckOutgoing(more, limit, dropped)
               rest == IF quiet THEN second.cmds ELSE <<>>
               cmds == AckList(h) \o first.cmds \o rest
               pings == quiet /\ left.st = "connected"
               last == IF quiet THEN second.peer ELSE left
               result == LeaveWhenDrained(last)
    <1>1. /\ peer' = [peer EXCEPT ![h] = result]
          /\ net' = (IF cmds = <<>> THEN net ELSE Sent(Datagram(h, cmds)))
          /\ room' = (IF pings THEN [room EXCEPT !.pings = @ - 1] ELSE room)
          /\ pings => room.pings > 0
          /\ UNCHANGED <<sent, got>>
        BY DEF Transmit
    <1>2. ready \in Fine
        BY Holds, SendAcksFine, ExpireFine
    <1> HIDE DEF ready
    <1>3. first.peer \in Fine /\ first.cmds \in Seq(Wires)
        BY <1>2, CheckFine
    <1> HIDE DEF first
    <1>4. left \in Fine
        BY <1>3, LeaveFine
    <1> HIDE DEF left
    <1>5. more \in Fine
        BY <1>4, ControlPlain, QueueFine DEF Pinged
    <1> HIDE DEF more
    <1>6. second.peer \in Fine /\ second.cmds \in Seq(Wires)
        BY <1>5, CheckFine
    <1> HIDE DEF second
    <1>7. result \in Fine
        <2>1. last \in Fine
            BY <1>4, <1>6
        <2> HIDE DEF last
        <2> QED
            BY <2>1, LeaveFine
    <1> HIDE DEF result
    <1>8. cmds \in Seq(Wires)
        <2>1. rest \in Seq(Wires)
            BY <1>6
        <2> HIDE DEF rest
        <2>2. first.cmds \o rest \in Seq(Wires)
            BY <1>3, <2>1
        <2>3. AckList(h) \o (first.cmds \o rest) \in Seq(Wires)
            BY <2>2, AckListIs
        <2> DEFINE a == AckList(h)
                   b == first.cmds
        <2>4. a \in Seq(Wires)
            BY AckListIs
        <2>5. b \in Seq(Wires)
            BY <1>3
        <2> HIDE DEF a, b
        <2> QED
            BY <2>1, <2>4, <2>5 DEF a, b
    <1> HIDE DEF cmds
    <1>9. net' \subseteq Datagrams
        <2>1. net \subseteq Datagrams
            BY Holds
        <2>2. Sent(Datagram(h, cmds)) \subseteq Datagrams
            BY <1>8, DatagramIs
        <2> QED
            BY <1>1, <2>1, <2>2
    <1>10. room' \in Rooms
        <2>1. room \in Rooms
            BY Holds
        <2>2. CASE pings
            <3>1. room.pings \in Nat /\ room.pings > 0
                BY <1>1, <2>1, <2>2 DEF Rooms
            <3>2. room.pings - 1 \in Nat /\ room' = [room EXCEPT !.pings = room.pings - 1]
                BY <1>1, <2>2, <3>1
            <3> QED
                BY <2>1, <3>2 DEF Rooms
        <2>3. CASE ~pings
            BY <1>1, <2>1, <2>3
        <2> QED
            BY <2>2, <2>3
    <1> QED
        BY <1>1, <1>7, <1>9, <1>10, Holds, Steps DEF Rooms

LEMMA GiveUpStep ==
    ASSUME Inv, NEW h \in Hosts, NEW late, NEW event \in BOOLEAN, GiveUp(h, late, event)
    PROVE  Inv'
    <1> DEFINE r == Expire(SendAcks(peer[h]), {})
               q == NotifyDisconnect(r, event)
    <1>1. peer' = [peer EXCEPT ![h] = q] /\ UNCHANGED <<net, sent, got, room>>
        BY DEF GiveUp
    <1>2. r \in Fine
        BY Holds, SendAcksFine, ExpireFine
    <1> HIDE DEF r
    <1>3. q \in Fine
        BY <1>2, NotifyFine
    <1> HIDE DEF q
    <1> QED
        BY <1>1, <1>3, Holds, Steps DEF Rooms

LEMMA ReceiveStep ==
    ASSUME Inv, NEW d \in net, NEW event \in BOOLEAN, NEW again \in BOOLEAN, Receive(d, event, again)
    PROVE  Inv'
    <1> DEFINE h == d.to
               q == Handled(peer[h], d, event)
    <1>1. d \in Datagrams /\ h \in Hosts
        <2>1. d \in Datagrams
            BY Holds
        <2> QED
            BY <2>1 DEF Datagrams
    <1>2. /\ peer' = [peer EXCEPT ![h] = q] /\ UNCHANGED <<sent, got>>
          /\ net' = (IF again THEN net ELSE net \ {d})
          /\ again => room.copies > 0
          /\ room' = (IF again THEN [room EXCEPT !.copies = @ - 1] ELSE room)
        BY DEF Receive
    <1>3. q \in Fine
        BY <1>1, Holds, HandledFine
    <1>4. net' \subseteq Datagrams
        <2>1. net \subseteq Datagrams
            BY Holds
        <2>2. net' \subseteq net
            BY <1>2
        <2> QED
            BY <2>1, <2>2
    <1>5. room' \in Rooms
        <2>1. room \in Rooms
            BY Holds
        <2>2. CASE again
            <3>1. room.copies \in Nat /\ room.copies > 0
                BY <1>2, <2>1, <2>2 DEF Rooms
            <3>2. room.copies - 1 \in Nat /\ room' = [room EXCEPT !.copies = room.copies - 1]
                BY <1>2, <2>2, <3>1
            <3> QED
                BY <2>1, <3>2 DEF Rooms
        <2>3. CASE ~again
            BY <1>2, <2>1, <2>3
        <2> QED
            BY <2>2, <2>3
    <1> HIDE DEF h, q
    <1> QED
        BY <1>1, <1>2, <1>3, <1>4, <1>5, Holds, Steps DEF Rooms

LEMMA LoseStep ==
    ASSUME Inv, NEW d \in net, Lose(d)
    PROVE  Inv'
    <1>1. UNCHANGED <<peer, sent, got, room>> /\ net' = net \ {d}
        BY DEF Lose
    <1>2. TypeOK'
        BY <1>1 DEF Inv, TypeOK
    <1> QED
        BY <1>1, <1>2 DEF Inv

LEMMA InvInit == Init => Inv
    <1> SUFFICES ASSUME Init PROVE Inv
        OBVIOUS
    <1>1. room \in Rooms /\ net = {} /\ sent = <<>> /\ got = <<>>
        BY EnetAssumption DEF Init, EnetAssumption, Rooms
    <1>2. Connecting \in Fine /\ ResetPeer(3) \in Fine
        <2>1. ResetPeer(3) \in Fine
            BY ResetFine
        <2>2. "connecting" \in PeerStates /\ 0 \in Nat /\ TRUE \in BOOLEAN
            BY DEF PeerStates
        <2>3. [ResetPeer(3) EXCEPT !.st = "connecting"] \in Fine
            BY <2>1, <2>2, StateFine
        <2>4. QueueOutgoing([ResetPeer(3) EXCEPT !.st = "connecting"], Control("connect", TRUE)) \in Fine
            BY <2>3, ControlPlain, QueueFine
        <2> QED
            BY <2>1, <2>4 DEF Connecting
    <1>3. Established(FirstSeq, 0) \in Fine /\ Established(0, FirstSeq) \in Fine
        BY Sizable, EstablishedFine
    <1>4. peer \in [Hosts -> Fine]
        BY <1>2, <1>3 DEF Init, Hosts
    <1>5. TypeOK
        <2>1. <<>> \in Seq(MessageKinds) /\ <<>> \in Seq(Nat)
            OBVIOUS
        <2>2. peer \in [Hosts -> Peers]
            BY <1>4 DEF Fine
        <2> QED
            BY <1>1, <2>1, <2>2 DEF TypeOK, Rooms
    <1> QED
        BY <1>4, <1>5, InvIs

LEMMA InvStep == Inv /\ [Next]_vars => Inv'
    <1> SUFFICES ASSUME Inv, [Next]_vars PROVE Inv'
        OBVIOUS
    <1>1. ASSUME NEW kind \in MessageKinds, Send(kind) PROVE Inv'
        BY <1>1, SendStep
    <1>2. ASSUME NEW h \in Hosts, DisconnectPeer(h) \/ DisconnectLater(h) \/ DisconnectNow(h) PROVE Inv'
        BY <1>2, LeaveSteps
    <1>3. ASSUME NEW h \in Hosts, Service(h) PROVE Inv'
        <2>1. CASE TransmitSome(h)
            BY <2>1, TransmitStep DEF TransmitSome
        <2>2. CASE GiveUpSome(h)
            BY <2>2, GiveUpStep DEF GiveUpSome
        <2>3. CASE Dispatch(h)
            BY <2>3, DispatchStep
        <2> QED
            BY <1>3, <2>1, <2>2, <2>3 DEF Service
    <1>4. ASSUME NEW d \in net, Lose(d) PROVE Inv'
        BY <1>4, LoseStep
    <1>5. ASSUME NEW d \in net, NEW event \in BOOLEAN, NEW again \in BOOLEAN, Receive(d, event, again) PROVE Inv'
        BY <1>5, ReceiveStep
    <1>6. CASE UNCHANGED vars
        BY <1>6 DEF vars, Inv, TypeOK
    <1> QED
        BY <1>1, <1>2, <1>3, <1>4, <1>5, <1>6 DEF Next

(* Every field of both hosts' peers, every datagram and every count has    *)
(* its type, whatever the applications and the network do (peer.c,         *)
(* protocol.c).                                                            *)
THEOREM TypeCorrect == Spec => []TypeOK
    <1>1. Inv => TypeOK
        BY DEF Inv
    <1> QED
        BY InvInit, InvStep, <1>1, PTL DEF Spec

\* The commands in flight of a window, counted list by list.
LEMMA CountsBoth ==
    ASSUME NEW p \in Fine, NEW w \in 0 .. Windows - 1
    PROVE  p.windows[w] = Cardinality({i \in DOMAIN p.sent : ~p.sent[i].ctl /\ WindowOf(p.sent[i].seq) = w})
                          + Cardinality({i \in DOMAIN p.outRel :
                                            p.outRel[i].tries > 0 /\ WindowOf(p.outRel[i].seq) = w})
    <1> DEFINE S == {i \in DOMAIN p.sent : ~p.sent[i].ctl /\ WindowOf(p.sent[i].seq) = w}
               A == {i \in DOMAIN p.outRel : p.outRel[i].tries > 0 /\ WindowOf(p.outRel[i].seq) = w}
               f == [i \in S |-> p.sent[i].seq]
               g == [i \in A |-> p.outRel[i].seq]
               X == {p.sent[i].seq : i \in S}
               Y == {p.outRel[i].seq : i \in A}
    <1>1. Sending(p) /\ p \in Peers
        BY DEF Fine
    <1>2. S \subseteq Sents(p) /\ A \subseteq Agains(p)
        BY DEF Sents, Agains
    <1>3. IsFiniteSet(S) /\ IsFiniteSet(A)
        <2>1. p.sent \in Seq(Commands) /\ p.outRel \in Seq(Commands)
            BY <1>1 DEF Peers
        <2>2. DOMAIN p.sent = 1 .. Len(p.sent) /\ DOMAIN p.outRel = 1 .. Len(p.outRel)
              /\ Len(p.sent) \in Nat /\ Len(p.outRel) \in Nat
            BY <2>1
        <2>3. IsFiniteSet(1 .. Len(p.sent)) /\ IsFiniteSet(1 .. Len(p.outRel))
            <3>1. 1 \in Int /\ Len(p.sent) \in Int /\ Len(p.outRel) \in Int
                BY <2>2
            <3> QED
                BY <3>1, FS_Interval
        <2> QED
            BY <2>2, <2>3, FS_Subset
    <1>4. /\ \A i, j \in S : p.sent[i].seq = p.sent[j].seq => i = j
          /\ \A i, j \in A : p.outRel[i].seq = p.outRel[j].seq => i = j
          /\ \A i \in S, j \in A : p.sent[i].seq # p.outRel[j].seq
        BY <1>1, <1>2 DEF Sending, Once
    <1>5. InWindow(p, w) = X \cup Y
        BY DEF InWindow, InFlightOf, Sents, Agains
    <1> HIDE DEF S, A
    <1>6. IsFiniteSet(X) /\ Cardinality(X) = Cardinality(S)
        <2>1. f \in [S -> X] /\ \A y \in X : \E i \in S : f[i] = y
            OBVIOUS
        <2>2. \A i, j \in S : f[i] = f[j] => i = j
            BY <1>4
        <2> HIDE DEF f, X
        <2>3. f \in Bijection(S, X)
            BY <2>1, <2>2 DEF Bijection, Injection, Surjection, IsInjective
        <2>4. ExistsBijection(S, X)
            BY <2>3 DEF ExistsBijection
        <2> QED
            BY <1>3, <2>4, FS_Bijection
    <1>7. IsFiniteSet(Y) /\ Cardinality(Y) = Cardinality(A)
        <2>1. g \in [A -> Y] /\ \A y \in Y : \E i \in A : g[i] = y
            OBVIOUS
        <2>2. \A i, j \in A : g[i] = g[j] => i = j
            BY <1>4
        <2> HIDE DEF g, Y
        <2>3. g \in Bijection(A, Y)
            BY <2>1, <2>2 DEF Bijection, Injection, Surjection, IsInjective
        <2>4. ExistsBijection(A, Y)
            BY <2>3 DEF ExistsBijection
        <2> QED
            BY <1>3, <2>4, FS_Bijection
    <1>8. X \cap Y = {}
        BY <1>4
    <1> HIDE DEF X, Y
    <1>9. Cardinality(X \cup Y) = Cardinality(X) + Cardinality(Y)
        <2>1. Cardinality({}) = 0 /\ Cardinality(X) \in Nat /\ Cardinality(Y) \in Nat
            BY <1>6, <1>7, FS_EmptySet, FS_CardinalityType
        <2>2. Cardinality(X \cup Y) = Cardinality(X) + Cardinality(Y) - Cardinality(X \cap Y)
            <3>1. IsFiniteSet(X) /\ IsFiniteSet(Y)
                BY <1>6, <1>7
            <3> QED
                BY <3>1, FS_Union, Zenon
        <2>3. Cardinality(X \cap Y) = 0
            BY <1>8, <2>1
        <2> DEFINE a == Cardinality(X)
                   b == Cardinality(Y)
        <2>4. a \in Nat /\ b \in Nat /\ Cardinality(X \cup Y) = a + b - 0
            BY <2>1, <2>2, <2>3
        <2> HIDE DEF a, b
        <2>5. Cardinality(X \cup Y) = a + b
            BY <2>4
        <2> QED
            BY <2>5 DEF a, b
    <1>10. p.windows[w] = Cardinality(InWindow(p, w))
        BY <1>1 DEF Sending, Counts
    <1> QED
        BY <1>5, <1>6, <1>7, <1>9, <1>10 DEF S, A

(* A window is in use exactly while commands of it are in flight: what     *)
(* reliableWindows counts is what was sent and is not acknowledged yet,    *)
(* through every retry, timeout, late or repeated acknowledgement and      *)
(* wrap of the numbers (check_outgoing_commands, check_timeouts and        *)
(* remove_sent_reliable_command of protocol.c).                            *)
THEOREM WindowsAreRight == Spec => []WindowsCountTheUnacked
    <1>1. Inv => WindowsCountTheUnacked
        <2> SUFFICES ASSUME Inv PROVE WindowsCountTheUnacked
            OBVIOUS
        <2>1. \A h \in Hosts : peer[h] \in Fine
            BY InvIs
        <2> QED
            BY <2>1, CountsBoth DEF WindowsCountTheUnacked
    <1> QED
        BY InvInit, InvStep, <1>1, PTL DEF Spec

(* A number is in flight at most once, so that an acknowledgement, which   *)
(* says no more than a number, is for one command only                     *)
(* (enet_protocol_remove_sent_reliable_command takes the first it finds).  *)
NumbersAreUnique == \A h \in Hosts : Once(peer[h])
THEOREM AcknowledgementsAreClear == Spec => []NumbersAreUnique
    <1>1. Inv => NumbersAreUnique
        BY DEF Inv, Sending, NumbersAreUnique
    <1> QED
        BY InvInit, InvStep, <1>1, PTL DEF Spec

\* The numbers of a window are as many as it is large.
LEMMA WindowHolds ==
    ASSUME NEW p \in Fine, NEW w \in 0 .. Windows - 1
    PROVE  p.windows[w] \in 0 .. WindowSize
    <1> DEFINE first == w * WindowSize
               last  == first + WindowSize - 1
    <1>0. WindowSize \in Nat \ {0} /\ w \in Nat
        BY Sizable
    <1>1. first \in Int /\ last \in Int /\ first <= last /\ last - first + 1 = WindowSize
        BY <1>0
    <1>2. p \in Peers /\ Sending(p)
        BY DEF Fine
    <1>3. ASSUME NEW s \in InWindow(p, w) PROVE s \in first .. last
        <2>0. s \in InFlightOf(p) /\ WindowOf(s) = w
            BY <1>3 DEF InWindow
        <2>1. s \in Nat
            <3>1. p.sent \in Seq(Commands) /\ p.outRel \in Seq(Commands)
                BY <1>2 DEF Peers
            <3>2. \A i \in Sents(p) : p.sent[i] \in Commands
                BY <3>1 DEF Sents
            <3>3. \A i \in Agains(p) : p.outRel[i] \in Commands
                BY <3>1 DEF Agains
            <3>4. \A c \in Commands : c.seq \in Nat
                BY DEF Commands
            <3> QED
                BY <2>0, <3>2, <3>3, <3>4 DEF InFlightOf
        <2>2. (s \div WindowSize) * WindowSize <= s /\ s < (s \div WindowSize) * WindowSize + WindowSize
            BY <1>0, <2>1, Divides
        <2>3. s \div WindowSize = w
            BY <2>0 DEF WindowOf
        <2>4. first <= s /\ s < first + WindowSize
            BY <2>2, <2>3
        <2> HIDE DEF first
        <2> QED
            BY <1>0, <1>1, <2>1, <2>4
    <1> HIDE DEF first, last
    <1>4. IsFiniteSet(first .. last) /\ Cardinality(first .. last) = WindowSize
        <2>1. Cardinality(first .. last) = IF first > last THEN 0 ELSE last - first + 1
            BY <1>1, FS_Interval
        <2> QED
            BY <1>1, <2>1, FS_Interval
    <1>5. InWindow(p, w) \subseteq first .. last
        BY <1>3
    <1>6. IsFiniteSet(InWindow(p, w)) /\ Cardinality(InWindow(p, w)) <= Cardinality(first .. last)
        BY <1>4, <1>5, FS_Subset
    <1>7. Cardinality(InWindow(p, w)) \in Nat
        BY <1>6, FS_CardinalityType
    <1>8. p.windows[w] = Cardinality(InWindow(p, w))
        BY <1>2 DEF Sending, Counts
    <1> QED
        BY <1>0, <1>4, <1>6, <1>7, <1>8

(* No window ever counts more commands than it has numbers: the 16 bits of *)
(* reliableWindows never overflow, and a window that is full is one that   *)
(* check_outgoing_commands finds at ENET_PEER_RELIABLE_WINDOW_SIZE, never  *)
(* above it.                                                               *)
WindowsAreBounded == \A h \in Hosts : \A w \in 0 .. Windows - 1 : peer[h].windows[w] \in 0 .. WindowSize
THEOREM WindowsNeverOverflow == Spec => []WindowsAreBounded
    <1>1. Inv => WindowsAreBounded
        <2> SUFFICES ASSUME Inv PROVE WindowsAreBounded
            OBVIOUS
        <2>1. \A h \in Hosts : peer[h] \in Fine
            BY InvIs
        <2> QED
            BY <2>1, WindowHolds DEF WindowsAreBounded
    <1> QED
        BY InvInit, InvStep, <1>1, PTL DEF Spec
================================================================================
