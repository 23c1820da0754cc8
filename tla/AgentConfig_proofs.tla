------------------------- MODULE AgentConfig_proofs -------------------------
(***************************************************************************)
(* load_from_ctx computes what a document means, and the configuration in  *)
(* force is always that of one whole document with the later changes, for  *)
(* every set of documents, every text and every sequence of reloads.       *)
(***************************************************************************)
EXTENDS AgentConfig, WellFoundedInduction, TLAPS

(* A set of numbers that is not empty has a least element. *)
LEMMA LeastExists ==
  ASSUME NEW S \in SUBSET Nat, S # {}
  PROVE  \E i \in S : \A j \in S : i <= j
<1>1. PICK i \in S : \A j \in S : <<j, i>> \notin OpToRel(<, Nat)
  BY NatLessThanWellFounded, WFMin
<1>2. \A j \in S : i <= j
  <2>1. ASSUME NEW j \in S, j < i PROVE <<j, i>> \in OpToRel(<, Nat)
    BY <2>1 DEF OpToRel
  <2>2. \A j \in S : ~(j < i)
    BY <1>1, <2>1
  <2> QED
    BY <2>2
<1> QED
  BY <1>2

(* What holds at 0 and passes on from each number to the next holds up to n. *)
LEMMA UpwardFrom0 ==
  ASSUME NEW n \in Nat, NEW A, 0 \in A, \A k \in 0..(n - 1) : k \in A => k + 1 \in A
  PROVE  \A k \in 0..n : k \in A
<1> DEFINE bad == {k \in 0..n : k \notin A}
<1> SUFFICES ASSUME bad # {} PROVE FALSE
  OBVIOUS
<1>1. bad \in SUBSET Nat
  OBVIOUS
<1>2. PICK k \in bad : \A j \in bad : k <= j
  BY <1>1, LeastExists
<1>3. k - 1 \in 0..(n - 1) /\ k - 1 \notin bad
  BY <1>2
<1>4. (k - 1) + 1 \in A
  BY <1>3
<1> QED
  BY <1>2, <1>4

(* The greatest number of a set is what Max returns. *)
LEMMA MaxIs ==
  ASSUME NEW S \in SUBSET Nat, NEW k \in S, \A m \in S : m <= k
  PROVE  Max(S) = k
<1>1. \A m \in S : k >= m
  OBVIOUS
<1>2. \E x \in S : \A y \in S : x >= y
  BY <1>1
<1>3. Max(S) \in S /\ \A y \in S : Max(S) >= y
  BY <1>2 DEF Max
<1>4. Max(S) \in Nat /\ k \in Nat /\ Max(S) >= k /\ Max(S) <= k
  BY <1>3
<1> HIDE DEF Max
<1> QED
  BY <1>4

(* Max picks an element of a set of places. *)
LEMMA MaxIsMember ==
  ASSUME NEW S \in SUBSET (1..70), S # {}
  PROVE  Max(S) \in S
<1> DEFINE above == {m \in 0..70 : \A x \in S : x <= m}
<1>1. above \in SUBSET Nat /\ 70 \in above
  OBVIOUS
<1>2. PICK u \in above : \A v \in above : u <= v
  BY <1>1, LeastExists
<1>3. u \in S
  <2> SUFFICES ASSUME u \notin S PROVE FALSE
    OBVIOUS
  <2>1. ASSUME NEW x \in S PROVE x \in 1..70 /\ u \in 0..70 /\ x <= u - 1
    BY <1>2
  <2>3. u \in 1..70
    <3>1. PICK x \in S : TRUE
      OBVIOUS
    <3> QED
      BY <2>1, <3>1
  <2>2. u - 1 \in above
    BY <2>1, <2>3
  <2> QED
    BY <1>2, <2>2, <2>3
<1>4. S \in SUBSET Nat /\ \A x \in S : x <= u
  BY <1>2
<1> HIDE DEF above
<1> QED
  BY <1>3, <1>4, MaxIs

-----------------------------------------------------------------------------
(***************************************************************************)
(* What the proofs need to know of the table and of the defaults.          *)
(***************************************************************************)
(* g_paths has 70 entries. *)
LEMMA TableLen == Len(g_paths) = 70 /\ DOMAIN g_paths = 1..70
BY DEF g_paths

(* Every path sets a field of the configuration. *)
LEMMA TableFields ==
  ASSUME NEW n \in 1..70
  PROVE  g_paths[n].field \in DOMAIN Defaults /\ g_paths[n].field # "sample_interval_ms"
BY DEF g_paths, At, Defaults

(* The kinds that set two fields belong to one setting each. *)
LEMMA TableKinds ==
  ASSUME NEW n \in 1..70
  PROVE  /\ g_paths[n].kind = "interval" <=> g_paths[n].field = "demo_interval_ms"
         /\ g_paths[n].kind = "ca" <=> g_paths[n].field = "tls_ca_file"
         /\ g_paths[n].field = "spool_max_lines" => g_paths[n].kind = "size"
         /\ g_paths[n].field = "probe_timeout_ms" => g_paths[n].kind = "pos"
BY DEF g_paths, At

(* The paths of the CA file come before those of tls_insecure. *)
LEMMA TableOrder ==
  ASSUME NEW n \in 1..70, NEW m \in 1..70,
         g_paths[n].kind = "ca", g_paths[m].field = "egress_tls_insecure"
  PROVE  n < m
<1>1. n \in {34, 35}
  BY DEF g_paths, At
<1>2. m \in {40, 41}
  BY DEF g_paths, At
<1> QED
  BY <1>1, <1>2

(* The fields that are named below exist, with defaults that are not zero. *)
LEMMA DefaultsFields ==
  /\ {"router_id", "spool_max_lines", "demo_target", "arping_if", "wifi_if", "demo_interval_ms",
      "sample_interval_ms", "demo_mode", "probe_timeout_ms", "tls_ca_file", "egress_tls_insecure",
      "tcp_stats_enabled", "tcp_nflog_group"} \subseteq DOMAIN Defaults
  /\ Defaults["sample_interval_ms"] = Defaults["demo_interval_ms"]
  /\ Defaults["egress_tls_insecure"] = TRUE
  /\ Defaults["spool_max_lines"] # 0 /\ Defaults["demo_interval_ms"] # 0
  /\ Defaults["probe_timeout_ms"] # 0
BY DEF Defaults

(* The record of the defaults, as a function. *)
LEMMA DefaultsFunction == Defaults = [f \in DOMAIN Defaults |-> Defaults[f]]
<1>1. Defaults \in [DOMAIN Defaults -> {Defaults[g] : g \in DOMAIN Defaults}]
  BY DEF Defaults
<1> QED
  BY <1>1

-----------------------------------------------------------------------------
(***************************************************************************)
(* load_from_ctx, turn by turn.                                            *)
(***************************************************************************)
Fresh == [cfg |-> Defaults, ok |-> TRUE]

(* The results after each of the first n paths. *)
Turns(s, doc, n) ==
  s = [k \in 0..n |-> IF k = 0 THEN Fresh ELSE ApplyScalar(s[k - 1], g_paths[k], doc)]

(* The recursion of load_from_ctx is well-founded. *)
LEMMA TurnsExist ==
  ASSUME NEW doc
  PROVE  \E s : Turns(s, doc, 70)
<1> DEFINE A == {n \in 0..70 : \E s : Turns(s, doc, n)}
<1>1. 0 \in A
  <2> DEFINE s == [k \in 0..0 |-> Fresh]
  <2>1. s = [k \in 0..0 |-> IF k = 0 THEN Fresh ELSE ApplyScalar(s[k - 1], g_paths[k], doc)]
    OBVIOUS
  <2> HIDE DEF s
  <2>2. Turns(s, doc, 0)
    BY <2>1 DEF Turns
  <2> QED
    BY <2>2
<1>2. ASSUME NEW n \in 0..(70 - 1), n \in A PROVE n + 1 \in A
  <2>1. PICK s : Turns(s, doc, n)
    BY <1>2
  <2> DEFINE t == [k \in 0..(n + 1) |->
                     IF k = n + 1 THEN ApplyScalar(s[n], g_paths[n + 1], doc) ELSE s[k]]
  <2>2. n \in Nat /\ n + 1 \in 1..70
    OBVIOUS
  <2>3. ASSUME NEW k \in 0..(n + 1)
        PROVE  t[k] = IF k = 0 THEN Fresh ELSE ApplyScalar(t[k - 1], g_paths[k], doc)
    <3>1. CASE k = n + 1
      <4>1. k - 1 = n /\ n \in 0..(n + 1) /\ n # n + 1 /\ k # 0
        BY <2>2, <3>1
      <4>2. t[n] = s[n]
        BY <4>1
      <4> QED
        BY <3>1, <4>1, <4>2
    <3>2. CASE k # n + 1
      <4>1. k \in 0..n
        BY <2>2, <3>2
      <4>2. s[k] = IF k = 0 THEN Fresh ELSE ApplyScalar(s[k - 1], g_paths[k], doc)
        BY <2>1, <4>1 DEF Turns
      <4>3. t[k] = s[k] /\ (k # 0 => t[k - 1] = s[k - 1])
        BY <2>2, <3>2, <4>1
      <4> QED
        BY <4>2, <4>3
    <3> QED
      BY <3>1, <3>2
  <2>4. DOMAIN t = 0..(n + 1) /\ t = [k \in 0..(n + 1) |-> t[k]]
    OBVIOUS
  <2> HIDE DEF t
  <2>5. Turns(t, doc, n + 1)
    BY <2>3, <2>4 DEF Turns
  <2>6. n + 1 \in 0..70
    BY <2>2
  <2> QED
    BY <2>5, <2>6
<1> HIDE DEF A
<1>3. 70 \in A
  BY <1>1, <1>2, UpwardFrom0
<1> QED
  BY <1>3 DEF A

(* What load_from_ctx returns is the last of its turns. *)
LEMMA LoadTurns ==
  ASSUME NEW doc
  PROVE  \E s : /\ LoadFromCtx(doc) = s[70] /\ s[0] = Fresh
                /\ \A k \in 1..70 : s[k] = ApplyScalar(s[k - 1], g_paths[k], doc)
<1> DEFINE s == CHOOSE f : f = [k \in 0..70 |-> IF k = 0 THEN Fresh ELSE ApplyScalar(f[k - 1], g_paths[k], doc)]
<1>1. LoadFromCtx(doc) = s[70]
  BY TableLen DEF LoadFromCtx, Fresh
<1>2. \E f : f = [k \in 0..70 |-> IF k = 0 THEN Fresh ELSE ApplyScalar(f[k - 1], g_paths[k], doc)]
  BY TurnsExist DEF Turns
<1>3. s = [k \in 0..70 |-> IF k = 0 THEN Fresh ELSE ApplyScalar(s[k - 1], g_paths[k], doc)]
  BY <1>2
<1> HIDE DEF s
<1>4. s[0] = Fresh /\ \A k \in 1..70 : s[k] = ApplyScalar(s[k - 1], g_paths[k], doc)
  BY <1>3
<1> QED
  BY <1>1, <1>4

-----------------------------------------------------------------------------
(***************************************************************************)
(* What the first k paths say.                                             *)
(***************************************************************************)
PresentTo(doc, f, k) == {n \in 1..k : g_paths[n].field = f /\ Lookup(doc, g_paths[n].path)}

SaysTo(doc, f, k) ==
  LET e == g_paths[Max(PresentTo(doc, f, k))]
  IN  IF PresentTo(doc, f, k) = {} THEN Defaults[f] ELSE Value(e.kind, doc[e.path])

MeansTo(doc, f, k) ==
  CASE f = "sample_interval_ms" -> SaysTo(doc, "demo_interval_ms", k)
    [] f = "egress_tls_insecure" /\ PresentTo(doc, f, k) = {} -> PresentTo(doc, "tls_ca_file", k) = {}
    [] OTHER -> SaysTo(doc, f, k)

BadTo(doc, k) ==
  \E n \in 1..k : Lookup(doc, g_paths[n].path) /\ ~Accepts(g_paths[n].kind, doc[g_paths[n].path])

(* All the paths say what the document means. *)
LEMMA MeansAll ==
  ASSUME NEW doc
  PROVE  /\ Meaning(doc) = [f \in DOMAIN Defaults |-> MeansTo(doc, f, 70)]
         /\ Bad(doc) <=> BadTo(doc, 70)
<1>1. \A f : Present(doc, f) = PresentTo(doc, f, 70)
  BY TableLen DEF Present, PresentTo
<1>2. \A f : Says(doc, f) = SaysTo(doc, f, 70)
  BY <1>1 DEF Says, SaysTo
<1>3. Meaning(doc) = [f \in DOMAIN Defaults |-> MeansTo(doc, f, 70)]
  BY <1>1, <1>2 DEF Meaning, MeansTo
<1>4. Bad(doc) <=> BadTo(doc, 70)
  BY TableLen DEF Bad, BadTo
<1> QED
  BY <1>3, <1>4

(* A path that is absent, or of another setting, changes nothing of it. *)
LEMMA PresentSame ==
  ASSUME NEW doc, NEW f, NEW n \in 1..70,
         ~(g_paths[n].field = f /\ Lookup(doc, g_paths[n].path))
  PROVE  /\ PresentTo(doc, f, n) = PresentTo(doc, f, n - 1)
         /\ SaysTo(doc, f, n) = SaysTo(doc, f, n - 1)
<1>1. PresentTo(doc, f, n) = PresentTo(doc, f, n - 1)
  BY DEF PresentTo
<1> QED
  BY <1>1 DEF SaysTo

(* A spelling that is present overrides the ones before it. *)
LEMMA PresentLast ==
  ASSUME NEW doc, NEW n \in 1..70, Lookup(doc, g_paths[n].path)
  PROVE  /\ PresentTo(doc, g_paths[n].field, n) # {}
         /\ SaysTo(doc, g_paths[n].field, n) = Value(g_paths[n].kind, doc[g_paths[n].path])
<1> DEFINE S == PresentTo(doc, g_paths[n].field, n)
<1>1. S \in SUBSET Nat /\ n \in S /\ \A m \in S : m <= n
  BY DEF PresentTo
<1>2. Max(S) = n
  <2> HIDE DEF S
  <2> QED
    BY <1>1, MaxIs
<1>3. S # {}
  BY <1>1
<1> QED
  BY <1>2, <1>3 DEF SaysTo

(* When the CA file is read, nothing was said of tls_insecure. *)
LEMMA InsecureLater ==
  ASSUME NEW doc, NEW n \in 1..70, g_paths[n].kind = "ca"
  PROVE  PresentTo(doc, "egress_tls_insecure", n) = {}
<1>1. \A m \in 1..n : m \in 1..70 /\ ~(n < m)
  OBVIOUS
<1>2. \A m \in 1..n : g_paths[m].field # "egress_tls_insecure"
  BY <1>1, TableOrder
<1> QED
  BY <1>2 DEF PresentTo

(* What one text that is taken changes, field by field. *)
LEMMA EffectMeans ==
  ASSUME NEW doc, NEW n \in 1..70, Lookup(doc, g_paths[n].path), NEW f \in DOMAIN Defaults,
         NEW change, change = Effect(g_paths[n], doc[g_paths[n].path])
  PROVE  /\ DOMAIN change \subseteq DOMAIN Defaults
         /\ f \in DOMAIN change => change[f] = MeansTo(doc, f, n)
         /\ f \notin DOMAIN change => MeansTo(doc, f, n) = MeansTo(doc, f, n - 1)
<1> DEFINE e == g_paths[n]
           text == doc[g_paths[n].path]
<1>1. /\ e.field \in DOMAIN Defaults /\ e.field # "sample_interval_ms"
      /\ e.kind = "interval" <=> e.field = "demo_interval_ms"
      /\ e.kind = "ca" <=> e.field = "tls_ca_file"
  BY TableFields, TableKinds
<1>2. /\ PresentTo(doc, e.field, n) # {}
      /\ SaysTo(doc, e.field, n) = Value(e.kind, text)
  BY PresentLast
<1>3. \A g : g # e.field => /\ PresentTo(doc, g, n) = PresentTo(doc, g, n - 1)
                            /\ SaysTo(doc, g, n) = SaysTo(doc, g, n - 1)
  BY PresentSame
<1>4. e.kind = "ca" => PresentTo(doc, "egress_tls_insecure", n) = {}
  BY InsecureLater
<1>5. e.kind = "ca" => Value(e.kind, text) = text
  BY DEF Value
<1>6. change = Effect(e, text)
  OBVIOUS
<1> HIDE DEF e, text
<1>7. CASE e.kind = "interval"
  <2>1. /\ DOMAIN change = {"demo_interval_ms", "sample_interval_ms"}
        /\ \A g \in DOMAIN change : change[g] = Value(e.kind, text)
    BY <1>1, <1>6, <1>7 DEF Effect
  <2> QED
    BY <1>1, <1>2, <1>3, <1>7, <2>1, DefaultsFields DEF MeansTo
<1>8. CASE e.kind = "ca"
  <2>1. /\ DOMAIN change = {"tls_ca_file", "egress_tls_insecure"}
        /\ change["tls_ca_file"] = text /\ change["egress_tls_insecure"] = FALSE
    BY <1>1, <1>6, <1>8 DEF Effect
  <2>2. f = "egress_tls_insecure" => MeansTo(doc, f, n) = FALSE
    BY <1>1, <1>2, <1>4, <1>8 DEF MeansTo
  <2>3. f = "tls_ca_file" => MeansTo(doc, f, n) = text
    BY <1>1, <1>2, <1>5, <1>8 DEF MeansTo
  <2>4. f \notin DOMAIN change => MeansTo(doc, f, n) = MeansTo(doc, f, n - 1)
    BY <1>1, <1>3, <1>8, <2>1 DEF MeansTo
  <2> QED
    BY <2>1, <2>2, <2>3, <2>4, DefaultsFields
<1>9. CASE e.kind \notin {"interval", "ca"}
  <2>1. DOMAIN change = {e.field} /\ change[e.field] = Value(e.kind, text)
    BY <1>6, <1>9 DEF Effect
  <2>2. f = e.field => MeansTo(doc, f, n) = Value(e.kind, text)
    BY <1>1, <1>2 DEF MeansTo
  <2>3. f # e.field => MeansTo(doc, f, n) = MeansTo(doc, f, n - 1)
    BY <1>1, <1>3, <1>9 DEF MeansTo
  <2> QED
    BY <1>1, <2>1, <2>2, <2>3
<1> QED
  BY <1>7, <1>8, <1>9

(* What holds of the loop after k turns. *)
Read(acc, doc, k) ==
  /\ acc.ok = ~BadTo(doc, k)
  /\ acc.ok => acc.cfg = [f \in DOMAIN Defaults |-> MeansTo(doc, f, k)]

(* Before the first turn nothing is present. *)
LEMMA ReadFresh ==
  ASSUME NEW doc
  PROVE  Read(Fresh, doc, 0)
<1>1. \A f : PresentTo(doc, f, 0) = {}
  BY DEF PresentTo
<1>2. \A f : SaysTo(doc, f, 0) = Defaults[f]
  BY <1>1 DEF SaysTo
<1>3. \A f \in DOMAIN Defaults : MeansTo(doc, f, 0) = Defaults[f]
  BY <1>1, <1>2, DefaultsFields DEF MeansTo
<1>4. Defaults = [f \in DOMAIN Defaults |-> Defaults[f]]
  BY DefaultsFunction
<1>5. ~BadTo(doc, 0)
  BY DEF BadTo
<1>6. Defaults = [f \in DOMAIN Defaults |-> MeansTo(doc, f, 0)]
  BY <1>3, <1>4
<1> QED
  BY <1>5, <1>6 DEF Read, Fresh

(* A turn reads one more path. *)
LEMMA ReadTurn ==
  ASSUME NEW doc, NEW n \in 1..70, NEW acc, Read(acc, doc, n - 1)
  PROVE  Read(ApplyScalar(acc, g_paths[n], doc), doc, n)
<1> DEFINE e == g_paths[n]
           text == doc[g_paths[n].path]
           change == Effect(e, text)
           bad == Lookup(doc, e.path) /\ ~Accepts(e.kind, text)
<1>1. BadTo(doc, n) <=> BadTo(doc, n - 1) \/ bad
  <2>1. 1..n = 1..(n - 1) \cup {n}
    OBVIOUS
  <2> QED
    BY <2>1 DEF BadTo
<1>2. CASE ~acc.ok
  <2>1. ApplyScalar(acc, e, doc) = acc
    BY <1>2 DEF ApplyScalar
  <2>2. BadTo(doc, n)
    BY <1>1, <1>2 DEF Read
  <2> QED
    BY <1>2, <2>1, <2>2 DEF Read
<1>3. CASE acc.ok /\ ~Lookup(doc, e.path)
  <2>1. ApplyScalar(acc, e, doc) = acc
    BY <1>3 DEF ApplyScalar
  <2>2. ~BadTo(doc, n) /\ acc.ok = TRUE
    BY <1>1, <1>3 DEF Read
  <2>3. \A f : MeansTo(doc, f, n) = MeansTo(doc, f, n - 1)
    <3>1. \A f : /\ PresentTo(doc, f, n) = PresentTo(doc, f, n - 1)
                /\ SaysTo(doc, f, n) = SaysTo(doc, f, n - 1)
      BY <1>3, PresentSame
    <3> QED
      BY <3>1 DEF MeansTo
  <2>4. acc.cfg = [f \in DOMAIN Defaults |-> MeansTo(doc, f, n)]
    BY <1>3, <2>3 DEF Read
  <2> QED
    BY <2>1, <2>2, <2>4 DEF Read
<1>4. CASE acc.ok /\ bad
  <2>1. ApplyScalar(acc, e, doc).ok = FALSE
    BY <1>4 DEF ApplyScalar
  <2> QED
    BY <1>1, <1>4, <2>1 DEF Read
<1>5. CASE acc.ok /\ Lookup(doc, e.path) /\ Accepts(e.kind, text)
  <2>1. ApplyScalar(acc, e, doc) = [cfg |-> With(acc.cfg, change), ok |-> TRUE]
    BY <1>5 DEF ApplyScalar
  <2>2. ~BadTo(doc, n)
    BY <1>1, <1>5 DEF Read
  <2>3. acc.cfg = [f \in DOMAIN Defaults |-> MeansTo(doc, f, n - 1)]
    BY <1>5 DEF Read
  <2>4. \A f \in DOMAIN Defaults :
          /\ DOMAIN change \subseteq DOMAIN Defaults
          /\ f \in DOMAIN change => change[f] = MeansTo(doc, f, n)
          /\ f \notin DOMAIN change => MeansTo(doc, f, n) = MeansTo(doc, f, n - 1)
    BY <1>5, EffectMeans
  <2>5. DOMAIN change \subseteq DOMAIN Defaults
    BY <2>4, DefaultsFields
  <2> HIDE DEF change
  <2>6. With(acc.cfg, change) = [f \in DOMAIN Defaults |-> MeansTo(doc, f, n)]
    <3>1. DOMAIN acc.cfg \cup DOMAIN change = DOMAIN Defaults
      BY <2>3, <2>5
    <3>2. \A f \in DOMAIN Defaults :
            (IF f \in DOMAIN change THEN change[f] ELSE acc.cfg[f]) = MeansTo(doc, f, n)
      BY <2>3, <2>4
    <3> QED
      BY <3>1, <3>2 DEF With
  <2>7. /\ ApplyScalar(acc, e, doc).ok = TRUE
        /\ ApplyScalar(acc, e, doc).cfg = With(acc.cfg, change)
    BY <2>1
  <2> QED
    BY <2>2, <2>6, <2>7 DEF Read
<1> QED
  BY <1>2, <1>3, <1>4, <1>5 DEF Read

(* load_from_ctx succeeds for the documents that are not bad, and then     *)
(* returns what the document means.                                        *)
THEOREM LoadIsMeaning ==
  ASSUME NEW doc
  PROVE  /\ LoadFromCtx(doc).ok <=> ~Bad(doc)
         /\ ~Bad(doc) => LoadFromCtx(doc).cfg = Meaning(doc)
<1>1. PICK s : /\ LoadFromCtx(doc) = s[70] /\ s[0] = Fresh
               /\ \A k \in 1..70 : s[k] = ApplyScalar(s[k - 1], g_paths[k], doc)
  BY LoadTurns
<1> DEFINE A == {k \in 0..70 : Read(s[k], doc, k)}
<1>2. 0 \in A
  BY <1>1, ReadFresh
<1>3. ASSUME NEW k \in 0..(70 - 1), k \in A PROVE k + 1 \in A
  <2>1. k + 1 \in 1..70 /\ (k + 1) - 1 = k /\ k + 1 \in 0..70
    OBVIOUS
  <2>2. s[k + 1] = ApplyScalar(s[k], g_paths[k + 1], doc)
    BY <1>1, <2>1
  <2>3. Read(s[k], doc, (k + 1) - 1)
    BY <1>3, <2>1
  <2>4. Read(ApplyScalar(s[k], g_paths[k + 1], doc), doc, k + 1)
    BY <2>1, <2>3, ReadTurn
  <2> QED
    BY <2>1, <2>2, <2>4
<1> HIDE DEF A
<1>4. 70 \in A
  BY <1>2, <1>3, UpwardFrom0
<1>5. Read(LoadFromCtx(doc), doc, 70)
  BY <1>1, <1>4 DEF A
<1> QED
  BY <1>5, MeansAll DEF Read

-----------------------------------------------------------------------------
(***************************************************************************)
(* The zeros that apply_config fills in never occur, so that it applies    *)
(* what was asked for.                                                     *)
(***************************************************************************)
NoZeros(c) ==
  /\ c["spool_max_lines"] # 0 /\ c["sample_interval_ms"] # 0
  /\ c["demo_interval_ms"] # 0 /\ c["probe_timeout_ms"] # 0

(* A number in such a range is not zero. *)
LEMMA PositiveNumber ==
  ASSUME NEW v \in Nat, NEW u \in Nat, v > 0 \/ v \in 1..(u - 1)
  PROVE  v # 0
OBVIOUS

(* So the text of one is not a zero. *)
LEMMA PositiveNumeral ==
  ASSUME NEW text \in DOMAIN Numeral,
         Numeral[text] > 0 \/ Numeral[text] \in 1..(U32 - 1)
  PROVE  Numeral[text] # 0
<1>1. Numeral[text] \in Nat /\ U32 \in Nat
  BY ConfigAssumption DEF ConfigAssumption
<1> QED
  BY <1>1, PositiveNumber

(* A number that is accepted for these settings is not zero. *)
LEMMA SaysNoZero ==
  ASSUME NEW doc, ~Bad(doc),
         NEW f \in {"spool_max_lines", "demo_interval_ms", "probe_timeout_ms"}
  PROVE  Says(doc, f) # 0
<1> DEFINE P == Present(doc, f)
           n == Max(P)
           text == doc[g_paths[n].path]
<1>1. CASE P = {}
  BY <1>1, DefaultsFields DEF Says
<1>2. CASE P # {}
  <2>1. P \in SUBSET (1..70)
    BY TableLen DEF Present
  <2>2. n \in P
    <3> HIDE DEF P
    <3> QED
      BY <1>2, <2>1, MaxIsMember
  <2>3. n \in 1..70 /\ g_paths[n].field = f /\ Lookup(doc, g_paths[n].path)
    BY <2>1, <2>2 DEF Present
  <2>4. g_paths[n].kind \in {"size", "interval", "pos"}
    BY <2>3, TableKinds
  <2>5. Accepts(g_paths[n].kind, text)
    BY <2>3, TableLen DEF Bad
  <2>6. Says(doc, f) = Value(g_paths[n].kind, text)
    BY <1>2 DEF Says
  <2> HIDE DEF n, text
  <2>7. Numeral[text] # 0
    <3>1. /\ text \in DOMAIN Numeral
          /\ Numeral[text] > 0 \/ Numeral[text] \in 1..(U32 - 1)
      BY <2>4, <2>5 DEF Accepts, InRange
    <3> QED
      BY <3>1, PositiveNumeral
  <2>8. Value(g_paths[n].kind, text) = Numeral[text]
    BY <2>4 DEF Value
  <2> QED
    BY <2>6, <2>7, <2>8
<1> QED
  BY <1>1, <1>2

(* A document that is not bad means no zeros. *)
LEMMA MeaningNoZeros ==
  ASSUME NEW doc, ~Bad(doc)
  PROVE  NoZeros(Meaning(doc))
<1>1. /\ Says(doc, "spool_max_lines") # 0 /\ Says(doc, "demo_interval_ms") # 0
      /\ Says(doc, "probe_timeout_ms") # 0
  BY SaysNoZero
<1> QED
  BY <1>1, DefaultsFields DEF Meaning, NoZeros

(* apply_config leaves a configuration without zeros as it is. *)
LEMMA FilledSame ==
  ASSUME NEW c, c = [f \in DOMAIN Defaults |-> c[f]], NoZeros(c)
  PROVE  Filled(c) = c
<1> DEFINE same == [c EXCEPT !.spool_max_lines = c.spool_max_lines,
                             !.sample_interval_ms = c.sample_interval_ms,
                             !.demo_interval_ms = c.demo_interval_ms,
                             !.probe_timeout_ms = c.probe_timeout_ms]
<1>1. Filled(c) = same
  BY DEF Filled, NoZeros
<1>2. same = c
  OBVIOUS
<1> QED
  BY <1>1, <1>2

(***************************************************************************)
(* A configuration that stands for a whole document and what was set on    *)
(* top of it.                                                              *)
(***************************************************************************)
Whole(c, b, o) ==
  /\ c = With(Meaning(b), o)
  /\ ~Bad(b)
  /\ DOMAIN o \subseteq DOMAIN Defaults
  /\ NoZeros(c)

(* It has the fields of the configuration. *)
LEMMA WholeFields ==
  ASSUME NEW c, NEW b, NEW o, Whole(c, b, o)
  PROVE  c = [f \in DOMAIN Defaults |-> c[f]] /\ DOMAIN c = DOMAIN Defaults
<1>1. DOMAIN Meaning(b) = DOMAIN Defaults
  BY DEF Meaning
<1> QED
  BY <1>1 DEF Whole, With

(* The empty document, or set of changes, has no fields. *)
LEMMA NothingEmpty == DOMAIN Nothing = {}
BY DEF Nothing

(* Nothing on top leaves a function as it is. *)
LEMMA WithNothing ==
  ASSUME NEW D, NEW c, c = [f \in D |-> c[f]]
  PROVE  With(c, Nothing) = c
BY NothingEmpty DEF With

(* What load_from_ctx returns stands for the document. *)
LEMMA LoadWhole ==
  ASSUME NEW doc, ~Bad(doc)
  PROVE  Whole(Meaning(doc), doc, Nothing)
<1>1. Meaning(doc) = [f \in DOMAIN Defaults |-> Meaning(doc)[f]]
  BY DEF Meaning
<1>2. With(Meaning(doc), Nothing) = Meaning(doc)
  BY <1>1, WithNothing
<1> QED
  BY <1>2, NothingEmpty, MeaningNoZeros DEF Whole

(* A change on top of the configuration is a change on top of the rest. *)
LEMMA ChangeWhole ==
  ASSUME NEW c, NEW b, NEW o, Whole(c, b, o), NEW change, DOMAIN change \subseteq DOMAIN Defaults,
         \A f \in DOMAIN change : change[f] # 0 \/ f \notin {"spool_max_lines", "sample_interval_ms",
                                                             "demo_interval_ms", "probe_timeout_ms"}
  PROVE  Whole(With(c, change), b, With(o, change))
<1>1. DOMAIN Meaning(b) = DOMAIN Defaults
  BY DEF Meaning
<1>2. With(c, change) = With(Meaning(b), With(o, change))
  BY <1>1 DEF Whole, With
<1>3. DOMAIN With(o, change) \subseteq DOMAIN Defaults
  BY DEF Whole, With
<1>4. NoZeros(With(c, change))
  <2>1. DOMAIN c = DOMAIN Defaults
    BY WholeFields
  <2> QED
    BY <2>1, DefaultsFields DEF Whole, With, NoZeros
<1> QED
  BY <1>2, <1>3, <1>4 DEF Whole

-----------------------------------------------------------------------------
(***************************************************************************)
(* The inductive invariant.  The configuration in force and the one that   *)
(* is about to be applied both stand for a whole document; the rest is     *)
(* what RefusedIffBad says.                                                *)
(***************************************************************************)
LoadRefused == last = "load" /\ pc # "apply" => override \in Long \/ read = Unreadable \/ Bad(read)

ConfigInv ==
  /\ gen \in Nat
  /\ Whole(cfg, base, over)
  /\ pc = "apply" => Whole(staged.cfg, staged.base, staged.over)
  /\ gen > 0 => Valid(cfg)
  /\ LoadRefused

(* The defaults are what the empty document means. *)
LEMMA DefaultsWhole == Whole(Defaults, Nothing, Nothing)
<1>1. \A p : ~Lookup(Nothing, p)
  BY NothingEmpty DEF Lookup
<1>2. ~Bad(Nothing)
  BY <1>1 DEF Bad
<1>3. \A f : Present(Nothing, f) = {}
  BY <1>1 DEF Present
<1>4. \A f \in DOMAIN Defaults : Meaning(Nothing)[f] = Defaults[f]
  BY <1>3, DefaultsFields DEF Meaning, Says
<1>5. Meaning(Nothing) = [f \in DOMAIN Defaults |-> Meaning(Nothing)[f]]
  BY DEF Meaning
<1>6. Meaning(Nothing) = Defaults
  BY <1>4, <1>5, DefaultsFunction
<1> QED
  BY <1>2, <1>6, LoadWhole

(* main starts from the defaults. *)
LEMMA InitConfig ==
  ASSUME Init
  PROVE  ConfigInv
<1>1. Whole(cfg, base, over)
  BY DefaultsWhole DEF Init
<1>2. gen = 0 /\ pc = "start" /\ last = "none"
  BY DEF Init
<1>3. gen \in Nat /\ ~(gen > 0)
  BY <1>2
<1> QED
  BY <1>1, <1>2, <1>3 DEF ConfigInv, LoadRefused

(* What is staged with a router id on top is a change on top. *)
LEMMA StageWhole ==
  ASSUME NEW c, NEW b, NEW o, NEW rid, Whole(c, b, o), Stage(c, b, o, rid)
  PROVE  Whole(staged'.cfg, staged'.base, staged'.over)
<1>1. CASE rid = ""
  BY <1>1 DEF Stage
<1>2. CASE rid # ""
  <2> DEFINE change == [router_id |-> rid]
  <2>1. /\ staged'.cfg = [c EXCEPT !["router_id"] = rid]
        /\ staged'.base = b /\ staged'.over = With(o, change)
    BY <1>2 DEF Stage
  <2>2. DOMAIN change = {"router_id"} /\ change["router_id"] = rid
    OBVIOUS
  <2> HIDE DEF change
  <2>3. c = [f \in DOMAIN Defaults |-> c[f]] /\ DOMAIN c = DOMAIN Defaults
    BY WholeFields
  <2>4. [c EXCEPT !["router_id"] = rid] = With(c, change)
    BY <2>2, <2>3, DefaultsFields DEF With
  <2>5. Whole(With(c, change), b, With(o, change))
    BY <2>2, DefaultsFields, ChangeWhole
  <2> QED
    BY <2>1, <2>4, <2>5
<1> QED
  BY <1>1, <1>2

(* A file is loaded exactly if it can be read and is not bad. *)
LEMMA PathLoads ==
  ASSUME NEW f
  PROVE  /\ LoadYamlPath(f).ok <=> f # Unreadable /\ ~Bad(f)
         /\ LoadYamlPath(f).ok => LoadYamlPath(f).cfg = Meaning(f)
<1>1. CASE f = Unreadable
  BY <1>1 DEF LoadYamlPath
<1>2. CASE f # Unreadable
  BY <1>2, LoadIsMeaning DEF LoadYamlPath
<1> QED
  BY <1>1, <1>2

(* reload_config stages a whole document or fails for a cause. *)
LEMMA ReloadInv ==
  ASSUME ConfigInv, NEW withPath, NEW rid,
         rid \in Long => override \in Long, ReloadConfig(withPath, rid)
  PROVE  ConfigInv'
<1>1. UNCHANGED <<override, cfg, gen, cap, base, over>> /\ read' = IF withPath THEN file ELSE read
  BY DEF ReloadConfig, startVars, agentVars
<1>2. gen' \in Nat /\ Whole(cfg', base', over') /\ (gen' > 0 => Valid(cfg'))
  BY <1>1 DEF ConfigInv
<1>3. CASE (withPath => LoadYamlPath(file).ok) /\ pc' = "apply"
           /\ IF withPath THEN Stage(LoadYamlPath(file).cfg, file, Nothing, rid)
                          ELSE Stage(cfg, base, over, rid)
  <2>1. Whole(staged'.cfg, staged'.base, staged'.over)
    <3>1. CASE withPath
      <4>1. ~Bad(file) /\ LoadYamlPath(file).cfg = Meaning(file)
        BY <1>3, <3>1, PathLoads
      <4>2. Whole(Meaning(file), file, Nothing)
        BY <4>1, LoadWhole
      <4> QED
        BY <1>3, <3>1, <4>1, <4>2, StageWhole
    <3>2. CASE ~withPath
      BY <1>3, <3>2, StageWhole DEF ConfigInv
    <3> QED
      BY <3>1, <3>2
  <2> QED
    BY <1>2, <1>3, <2>1 DEF ConfigInv, LoadRefused
<1>4. CASE ((withPath /\ ~LoadYamlPath(file).ok) \/ rid \in Long) /\ Fail("load")
  <2>1. override' \in Long \/ read' = Unreadable \/ Bad(read')
    BY <1>1, <1>4, PathLoads
  <2>2. pc' # "apply"
    BY <1>4 DEF Fail
  <2> QED
    BY <1>2, <2>1, <2>2 DEF ConfigInv, LoadRefused
<1> QED
  BY <1>3, <1>4 DEF ReloadConfig

(* apply_config puts a whole configuration in force, or none. *)
LEMMA ApplyInv ==
  ASSUME ConfigInv, NEW c, NEW b, NEW o, Whole(c, b, o), ApplyConfig(c, b, o),
         UNCHANGED <<override, read, staged>>, pc \in {"apply", "ready"}
  PROVE  ConfigInv'
<1>1. Filled(c) = c
  BY WholeFields, FilledSame DEF Whole
<1>2. CASE /\ Valid(Filled(c))
           /\ cfg' = Filled(c) /\ gen' = gen + 1 /\ base' = b /\ over' = o
           /\ last' = "applied" /\ pc' = "ready"
  <2>1. Whole(cfg', base', over') /\ Valid(cfg')
    BY <1>1, <1>2
  <2>2. gen \in Nat
    BY DEF ConfigInv
  <2>3. gen' \in Nat
    BY <1>2, <2>2
  <2> QED
    BY <1>2, <2>1, <2>3 DEF ConfigInv, LoadRefused
<1>3. CASE \E why \in {"invalid", "memory"} : Fail(why) /\ UNCHANGED <<cfg, gen, base, over>>
  <2>1. last' # "load" /\ pc' # "apply"
    BY <1>3 DEF Fail
  <2>2. UNCHANGED <<cfg, gen, base, over>>
    BY <1>3
  <2> QED
    BY <2>1, <2>2 DEF ConfigInv, LoadRefused
<1> QED
  BY <1>2, <1>3 DEF ApplyConfig, agentVars

(* A function of Lua changes the configuration in force. *)
LEMMA LuaSetInv ==
  ASSUME ConfigInv, NEW change, LuaSet(change), DOMAIN change \subseteq DOMAIN Defaults,
         \A f \in DOMAIN change : change[f] # 0 \/ f \notin {"spool_max_lines", "sample_interval_ms",
                                                             "demo_interval_ms", "probe_timeout_ms"}
  PROVE  ConfigInv'
<1>1. Whole(With(cfg, change), base, With(over, change))
  BY ChangeWhole DEF ConfigInv
<1> QED
  BY <1>1, ApplyInv DEF LuaSet, startVars

(* cpe.set_interval takes no zero. *)
LEMMA IntervalSet ==
  ASSUME SetInterval
  PROVE  \E ms : ms # 0 /\ LuaSet([demo_interval_ms |-> ms, sample_interval_ms |-> ms])
<1>1. PICK ms \in LuaNumbers \cap 1..LongestInterval :
        LuaSet([demo_interval_ms |-> ms, sample_interval_ms |-> ms])
  BY DEF SetInterval
<1>2. ms # 0
  OBVIOUS
<1> QED
  BY <1>1, <1>2

(* Every function of lua_bind.c that changes the configuration. *)
LEMMA LuaInv ==
  ASSUME ConfigInv, Lua
  PROVE  ConfigInv'
<1> DEFINE Zeros == {"spool_max_lines", "sample_interval_ms", "demo_interval_ms", "probe_timeout_ms"}
           Good(change) == /\ DOMAIN change \subseteq DOMAIN Defaults
                           /\ \A f \in DOMAIN change : change[f] # 0 \/ f \notin Zeros
<1>1. ASSUME NEW change, LuaSet(change), Good(change) PROVE ConfigInv'
  BY <1>1, LuaSetInv
<1>2. CASE LuaReload
  <2>1. PICK withPath \in BOOLEAN : ReloadConfig(withPath, "")
    BY <1>2 DEF LuaReload
  <2>2. "" \notin Long
    BY ConfigAssumption DEF ConfigAssumption
  <2> QED
    BY <2>1, <2>2, ReloadInv
<1>3. \A t : /\ Good([demo_target |-> t]) /\ Good([router_id |-> t])
             /\ Good([arping_if |-> t]) /\ Good([wifi_if |-> t])
  BY DefaultsFields
<1>4. CASE SetTarget \/ SetRouterId \/ SetIface \/ SetWifiIf
  <2>1. PICK t : \/ LuaSet([demo_target |-> t]) \/ LuaSet([router_id |-> t])
                 \/ LuaSet([arping_if |-> t]) \/ LuaSet([wifi_if |-> t])
    BY <1>4 DEF SetTarget, SetRouterId, SetIface, SetWifiIf
  <2> HIDE DEF Good
  <2> QED
    BY <1>1, <1>3, <2>1
<1>5. CASE SetInterval
  <2>1. PICK ms : ms # 0 /\ LuaSet([demo_interval_ms |-> ms, sample_interval_ms |-> ms])
    BY <1>5, IntervalSet
  <2>3. Good([demo_interval_ms |-> ms, sample_interval_ms |-> ms])
    BY <2>1, DefaultsFields
  <2> HIDE DEF Good
  <2> QED
    BY <1>1, <2>1, <2>3
<1>6. Good([demo_mode |-> FALSE])
  BY DefaultsFields
<1>7. CASE LiveSample
  <2>1. LuaSet([demo_mode |-> FALSE])
    BY <1>7 DEF LiveSample
  <2> HIDE DEF Good
  <2> QED
    BY <1>1, <1>6, <2>1
<1>8. CASE LivePing
  <2>1. \A t : Good([demo_target |-> t, demo_mode |-> FALSE])
    BY DefaultsFields
  <2>2. CASE LiveSample
    BY <1>7, <2>2
  <2>3. CASE \E t \in Short : LuaSet([demo_target |-> t, demo_mode |-> FALSE])
    <3> HIDE DEF Good
    <3> QED
      BY <1>1, <2>1, <2>3
  <2> QED
    BY <1>8, <2>2, <2>3 DEF LivePing
<1>9. CASE TcpOpen
  <2>1. Good([tcp_stats_enabled |-> TRUE])
    BY DefaultsFields
  <2>2. \A g : Good([tcp_stats_enabled |-> TRUE, tcp_nflog_group |-> g])
    BY DefaultsFields
  <2>3. PICK g : \/ LuaSet([tcp_stats_enabled |-> TRUE])
                 \/ LuaSet([tcp_stats_enabled |-> TRUE, tcp_nflog_group |-> g])
    BY <1>9 DEF TcpOpen
  <2> HIDE DEF Good
  <2> QED
    BY <1>1, <2>1, <2>2, <2>3
<1> QED
  BY <1>2, <1>4, <1>5, <1>7, <1>8, <1>9 DEF Lua

(* In every reachable state the configuration stands for a whole document: *)
(* induction over loads, reloads, edits of the file and changes from Lua.  *)
THEOREM ConfigInvariant == Spec => []ConfigInv
<1>1. Init => ConfigInv
  BY InitConfig
<1>2. ConfigInv /\ [Next]_vars => ConfigInv'
  <2> SUFFICES ASSUME ConfigInv, [Next]_vars PROVE ConfigInv'
    OBVIOUS
  <2>1. CASE EditFile
    BY <2>1 DEF EditFile, startVars, agentVars, ConfigInv, LoadRefused
  <2>2. CASE Start \/ HupReload
    BY <2>2, ReloadInv DEF Start, HupReload
  <2>3. CASE Apply
    BY <2>3, ApplyInv DEF Apply, startVars, ConfigInv
  <2>4. CASE Lua
    BY <2>4, LuaInv
  <2>5. CASE UNCHANGED vars
    BY <2>5 DEF vars, ConfigInv, LoadRefused
  <2> QED
    BY <2>1, <2>2, <2>3, <2>4, <2>5 DEF Next
<1> QED
  BY <1>1, <1>2, PTL DEF Spec

(* Whatever loads fail and whatever changes are rejected, the              *)
(* configuration in force is what one whole document means with the        *)
(* changes made since.                                                     *)
THEOREM ConfigIsMeaningHolds == Spec => []ConfigIsMeaning
<1>1. ConfigInv => ConfigIsMeaning
  BY DEF ConfigInv, Whole, ConfigIsMeaning
<1> QED
  BY <1>1, ConfigInvariant, PTL

(* A load is refused only for a cause, and no document with a cause for    *)
(* refusal is ever in force.                                               *)
THEOREM RefusedIffBadHolds == Spec => []RefusedIffBad
<1>1. ConfigInv => RefusedIffBad
  BY DEF ConfigInv, LoadRefused, Whole, RefusedIffBad
<1> QED
  BY <1>1, ConfigInvariant, PTL
=============================================================================
