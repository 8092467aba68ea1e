------------------------------ MODULE PolicyProofs ------------------------------
(***************************************************************************)
(* Proofs about Policy, for files of any length and any settings: what is  *)
(* named to be kept stays, a block keep_regex matches stays whole, the     *)
(* rule an explanation names is the rule that decided, and a rewrite       *)
(* leaves nothing to remove.                                               *)
(***************************************************************************)
EXTENDS Policy, FiniteSetTheorems, TLAPS

TypeOK ==
  /\ options \in Options
  /\ verdicts \in [DOMAIN file -> Verdict]
  /\ phase \in {"read", "scanned", "allowed", "styled", "dated"}

\* Before the rules about place are asked, a verdict has no shape and no pattern.
Early ==
  phase \in {"read", "scanned"} =>
    \A i \in DOMAIN file : verdicts[i].shape = "none" /\ verdicts[i].regex = 0

\* A verdict that stays and has no shape: no rule about place, length or age takes it.
Stays(v) == ~Removes(v) /\ v.shape = "none"

\* What becomes of a comment by itself.
ByItself(c) ==
  IF NamedOutright(c) \/ Protected(c) \/ (~ToRemove(c) /\ Keeps(options.policy, c.claimed))
  THEN "keep" ELSE "remove"

\* What a verdict records accounts for what it does; when it records nothing, the table of
\* rules does.
Accounts(c, v) ==
  /\ v.why = "style" <=> v.action = "rewrite"
  /\ v.shape # "none" => (~Removes(v) <=> v.shape = "tagged")
  /\ v.shape = "none" =>
       IF v.regex > 0 \/ v.why \in {"structural", "style"} THEN ~Removes(v)
       ELSE v.action = ByItself(c)

\* What is named or protected stays in every pass, and so does a comment of a block that
\* keep_regex matched.
Firm(c, matched, v) ==
  /\ NamedOutright(c) \/ Protected(c) => Stays(v)
  /\ matched => Stays(v) /\ (NamedOutright(c) \/ v.regex # 0)
  /\ Accounts(c, v)

AllFirm ==
  \A i \in DOMAIN file :
    Firm(file[i], phase \notin {"read", "scanned"} /\ Pattern(file, i) # 0, verdicts[i])

\* After the style rules, what stays as it is has nothing they would spell differently.
Spelled ==
  phase \in {"styled", "dated"} =>
    \A i \in DOMAIN file \ UNION runs :
      verdicts[i].action = "keep" /\ options.spell /\ file[i].claimed \in SubjectToStyle =>
        ~file[i].rough

IInv == TypeOK /\ Early /\ AllFirm /\ Spelled

-----------------------------------------------------------------------------
(* The table of rules.                                                      *)

\* The first rule that applies decides.
LEMMA FirstApplies ==
  ASSUME NEW n \in Nat, NEW rules, Len(rules) = n, NEW k \in 1..n, rules[k][1],
         \A j \in 1..(k - 1) : ~rules[j][1]
  PROVE  FirstRule(rules) = <<rules[k][2], rules[k][3]>>
<1> DEFINE I == {i \in 1..Len(rules) : rules[i][1]}
<1>1. k \in I OBVIOUS
<1>2. \A i \in I : i \in Nat /\ k <= i OBVIOUS
<1> HIDE DEF I
<1>3. Min(I) = k
  <2>1. \A i \in I : (\A j \in I : i <= j) => i = k BY <1>1, <1>2
  <2> QED BY <1>1, <1>2, <2>1 DEF Min
<1>4. SelectInSeq(rules, LAMBDA x : x[1]) = k BY <1>1, <1>3 DEF SelectInSeq, I
<1> QED BY <1>4 DEF FirstRule

\* The table keeps a comment when somebody names it or it is protected or, when it is not to
\* be removed, the policy keeps it.
LEMMA DispositionIs ==
  ASSUME NEW c
  PROVE  /\ Disposition(c)[1] = ByItself(c)
         /\ Disposition(c)[2] \in {"named", "protected", "removed", "policy"}
<1> DEFINE rules == << <<NamedOutright(c), "keep", "named">>,
                       <<Protected(c), "keep", "protected">>,
                       <<ToRemove(c), "remove", "removed">>,
                       <<Keeps(options.policy, c.claimed), "keep", "policy">>,
                       <<TRUE, "remove", "policy">> >>
<1>1. Disposition(c) = FirstRule(rules) BY DEF Disposition
<1>2. /\ Len(rules) = 5
      /\ rules[1][1] <=> NamedOutright(c)
      /\ rules[2][1] <=> Protected(c)
      /\ rules[3][1] <=> ToRemove(c)
      /\ rules[4][1] <=> Keeps(options.policy, c.claimed)
      /\ rules[5][1]
  OBVIOUS
<1>3. /\ rules[1][2] = "keep" /\ rules[1][3] = "named"
      /\ rules[2][2] = "keep" /\ rules[2][3] = "protected"
      /\ rules[3][2] = "remove" /\ rules[3][3] = "removed"
      /\ rules[4][2] = "keep" /\ rules[4][3] = "policy"
      /\ rules[5][2] = "remove" /\ rules[5][3] = "policy"
  OBVIOUS
<1> HIDE DEF rules
<1>4. ASSUME NEW k \in 1..5, rules[k][1], \A j \in 1..(k - 1) : ~rules[j][1]
      PROVE  Disposition(c) = <<rules[k][2], rules[k][3]>>
  BY <1>1, <1>2, <1>4, FirstApplies
<1>5. CASE NamedOutright(c)
  <2>1. Disposition(c) = <<rules[1][2], rules[1][3]>> BY <1>2, <1>4, <1>5
  <2> QED BY <1>3, <1>5, <2>1 DEF ByItself
<1>6. CASE ~NamedOutright(c) /\ Protected(c)
  <2>1. Disposition(c) = <<rules[2][2], rules[2][3]>> BY <1>2, <1>4, <1>6
  <2> QED BY <1>3, <1>6, <2>1 DEF ByItself
<1>7. CASE ~NamedOutright(c) /\ ~Protected(c) /\ ToRemove(c)
  <2>1. \A j \in 1..2 : ~rules[j][1] BY <1>2, <1>7
  <2>2. Disposition(c) = <<rules[3][2], rules[3][3]>> BY <1>2, <1>4, <1>7, <2>1
  <2> QED BY <1>3, <1>7, <2>2 DEF ByItself
<1>8. CASE /\ ~NamedOutright(c) /\ ~Protected(c) /\ ~ToRemove(c)
           /\ Keeps(options.policy, c.claimed)
  <2>1. \A j \in 1..3 : ~rules[j][1] BY <1>2, <1>8
  <2>2. Disposition(c) = <<rules[4][2], rules[4][3]>> BY <1>2, <1>4, <1>8, <2>1
  <2> QED BY <1>3, <1>8, <2>2 DEF ByItself
<1>9. CASE /\ ~NamedOutright(c) /\ ~Protected(c) /\ ~ToRemove(c)
           /\ ~Keeps(options.policy, c.claimed)
  <2>1. \A j \in 1..4 : ~rules[j][1] BY <1>2, <1>9
  <2>2. Disposition(c) = <<rules[5][2], rules[5][3]>> BY <1>2, <1>4, <1>9, <2>1
  <2> QED BY <1>3, <1>9, <2>2 DEF ByItself
<1> QED BY <1>5, <1>6, <1>7, <1>8, <1>9 DEF ByItself

\* The table an explanation asks again says what was decided.
LEMMA TableAgrees ==
  ASSUME TypeOK, NEW c
  PROVE  ExplainTable(c)[1] = Disposition(c)[1]
<1> DEFINE rules == << <<c.claimed \in options.keepKinds, "keep", "kept by kind">>,
                       <<Matches(c) # {}, "keep", "kept by regex">>,
                       <<Protected(c), "keep", "protected">>,
                       <<c.claimed \in options.removeKinds, "remove", "removed by kind">>,
                       <<options.removeRegex /\ c.dropped, "remove", "removed by regex">>,
                       <<options.policy = "all", "remove", "removed by policy">>,
                       <<c.claimed \in {"html-comment", "directive"}, "keep", "kept">>,
                       <<options.policy = "conservative"
                           /\ c.claimed \in {"license", "doc-line", "doc-block"}, "keep", "kept">>,
                       <<options.policy = "none", "keep", "kept by policy">>,
                       <<TRUE, "remove", "removed by default">> >>
<1>1. ExplainTable(c) = FirstRule(rules) BY DEF ExplainTable
<1>2. /\ Len(rules) = 10
      /\ rules[1][1] <=> c.claimed \in options.keepKinds
      /\ rules[2][1] <=> Matches(c) # {}
      /\ rules[3][1] <=> Protected(c)
      /\ rules[4][1] <=> c.claimed \in options.removeKinds
      /\ rules[5][1] <=> (options.removeRegex /\ c.dropped)
      /\ rules[6][1] <=> options.policy = "all"
      /\ rules[7][1] <=> c.claimed \in {"html-comment", "directive"}
      /\ rules[8][1] <=> (/\ options.policy = "conservative"
                          /\ c.claimed \in {"license", "doc-line", "doc-block"})
      /\ rules[9][1] <=> options.policy = "none"
      /\ rules[10][1]
  OBVIOUS
<1>3. /\ rules[1][2] = "keep"
      /\ rules[2][2] = "keep"
      /\ rules[3][2] = "keep"
      /\ rules[4][2] = "remove"
      /\ rules[5][2] = "remove"
      /\ rules[6][2] = "remove"
      /\ rules[7][2] = "keep"
      /\ rules[8][2] = "keep"
      /\ rules[9][2] = "keep"
      /\ rules[10][2] = "remove"
  OBVIOUS
<1> HIDE DEF rules
<1>4. ASSUME NEW k \in 1..10, rules[k][1], \A j \in 1..(k - 1) : ~rules[j][1]
      PROVE  ExplainTable(c)[1] = rules[k][2]
  <2>1. ExplainTable(c) = <<rules[k][2], rules[k][3]>> BY ZenonT(30), <1>1, <1>2, <1>4, FirstApplies
  <2> QED BY <2>1
<1>5. ASSUME rules[1][1] PROVE ExplainTable(c)[1] = "keep"
  BY <1>3, <1>4, <1>5
<1>6. ASSUME rules[2][1], ~rules[1][1] PROVE ExplainTable(c)[1] = "keep"
  BY <1>3, <1>4, <1>6
<1>7. ASSUME rules[3][1], \A j \in 1..2 : ~rules[j][1] PROVE ExplainTable(c)[1] = "keep"
  BY <1>3, <1>4, <1>7
<1>8. ASSUME rules[4][1], \A j \in 1..3 : ~rules[j][1] PROVE ExplainTable(c)[1] = "remove"
  BY <1>3, <1>4, <1>8
<1>9. ASSUME rules[5][1], \A j \in 1..4 : ~rules[j][1] PROVE ExplainTable(c)[1] = "remove"
  BY <1>3, <1>4, <1>9
<1>10. ASSUME rules[6][1], \A j \in 1..5 : ~rules[j][1] PROVE ExplainTable(c)[1] = "remove"
  BY <1>3, <1>4, <1>10
<1>11. ASSUME rules[7][1], \A j \in 1..6 : ~rules[j][1] PROVE ExplainTable(c)[1] = "keep"
  BY <1>3, <1>4, <1>11
<1>12. ASSUME rules[8][1], \A j \in 1..7 : ~rules[j][1] PROVE ExplainTable(c)[1] = "keep"
  BY <1>3, <1>4, <1>12
<1>13. ASSUME rules[9][1], \A j \in 1..8 : ~rules[j][1] PROVE ExplainTable(c)[1] = "keep"
  BY <1>3, <1>4, <1>13
<1>14. ASSUME rules[10][1], \A j \in 1..9 : ~rules[j][1] PROVE ExplainTable(c)[1] = "remove"
  BY <1>3, <1>4, <1>14
<1>15. options.policy \in {"none", "conservative", "standard", "all"} BY DEF TypeOK, Options
<1>16. ExplainTable(c)[1] = ByItself(c)
  BY <1>2, <1>5, <1>6, <1>7, <1>8, <1>9, <1>10, <1>11, <1>12, <1>13, <1>14, <1>15
     DEF ByItself, NamedOutright, ToRemove, Keeps
<1> QED BY <1>16, DispositionIs

-----------------------------------------------------------------------------
(* The passes, one comment at a time.                                       *)

\* A comment's own verdict has no shape and accounts for itself.
LEMMA ClaimIsFirm ==
  ASSUME NEW c
  PROVE  /\ Claim(c) \in Verdict /\ Claim(c).shape = "none" /\ Claim(c).regex = 0
         /\ Firm(c, FALSE, Claim(c))
<1>1. /\ Disposition(c)[1] \in {"keep", "remove"}
      /\ Disposition(c)[2] \in {"named", "protected", "removed", "policy"}
      /\ Disposition(c)[1] = ByItself(c)
      /\ NamedOutright(c) \/ Protected(c) => ByItself(c) = "keep"
  BY DispositionIs DEF ByItself
<1>2. /\ Claim(c).action = Disposition(c)[1] /\ Claim(c).why = Disposition(c)[2]
      /\ Claim(c).shape = "none" /\ Claim(c).regex = 0
  BY DEF Claim
<1>3. Claim(c) \in Verdict BY <1>1 DEF Claim, Verdict, Why
<1> QED BY <1>1, <1>2, <1>3 DEF Firm, Stays, Accounts, Removes

\* What a pass after the blocks may do to a verdict.
Moves(c, v, w) ==
  \/ w = v
  \/ Removes(v) /\ w = Decide(v, "keep", "tagged")
  \/ Reachable(c, v) /\ \E shape \in {"trailing", "long"} : w = Decide(v, "remove", shape)
  \/ v.action = "keep" /\ w = [v EXCEPT !.action = "rewrite", !.why = "style"]
  \/ v.shape = "tagged" /\ w = Decide(v, "remove", "expired")

\* None of it shakes a verdict.
LEMMA Onward ==
  ASSUME NEW c, NEW matched \in BOOLEAN, NEW v \in Verdict, Firm(c, matched, v),
         NEW w, Moves(c, v, w)
  PROVE  w \in Verdict /\ w.regex = v.regex /\ Firm(c, matched, w)
<1>1. CASE w = v BY <1>1
<1>2. CASE Removes(v) /\ w = Decide(v, "keep", "tagged")
  <2>1. /\ w \in Verdict /\ w.action = "keep" /\ w.why = "tagged" /\ w.shape = "tagged"
        /\ w.regex = v.regex
    BY <1>2 DEF Decide, Verdict, Why
  <2> QED BY <1>2, <2>1 DEF Firm, Stays, Accounts, Removes
<1>3. ASSUME Reachable(c, v), NEW shape \in {"trailing", "long"}, w = Decide(v, "remove", shape)
      PROVE  w \in Verdict /\ w.regex = v.regex /\ Firm(c, matched, w)
  <2>1. /\ w \in Verdict /\ w.action = "remove" /\ w.why = shape /\ w.shape = shape
        /\ w.regex = v.regex
    BY <1>3 DEF Decide, Verdict, Why
  <2>2. ~NamedOutright(c) /\ ~Protected(c) /\ v.regex = 0
    BY <1>3 DEF Reachable, Protected, SubjectToShape, Protection, Preamble
  <2> QED BY <2>1, <2>2 DEF Firm, Accounts, Removes
<1>4. CASE v.action = "keep" /\ w = [v EXCEPT !.action = "rewrite", !.why = "style"]
  <2>1. /\ w \in Verdict /\ w.action = "rewrite" /\ w.why = "style" /\ w.shape = v.shape
        /\ w.regex = v.regex
    BY <1>4 DEF Verdict, Why
  <2> QED BY <1>4, <2>1 DEF Firm, Stays, Accounts, Removes
<1>5. CASE v.shape = "tagged" /\ w = Decide(v, "remove", "expired")
  <2>1. /\ w \in Verdict /\ w.action = "remove" /\ w.why = "expired" /\ w.shape = "expired"
        /\ w.regex = v.regex
    BY <1>5 DEF Decide, Verdict, Why
  <2> QED BY <1>5, <2>1 DEF Firm, Stays, Accounts, Removes
<1> QED BY <1>1, <1>2, <1>3, <1>4, <1>5 DEF Moves

\* Under the same settings a verdict is as firm in the next state.
LEMMA FirmNext ==
  ASSUME UNCHANGED options,
         \A i \in DOMAIN file' :
           Firm(file'[i], phase' \notin {"read", "scanned"} /\ Pattern(file', i) # 0, verdicts'[i])
  PROVE  AllFirm'
<1>1. \A c : (NamedOutright(c) \/ Protected(c))' <=> (NamedOutright(c) \/ Protected(c))
  BY DEF NamedOutright, Protected, Matches
<1>2. \A c : NamedOutright(c)' <=> NamedOutright(c)
  BY DEF NamedOutright, Matches
<1>3. \A c : ByItself(c)' = ByItself(c)
  BY DEF ByItself, NamedOutright, Protected, Matches, ToRemove, Keeps
<1>4. \A f, i : Pattern(f, i)' = Pattern(f, i)
  BY DEF Pattern, Matches
<1>5. \A c, m, v : Firm(c, m, v)' <=> Firm(c, m, v)
  BY <1>1, <1>2, <1>3 DEF Firm, Stays, Accounts, Removes
<1> QED BY <1>4, <1>5 DEF AllFirm, Firm

\* The pattern a block was matched by is one of those of the settings, or there is none.
LEMMA PatternIs ==
  ASSUME TypeOK, NEW f, NEW i
  PROVE  /\ Pattern(f, i) \in 0..2
         /\ (\E j \in Block(f, i) : Matches(f[j]) # {}) => Pattern(f, i) # 0
<1> DEFINE hits == UNION {Matches(f[j]) : j \in Block(f, i)}
<1>1. options.keepRegex \in 0..2 BY DEF TypeOK, Options
<1>2. \A c : Matches(c) \subseteq {1, 2} BY <1>1 DEF Matches
<1>3. hits \subseteq {1, 2} /\ (hits = {} <=> \A j \in Block(f, i) : Matches(f[j]) = {})
  BY <1>2
<1>4. Pattern(f, i) = IF hits = {} THEN 0 ELSE Min(hits) BY DEF Pattern
<1> HIDE DEF hits
<1>5. ASSUME hits # {} PROVE Min(hits) \in {1, 2}
  <2>1. \E x \in hits : \A y \in hits : x <= y
    <3>1. CASE 1 \in hits BY <1>3, <3>1
    <3>2. CASE 1 \notin hits
      <4>1. hits = {2} BY <1>3, <1>5, <3>2
      <4> QED BY <4>1
    <3> QED BY <3>1, <3>2
  <2>2. Min(hits) \in hits BY <2>1 DEF Min
  <2> QED BY <1>3, <2>2
<1> QED BY <1>3, <1>4, <1>5

\* The first pass keeps comments under a block scalar and touches nothing else.
LEMMA TrailsAreFirm ==
  ASSUME NEW f, NEW vs \in [DOMAIN f -> Verdict],
         \A i \in DOMAIN f : /\ vs[i].shape = "none" /\ vs[i].regex = 0
                            /\ Firm(f[i], FALSE, vs[i])
  PROVE  /\ KeepTrails(f, vs) \in [DOMAIN f -> Verdict]
         /\ \A i \in DOMAIN f :
              /\ KeepTrails(f, vs)[i].shape = "none" /\ KeepTrails(f, vs)[i].regex = 0
              /\ Firm(f[i], FALSE, KeepTrails(f, vs)[i])
<1> DEFINE ws == KeepTrails(f, vs)
<1>1. /\ ws = [i \in DOMAIN f |-> ws[i]]
      /\ \A i \in DOMAIN f : \/ ws[i] = vs[i]
                             \/ ws[i] = [vs[i] EXCEPT !.action = "keep", !.why = "structural"]
  BY DEF KeepTrails
<1> HIDE DEF ws
<1>2. ASSUME NEW i \in DOMAIN f
      PROVE  /\ ws[i] \in Verdict /\ ws[i].shape = "none" /\ ws[i].regex = 0
             /\ Firm(f[i], FALSE, ws[i])
  <2>1. CASE ws[i] = vs[i] BY <2>1
  <2>2. CASE ws[i] = [vs[i] EXCEPT !.action = "keep", !.why = "structural"]
    <3>1. /\ ws[i] \in Verdict /\ ws[i].action = "keep" /\ ws[i].why = "structural"
          /\ ws[i].shape = "none" /\ ws[i].regex = 0
      BY ZenonT(30), <2>2 DEF Verdict, Why
    <3> QED BY <3>1 DEF Firm, Stays, Accounts, Removes
  <2> QED BY <1>1, <2>1, <2>2
<1>3. ws \in [DOMAIN f -> Verdict] BY <1>1, <1>2
<1> QED BY <1>2, <1>3 DEF ws

\* A block keep_regex matched is firm as soon as the blocks are kept.
LEMMA BlocksAreFirm ==
  ASSUME TypeOK, NEW f, NEW vs \in [DOMAIN f -> Verdict],
         \A i \in DOMAIN f : /\ vs[i].shape = "none" /\ vs[i].regex = 0
                            /\ Firm(f[i], FALSE, vs[i])
  PROVE  /\ KeepBlocks(f, vs) \in [DOMAIN f -> Verdict]
         /\ \A i \in DOMAIN f : Firm(f[i], Pattern(f, i) # 0, KeepBlocks(f, vs)[i])
<1> DEFINE ws == KeepBlocks(f, vs)
<1>1. /\ ws = [i \in DOMAIN f |-> ws[i]]
      /\ \A i \in DOMAIN f :
           ws[i] = IF Pattern(f, i) = 0 \/ NamedOutright(f[i]) THEN vs[i]
                   ELSE [vs[i] EXCEPT !.action = "keep", !.why = "block", !.regex = Pattern(f, i)]
  BY DEF KeepBlocks
<1> HIDE DEF ws
<1>2. ASSUME NEW i \in DOMAIN f
      PROVE  ws[i] \in Verdict /\ Firm(f[i], Pattern(f, i) # 0, ws[i])
  <2>1. CASE Pattern(f, i) = 0 \/ NamedOutright(f[i])
    <3>1. ws[i] = vs[i] BY <1>1, <2>1
    <3> QED BY <2>1, <3>1 DEF Firm
  <2>2. CASE Pattern(f, i) # 0 /\ ~NamedOutright(f[i])
    <3>1. ws[i] = [vs[i] EXCEPT !.action = "keep", !.why = "block", !.regex = Pattern(f, i)]
      BY <1>1, <2>2
    <3>2. Pattern(f, i) \in 1..2
      <4>1. Pattern(f, i) \in 0..2 BY PatternIs
      <4> QED BY <2>2, <4>1
    <3> DEFINE n == Pattern(f, i)
               v == vs[i]
               w == ws[i]
    <3>3. v \in Verdict /\ v.shape = "none" /\ n \in {1, 2}
      <4>1. n \in {1, 2}
        <5> HIDE DEF n
        <5>1. n \in 1..2 BY <3>2 DEF n
        <5> QED BY <5>1
      <4> QED BY <4>1
    <3>4. w = [v EXCEPT !.action = "keep", !.why = "block", !.regex = n] BY <3>1
    <3>5. /\ w \in Verdict /\ w.action = "keep" /\ w.why = "block"
          /\ w.shape = "none" /\ w.regex \in {1, 2}
      <4> HIDE DEF n, v, w
      <4>1. w.action = "keep" /\ w.why = "block" /\ w.regex = n /\ w.shape = v.shape
        BY <3>3, <3>4 DEF Verdict
      <4>2. w = [action |-> "keep", why |-> "block", shape |-> v.shape, regex |-> n]
        BY <3>3, <3>4 DEF Verdict
      <4>3. n \in 0..2 BY <3>3
      <4>4. w \in Verdict BY <3>3, <4>2, <4>3 DEF Verdict, Why
      <4> QED BY <3>3, <4>1, <4>4
    <3>6. w.regex > 0 /\ w.regex # 0 BY <3>5
    <3> QED BY <3>5, <3>6 DEF Firm, Stays, Accounts, Removes
  <2> QED BY <2>1, <2>2
<1>3. ws \in [DOMAIN f -> Verdict] BY <1>1, <1>2
<1> QED BY <1>2, <1>3 DEF ws

\* A pass after that moves every verdict by itself.
LEMMA PassIsFirm ==
  ASSUME NEW f, NEW vs \in [DOMAIN f -> Verdict],
         \A i \in DOMAIN f : Firm(f[i], Pattern(f, i) # 0, vs[i]),
         NEW ws, ws = [i \in DOMAIN f |-> ws[i]], \A i \in DOMAIN f : Moves(f[i], vs[i], ws[i])
  PROVE  /\ ws \in [DOMAIN f -> Verdict]
         /\ \A i \in DOMAIN f : Firm(f[i], Pattern(f, i) # 0, ws[i])
<1>1. ASSUME NEW i \in DOMAIN f
      PROVE  ws[i] \in Verdict /\ Firm(f[i], Pattern(f, i) # 0, ws[i])
  <2> DEFINE matched == Pattern(f, i) # 0
  <2>1. matched \in BOOLEAN OBVIOUS
  <2>2. Firm(f[i], matched, vs[i]) /\ vs[i] \in Verdict /\ Moves(f[i], vs[i], ws[i]) OBVIOUS
  <2> HIDE DEF matched
  <2>3. ws[i] \in Verdict /\ Firm(f[i], matched, ws[i]) BY <2>1, <2>2, Onward
  <2> QED BY <2>3 DEF matched
<1> QED BY <1>1

-----------------------------------------------------------------------------
(* The steps.                                                               *)

\* A file is read with every verdict its own.
LEMMA Read ==
  ASSUME NEW f, NEW vs, vs = [i \in DOMAIN f |-> Claim(f[i])]
  PROVE  /\ vs \in [DOMAIN f -> Verdict]
         /\ \A i \in DOMAIN f : /\ vs[i].shape = "none" /\ vs[i].regex = 0
                               /\ Firm(f[i], FALSE, vs[i])
BY ClaimIsFirm

\* The rules about place leave every verdict firm, the blocks' included.
LEMMA AllowedIsFirm ==
  ASSUME TypeOK, NEW f, NEW vs \in [DOMAIN f -> Verdict],
         \A i \in DOMAIN f : /\ vs[i].shape = "none" /\ vs[i].regex = 0
                            /\ Firm(f[i], FALSE, vs[i])
  PROVE  /\ ApplyAllowRules(f, vs) \in [DOMAIN f -> Verdict]
         /\ \A i \in DOMAIN f : Firm(f[i], Pattern(f, i) # 0, ApplyAllowRules(f, vs)[i])
<1> DEFINE kept == KeepBlocks(f, vs)
           tagged == KeepTagged(f, kept)
           beside == RemoveTrailing(f, tagged)
           short == RemoveLong(f, beside)
           Sound(ws) == /\ ws \in [DOMAIN f -> Verdict]
                        /\ \A i \in DOMAIN f : Firm(f[i], Pattern(f, i) # 0, ws[i])
<1>1. Sound(kept) BY BlocksAreFirm
<1> HIDE DEF kept
<1>2. Sound(tagged)
  <2>1. DOMAIN kept = DOMAIN f BY <1>1
  <2>2. /\ tagged = [i \in DOMAIN f |-> tagged[i]]
        /\ \A i \in DOMAIN f : \/ tagged[i] = kept[i]
                               \/ Removes(kept[i]) /\ tagged[i] = Decide(kept[i], "keep", "tagged")
    BY <2>1 DEF KeepTagged
  <2> HIDE DEF tagged
  <2>3. \A i \in DOMAIN f : Moves(f[i], kept[i], tagged[i]) BY <2>2 DEF Moves
  <2> QED BY <1>1, <2>2, <2>3, PassIsFirm
<1> HIDE DEF tagged
<1>3. Sound(beside)
  <2>1. DOMAIN tagged = DOMAIN f BY <1>2
  <2>2. /\ beside = [i \in DOMAIN f |-> beside[i]]
        /\ \A i \in DOMAIN f :
             \/ beside[i] = tagged[i]
             \/ Reachable(f[i], tagged[i]) /\ beside[i] = Decide(tagged[i], "remove", "trailing")
    BY <2>1 DEF RemoveTrailing
  <2> HIDE DEF beside
  <2>3. \A i \in DOMAIN f : Moves(f[i], tagged[i], beside[i]) BY <2>2 DEF Moves
  <2> QED BY <1>2, <2>2, <2>3, PassIsFirm
<1> HIDE DEF beside
<1>4. Sound(short)
  <2>1. DOMAIN beside = DOMAIN f BY <1>3
  <2>2. /\ short = [i \in DOMAIN f |-> short[i]]
        /\ \A i \in DOMAIN f :
             \/ short[i] = beside[i]
             \/ Reachable(f[i], beside[i]) /\ short[i] = Decide(beside[i], "remove", "long")
    BY <2>1 DEF RemoveLong
  <2> HIDE DEF short
  <2>3. \A i \in DOMAIN f : Moves(f[i], beside[i], short[i]) BY <2>2 DEF Moves
  <2> QED BY <1>3, <2>2, <2>3, PassIsFirm
<1>5. ApplyAllowRules(f, vs) = IF options.policy = "none" THEN kept ELSE short
  BY DEF ApplyAllowRules, kept, tagged, beside
<1> HIDE DEF short
<1> QED BY <1>1, <1>4, <1>5

\* Every pass keeps the invariant, and a rewrite begins it again.
LEMMA FirmStep ==
  ASSUME IInv, [Next]_vars PROVE IInv'
<1>0. TypeOK /\ Early /\ AllFirm /\ Spelled BY DEF IInv
<1>1. ASSUME FinishScan \/ Allow
      PROVE  /\ verdicts \in [DOMAIN file -> Verdict]
             /\ \A i \in DOMAIN file : /\ verdicts[i].shape = "none" /\ verdicts[i].regex = 0
                                      /\ Firm(file[i], FALSE, verdicts[i])
  <2>1. phase \in {"read", "scanned"} BY <1>1 DEF FinishScan, Allow
  <2> QED BY <1>0, <2>1 DEF TypeOK, Early, AllFirm, Firm
<1>2. ASSUME ApplyStyle \/ ApplyDeadlines
      PROVE  /\ verdicts \in [DOMAIN file -> Verdict]
             /\ \A i \in DOMAIN file : Firm(file[i], Pattern(file, i) # 0, verdicts[i])
  <2>1. phase \notin {"read", "scanned"} BY <1>2 DEF ApplyStyle, ApplyDeadlines
  <2> QED BY <1>0, <2>1 DEF TypeOK, AllFirm, Firm
<1>3. CASE FinishScan
  <2>1. /\ verdicts' = KeepTrails(file, verdicts) /\ phase' = "scanned"
        /\ UNCHANGED <<file, options>>
    BY <1>3 DEF FinishScan
  <2>2. /\ verdicts' \in [DOMAIN file -> Verdict]
        /\ \A i \in DOMAIN file : /\ verdicts'[i].shape = "none" /\ verdicts'[i].regex = 0
                                 /\ Firm(file[i], FALSE, verdicts'[i])
    BY <1>1, <1>3, <2>1, TrailsAreFirm
  <2>3. TypeOK' /\ Early' /\ Spelled' BY <1>0, <2>1, <2>2 DEF TypeOK, Early, Spelled
  <2>4. AllFirm' BY <2>1, <2>2, FirmNext DEF Firm
  <2> QED BY <2>3, <2>4 DEF IInv
<1>4. CASE Allow
  <2>1. /\ verdicts' = ApplyAllowRules(file, verdicts) /\ phase' = "allowed"
        /\ UNCHANGED <<file, options>>
    BY <1>4 DEF Allow
  <2>2. /\ verdicts' \in [DOMAIN file -> Verdict]
        /\ \A i \in DOMAIN file : Firm(file[i], Pattern(file, i) # 0, verdicts'[i])
    BY <1>0, <1>1, <1>4, <2>1, AllowedIsFirm
  <2>3. TypeOK' /\ Early' /\ Spelled' BY <1>0, <2>1, <2>2 DEF TypeOK, Early, Spelled
  <2>4. AllFirm' BY <2>1, <2>2, FirmNext DEF Firm
  <2> QED BY <2>3, <2>4 DEF IInv
<1>5. CASE ApplyStyle
  <2>1. /\ verdicts' = Restyle(file, verdicts, runs') /\ phase' = "styled"
        /\ UNCHANGED <<file, options>>
    BY <1>5 DEF ApplyStyle
  <2>2. /\ verdicts' = [i \in DOMAIN file |-> verdicts'[i]]
        /\ \A i \in DOMAIN file :
             verdicts'[i] = IF /\ options.spell /\ file[i].rough /\ file[i].claimed \in SubjectToStyle
                               /\ verdicts[i].action = "keep" /\ i \notin UNION runs'
                            THEN [verdicts[i] EXCEPT !.action = "rewrite", !.why = "style"]
                            ELSE verdicts[i]
    BY <1>2, <1>5, <2>1 DEF Restyle
  <2>3. \A i \in DOMAIN file : Moves(file[i], verdicts[i], verdicts'[i]) BY <2>2 DEF Moves
  <2>4. /\ verdicts' \in [DOMAIN file -> Verdict]
        /\ \A i \in DOMAIN file : Firm(file[i], Pattern(file, i) # 0, verdicts'[i])
    BY <1>2, <1>5, <2>2, <2>3, PassIsFirm
  <2>5. TypeOK' /\ Early' BY <1>0, <2>1, <2>4 DEF TypeOK, Early
  <2>6. Spelled'
    <3>1. ASSUME NEW i \in DOMAIN file \ UNION runs', verdicts'[i].action = "keep", options.spell,
                 file[i].claimed \in SubjectToStyle, file[i].rough
          PROVE  FALSE
      <4>1. verdicts[i] \in Verdict BY <1>2, <1>5
      <4>2. CASE verdicts[i].action = "keep"
        <5>1. verdicts'[i] = [verdicts[i] EXCEPT !.action = "rewrite", !.why = "style"]
          BY <2>2, <3>1, <4>2
        <5> QED BY <3>1, <4>1, <5>1 DEF Verdict
      <4>3. CASE verdicts[i].action # "keep" BY <2>2, <3>1, <4>3
      <4> QED BY <4>2, <4>3
    <3> QED BY <2>1, <3>1 DEF Spelled
  <2>7. AllFirm' BY <2>1, <2>4, FirmNext DEF Firm
  <2> QED BY <2>5, <2>6, <2>7 DEF IInv
<1>6. CASE ApplyDeadlines
  <2>1. /\ verdicts' = Date(file, verdicts) /\ phase = "styled" /\ phase' = "dated"
        /\ UNCHANGED <<file, options, runs>>
    BY <1>6 DEF ApplyDeadlines
  <2>2. /\ verdicts' = [i \in DOMAIN file |-> verdicts'[i]]
        /\ \A i \in DOMAIN file :
             \/ verdicts'[i] = verdicts[i]
             \/ verdicts[i].shape = "tagged" /\ verdicts'[i] = Decide(verdicts[i], "remove", "expired")
    BY <1>2, <1>6, <2>1 DEF Date, Overdue
  <2>3. \A i \in DOMAIN file : Moves(file[i], verdicts[i], verdicts'[i]) BY <2>2 DEF Moves
  <2>4. /\ verdicts' \in [DOMAIN file -> Verdict]
        /\ \A i \in DOMAIN file : Firm(file[i], Pattern(file, i) # 0, verdicts'[i])
    BY <1>2, <1>6, <2>2, <2>3, PassIsFirm
  <2>5. TypeOK' /\ Early' BY <1>0, <2>1, <2>4 DEF TypeOK, Early
  <2>6. Spelled'
    <3>1. \A i \in DOMAIN file : verdicts'[i].action = "keep" => verdicts'[i] = verdicts[i]
      BY ZenonT(30), <1>2, <1>6, <2>2 DEF Decide, Verdict
    <3> QED BY <1>0, <2>1, <3>1 DEF Spelled
  <2>7. AllFirm' BY <2>1, <2>4, FirmNext DEF Firm
  <2> QED BY <2>5, <2>6, <2>7 DEF IInv
<1>7. CASE Rescan
  <2>1. /\ verdicts' = [i \in DOMAIN file' |-> Claim(file'[i])] /\ phase' = "read"
        /\ UNCHANGED options
    BY <1>7 DEF Rescan
  <2>2. /\ verdicts' \in [DOMAIN file' -> Verdict]
        /\ \A i \in DOMAIN file' : /\ verdicts'[i].shape = "none" /\ verdicts'[i].regex = 0
                                  /\ Firm(file'[i], FALSE, verdicts'[i])
    BY <2>1, Read
  <2>3. TypeOK' /\ Early' /\ Spelled' BY <1>0, <2>1, <2>2 DEF TypeOK, Early, Spelled
  <2>4. AllFirm' BY <2>1, <2>2, FirmNext DEF Firm
  <2> QED BY <2>3, <2>4 DEF IInv
<1>8. CASE UNCHANGED vars
  <2>1. UNCHANGED <<file, options, verdicts, runs, phase>> BY <1>8 DEF vars
  <2>2. TypeOK' /\ Early' /\ Spelled' BY <1>0, <2>1 DEF TypeOK, Early, Spelled
  <2>3. AllFirm' BY <1>0, <2>1, FirmNext DEF AllFirm
  <2> QED BY <2>2, <2>3 DEF IInv
<1> QED BY <1>3, <1>4, <1>5, <1>6, <1>7, <1>8 DEF Next

\* Every verdict is firm in every state.
LEMMA FirmAlways == Spec => []IInv
<1>1. Init => IInv
  <2>1. SUFFICES ASSUME Init PROVE IInv OBVIOUS
  <2>2. options \in Options BY <2>1, ScenesAssumption DEF Init
  <2>3. verdicts = [i \in DOMAIN file |-> Claim(file[i])] /\ phase = "read" BY <2>1 DEF Init
  <2>4. /\ verdicts \in [DOMAIN file -> Verdict]
        /\ \A i \in DOMAIN file : /\ verdicts[i].shape = "none" /\ verdicts[i].regex = 0
                                 /\ Firm(file[i], FALSE, verdicts[i])
    BY <2>3, Read
  <2> QED BY <2>2, <2>3, <2>4 DEF IInv, TypeOK, Early, AllFirm, Spelled, Firm
<1>2. IInv /\ [Next]_vars => IInv' BY FirmStep
<1> QED BY <1>1, <1>2, PTL DEF Spec

-----------------------------------------------------------------------------
(* Places in order.                                                        *)

\* A set of places in order: each place of the set once, from the first to the last.
LEMMA InOrderIs ==
  ASSUME NEW n \in Nat, NEW S \in SUBSET (1..n)
  PROVE  /\ Cardinality(S) \in Nat /\ DOMAIN InOrder(S) = 1..Cardinality(S)
         /\ \A k \in 1..Cardinality(S) : InOrder(S)[k] \in S
         /\ \A k, l \in 1..Cardinality(S) : k < l => InOrder(S)[k] < InOrder(S)[l]
         /\ \A i \in S : \E k \in 1..Cardinality(S) : InOrder(S)[k] = i
<1> DEFINE c == Cardinality(S)
           upto(i) == {j \in S : j <= i}
           rank(i) == Cardinality(upto(i))
           r == [i \in S |-> rank(i)]
           q == InOrder(S)
<1>1. IsFiniteSet(S) /\ c \in Nat
  <2>1. IsFiniteSet(1..n) BY FS_Interval
  <2>2. IsFiniteSet(S) BY <2>1, FS_Subset
  <2> QED BY <2>2, FS_CardinalityType
<1>2. ASSUME NEW i \in S
      PROVE  IsFiniteSet(upto(i)) /\ rank(i) \in 1..c
  <2>1. IsFiniteSet(upto(i)) /\ rank(i) <= c BY <1>1, FS_Subset
  <2>2. rank(i) \in Nat BY <2>1, FS_CardinalityType
  <2>3. i \in upto(i) OBVIOUS
  <2>4. rank(i) # 0 BY <2>1, <2>3, FS_EmptySet
  <2> HIDE DEF rank, upto, c
  <2> QED BY <1>1, <2>1, <2>2, <2>4
<1>3. ASSUME NEW i \in S, NEW j \in S, i < j
      PROVE  rank(i) < rank(j)
  <2>1. upto(i) \subseteq upto(j) /\ j \in upto(j) /\ j \notin upto(i)
    <3>1. \A x \in S : x \in Int OBVIOUS
    <3>2. i \in Int /\ j \in Int /\ ~(j <= i) /\ j <= j BY <1>3, <3>1
    <3>3. \A x \in S : x <= i => x <= j BY <1>3, <3>1, <3>2
    <3> QED BY <3>2, <3>3
  <2>2. IsFiniteSet(upto(j)) /\ IsFiniteSet(upto(i)) BY <1>2
  <2>3. rank(i) <= rank(j) /\ rank(i) # rank(j) BY <2>1, <2>2, FS_Subset
  <2>4. rank(i) \in 1..c /\ rank(j) \in 1..c BY <1>2
  <2> HIDE DEF rank, upto, c
  <2> QED BY <1>1, <2>3, <2>4
<1> HIDE DEF rank, upto
<1>4. \A i, j \in S : rank(i) = rank(j) => i = j BY <1>1, <1>2, <1>3
<1>5. r \in Injection(S, 1..c) BY <1>2, <1>4 DEF Injection, IsInjective
<1>6. \A k \in 1..c : \E i \in S : rank(i) = k
  <2>1. IsFiniteSet(1..c) /\ Cardinality(1..c) = c BY <1>1, FS_Interval
  <2>2. r \in Surjection(S, 1..c) BY <1>5, <2>1, FS_Injection
  <2> QED BY <2>2 DEF Surjection
<1>7. q = [k \in 1..c |-> CHOOSE i \in S : rank(i) = k] BY DEF InOrder, rank, upto
<1> HIDE DEF q, c, r
<1>8. \A k \in 1..c : q[k] \in S /\ rank(q[k]) = k BY <1>6, <1>7
<1>9. \A k, l \in 1..c : k < l => q[k] < q[l]
  <2>1. SUFFICES ASSUME NEW k \in 1..c, NEW l \in 1..c, k < l PROVE q[k] < q[l] OBVIOUS
  <2>2. q[k] \in S /\ q[l] \in S /\ rank(q[k]) = k /\ rank(q[l]) = l BY <1>8
  <2>3. q[k] \in Nat /\ q[l] \in Nat
    <3>1. \A x \in S : x \in Nat OBVIOUS
    <3> QED BY <2>2, <3>1
  <2>4. ~(q[l] < q[k])
    <3>1. q[l] < q[k] => rank(q[l]) < rank(q[k]) BY <1>3, <2>2
    <3>2. k \in Nat /\ l \in Nat BY <1>1
    <3> QED BY <2>1, <2>2, <3>1, <3>2
  <2>5. q[k] # q[l] BY <1>1, <2>1, <2>2
  <2> QED BY <2>3, <2>4, <2>5
<1>10. \A i \in S : \E k \in 1..c : q[k] = i
  <2>1. SUFFICES ASSUME NEW i \in S PROVE q[rank(i)] = i BY <1>2
  <2>2. rank(i) \in 1..c BY <1>2
  <2>3. q[rank(i)] \in S /\ rank(q[rank(i)]) = rank(i) BY <1>8, <2>2
  <2> QED BY <1>4, <2>3
<1>11. DOMAIN q = 1..c BY <1>7
<1> QED BY <1>1, <1>8, <1>9, <1>10, <1>11 DEF q, c

\* A non-empty set of places has a first and a last.
LEMMA Ends ==
  ASSUME NEW n \in Nat, NEW S \in SUBSET (1..n), S # {}
  PROVE  /\ Min(S) \in S /\ \A i \in S : Min(S) <= i
         /\ Max(S) \in S /\ \A i \in S : i <= Max(S)
<1> DEFINE c == Cardinality(S)
           q == InOrder(S)
<1>1. /\ c \in Nat /\ \A k \in 1..c : q[k] \in S
      /\ \A k, l \in 1..c : k < l => q[k] < q[l]
      /\ \A i \in S : \E k \in 1..c : q[k] = i
  BY InOrderIs
<1> HIDE DEF c, q
<1>2. 1 \in 1..c /\ c \in 1..c
  <2>1. PICK i \in S : TRUE OBVIOUS
  <2>2. PICK k \in 1..c : q[k] = i BY <1>1
  <2> QED BY <1>1, <2>2
<1>3. \A x \in S : x \in Int OBVIOUS
<1>4. ASSUME NEW i \in S PROVE q[1] <= i /\ i <= q[c]
  <2>1. PICK k \in 1..c : q[k] = i BY <1>1
  <2>2. k = 1 \/ 1 < k BY <1>1
  <2>3. k = c \/ k < c BY <1>1
  <2>4. q[1] \in Int /\ q[c] \in Int /\ i \in Int BY <1>1, <1>2, <1>3
  <2>5. q[1] = i \/ q[1] < i BY <1>1, <1>2, <2>1, <2>2
  <2>6. q[c] = i \/ i < q[c] BY <1>1, <1>2, <2>1, <2>3
  <2> QED BY <2>4, <2>5, <2>6
<1>5. q[1] \in S /\ q[c] \in S BY <1>1, <1>2
<1>6. Min(S) \in S /\ \A i \in S : Min(S) <= i BY <1>4, <1>5 DEF Min
<1>7. Max(S) \in S /\ \A i \in S : i <= Max(S) BY <1>4, <1>5 DEF Max
<1> QED BY <1>6, <1>7

-----------------------------------------------------------------------------
(* What the passes before the style rules leave of a file.                 *)

\* The verdicts of a file after each pass before the style rules.
Claims(f)  == [i \in DOMAIN f |-> Claim(f[i])]
Scanned(f) == KeepTrails(f, Claims(f))
Allowed(f) == ApplyAllowRules(f, Scanned(f))

\* A comment somebody else in its block is named for, and one that stays before the rules
\* about place are asked.
Matched(f, i) == Pattern(f, i) # 0 /\ ~NamedOutright(f[i])
Stands(f, i)  == ~Removes(Claim(f[i])) \/ i \in Shields(f, Claims(f)) \/ Matched(f, i)

\* What the rules about place take.
Taken(f, i) ==
  /\ f[i].claimed \in SubjectToShape /\ ~NamedOutright(f[i]) /\ ~Matched(f, i)
  /\ \/ options.trailing = "refused" /\ HasCodeBeforeIt(f[i])
     \/ options.maxLines > 0 /\ RunLines(f, i) > options.maxLines

\* What is left of a file when these passes have run.
Lasts(f, i) ==
  IF options.policy = "none" THEN Stands(f, i)
  ELSE (Stands(f, i) \/ f[i].tag \in EveryTag) /\ ~Taken(f, i)

\* A comment stays when it lasts, and a tag is asked only of one that does not stand.
LEMMA AllowedIs ==
  ASSUME TypeOK, NEW f, NEW i \in DOMAIN f
  PROVE  /\ DOMAIN Allowed(f) = DOMAIN f
         /\ Removes(Allowed(f)[i]) <=> ~Lasts(f, i)
         /\ Allowed(f)[i].shape = "tagged" => ~Stands(f, i)
<1> DEFINE c == f[i]
           scanned == Scanned(f)
           kept == KeepBlocks(f, scanned)
           tagged == KeepTagged(f, kept)
           beside == RemoveTrailing(f, tagged)
           short == RemoveLong(f, beside)
<1>1. /\ DOMAIN scanned = DOMAIN f
      /\ scanned[i].action \in {"keep", "remove"}
      /\ Removes(scanned[i]) <=> ~(~Removes(Claim(c)) \/ i \in Shields(f, Claims(f)))
      /\ scanned[i] \in Verdict /\ scanned[i].shape = "none" /\ scanned[i].regex = 0
  <2>1. DOMAIN Claims(f) = DOMAIN f /\ Claims(f)[i] = Claim(c) BY DEF Claims
  <2>2. Claim(c) \in Verdict /\ Claim(c).shape = "none" /\ Claim(c).regex = 0 BY ClaimIsFirm
  <2>3. Claim(c).action \in {"keep", "remove"} BY DispositionIs DEF Claim, ByItself
  <2>4. /\ DOMAIN scanned = DOMAIN f
        /\ scanned[i] = IF i \in Shields(f, Claims(f))
                        THEN [Claim(c) EXCEPT !.action = "keep", !.why = "structural"]
                        ELSE Claim(c)
    BY <2>1 DEF Scanned, KeepTrails
  <2>5. CASE i \in Shields(f, Claims(f))
    <3>1. scanned[i] = [Claim(c) EXCEPT !.action = "keep", !.why = "structural"] BY <2>4, <2>5
    <3>2. /\ scanned[i] \in Verdict /\ scanned[i].action = "keep"
          /\ scanned[i].shape = "none" /\ scanned[i].regex = 0
      <4> HIDE DEF scanned
      <4> QED BY ZenonT(30), <2>2, <3>1 DEF Verdict, Why
    <3> QED BY <2>4, <2>5, <3>2 DEF Removes
  <2>6. CASE i \notin Shields(f, Claims(f))
    <3>1. scanned[i] = Claim(c) BY <2>4, <2>6
    <3> QED BY <2>2, <2>3, <2>4, <2>6, <3>1
  <2> QED BY <2>5, <2>6
<1> HIDE DEF scanned
<1>2. /\ DOMAIN kept = DOMAIN f
      /\ kept[i] \in Verdict /\ kept[i].action \in {"keep", "remove"} /\ kept[i].shape = "none"
      /\ Removes(kept[i]) <=> ~Stands(f, i)
      /\ kept[i].regex # 0 <=> Matched(f, i)
  <2>1. /\ DOMAIN kept = DOMAIN f
        /\ kept[i] = IF Pattern(f, i) = 0 \/ NamedOutright(c) THEN scanned[i]
                     ELSE [scanned[i] EXCEPT !.action = "keep", !.why = "block",
                                             !.regex = Pattern(f, i)]
    BY <1>1 DEF KeepBlocks
  <2>2. Stands(f, i) <=> ~Removes(scanned[i]) \/ Matched(f, i) BY <1>1 DEF Stands
  <2>3. CASE Matched(f, i)
    <3>1. Pattern(f, i) \in 1..2
      <4>1. Pattern(f, i) \in 0..2 BY PatternIs
      <4> QED BY <2>3, <4>1 DEF Matched
    <3>2. kept[i] = [scanned[i] EXCEPT !.action = "keep", !.why = "block", !.regex = Pattern(f, i)]
      BY <2>1, <2>3 DEF Matched
    <3> DEFINE p == Pattern(f, i)
    <3>3. p \in 1..2 /\ kept[i] = [scanned[i] EXCEPT !.action = "keep", !.why = "block", !.regex = p]
      BY <3>1, <3>2
    <3> HIDE DEF p, kept
    <3>4. kept[i] = [action |-> "keep", why |-> "block", shape |-> "none", regex |-> p]
      BY <1>1, <3>3 DEF Verdict
    <3>5. p \in 0..2 /\ p # 0 BY <3>3
    <3>6. kept[i] \in Verdict BY <3>4, <3>5 DEF Verdict, Why
    <3>7. kept[i].action = "keep" /\ kept[i].shape = "none" /\ kept[i].regex = p BY <3>4
    <3>8. kept[i].regex # 0 BY <3>5, <3>7
    <3> QED BY <2>1, <2>2, <2>3, <3>6, <3>7, <3>8 DEF Removes
  <2>4. CASE ~Matched(f, i)
    <3>1. kept[i] = scanned[i] BY <2>1, <2>4 DEF Matched
    <3> QED BY <1>1, <2>1, <2>2, <2>4, <3>1
  <2> QED BY <2>3, <2>4
<1> HIDE DEF kept
<1>3. /\ DOMAIN tagged = DOMAIN f
      /\ tagged[i] \in Verdict /\ tagged[i].action \in {"keep", "remove"}
      /\ tagged[i].shape = "tagged" => ~Stands(f, i)
      /\ Removes(tagged[i]) <=> ~(Stands(f, i) \/ c.tag \in EveryTag)
      /\ tagged[i].regex # 0 <=> Matched(f, i)
  <2>1. /\ DOMAIN tagged = DOMAIN f
        /\ tagged[i] = IF Removes(kept[i]) /\ c.tag \in EveryTag
                       THEN Decide(kept[i], "keep", "tagged") ELSE kept[i]
    BY <1>2 DEF KeepTagged
  <2>2. CASE Removes(kept[i]) /\ c.tag \in EveryTag
    <3>1. tagged[i] = Decide(kept[i], "keep", "tagged") BY <2>1, <2>2
    <3>2. /\ tagged[i] \in Verdict /\ tagged[i].action = "keep"
          /\ tagged[i].regex = kept[i].regex
      <4> HIDE DEF tagged
      <4> QED BY <1>2, <3>1 DEF Decide, Verdict, Why
    <3> QED BY <1>2, <2>1, <2>2, <3>2 DEF Removes
  <2>3. CASE ~(Removes(kept[i]) /\ c.tag \in EveryTag)
    <3>1. tagged[i] = kept[i] BY <2>1, <2>3
    <3> QED BY <1>2, <2>1, <2>3, <3>1
  <2> QED BY <2>2, <2>3
<1> HIDE DEF tagged
<1> DEFINE reached == c.claimed \in SubjectToShape /\ ~NamedOutright(c) /\ ~Matched(f, i)
           trailing == options.trailing = "refused" /\ HasCodeBeforeIt(c)
           long == options.maxLines > 0 /\ RunLines(f, i) > options.maxLines
<1>4. /\ DOMAIN beside = DOMAIN f
      /\ beside[i] \in Verdict
      /\ beside[i].shape = "tagged" => ~Stands(f, i)
      /\ Removes(beside[i]) <=> Removes(tagged[i]) \/ (trailing /\ reached)
      /\ beside[i].regex = tagged[i].regex
  <2>1. /\ DOMAIN beside = DOMAIN f
        /\ beside[i] = IF trailing /\ reached /\ ~Removes(tagged[i])
                       THEN Decide(tagged[i], "remove", "trailing") ELSE tagged[i]
    BY <1>3 DEF RemoveTrailing, Reachable, Removes
  <2>2. CASE trailing /\ reached /\ ~Removes(tagged[i])
    <3>1. beside[i] = Decide(tagged[i], "remove", "trailing") BY <2>1, <2>2
    <3>2. /\ beside[i] \in Verdict /\ beside[i].action = "remove" /\ beside[i].shape = "trailing"
          /\ beside[i].regex = tagged[i].regex
      <4> HIDE DEF beside
      <4> QED BY <1>3, <3>1 DEF Decide, Verdict, Why
    <3> QED BY <2>1, <2>2, <3>2 DEF Removes
  <2>3. CASE ~(trailing /\ reached /\ ~Removes(tagged[i]))
    <3>1. beside[i] = tagged[i] BY <2>1, <2>3
    <3> QED BY <1>3, <2>1, <2>3, <3>1
  <2> QED BY <2>2, <2>3
<1> HIDE DEF beside
<1>5. /\ DOMAIN short = DOMAIN f
      /\ short[i].shape = "tagged" => ~Stands(f, i)
      /\ Removes(short[i]) <=> Removes(beside[i]) \/ (long /\ reached)
  <2>1. /\ DOMAIN short = DOMAIN f
        /\ short[i] = IF long /\ reached THEN Decide(beside[i], "remove", "long") ELSE beside[i]
    BY <1>3, <1>4 DEF RemoveLong, Reachable
  <2>2. CASE long /\ reached
    <3>1. short[i] = Decide(beside[i], "remove", "long") BY <2>1, <2>2
    <3>2. short[i].action = "remove" /\ short[i].shape = "long"
      <4> HIDE DEF short
      <4> QED BY <1>4, <3>1 DEF Decide, Verdict, Why
    <3> QED BY <2>1, <2>2, <3>2 DEF Removes
  <2>3. CASE ~(long /\ reached)
    <3>1. short[i] = beside[i] BY <2>1, <2>3
    <3> QED BY <1>4, <2>1, <2>3, <3>1
  <2> QED BY <2>2, <2>3
<1>6. Allowed(f) = IF options.policy = "none" THEN kept ELSE short
  BY DEF Allowed, ApplyAllowRules, scanned, kept, tagged, beside
<1>7. Taken(f, i) <=> (trailing /\ reached) \/ (long /\ reached) BY DEF Taken
<1> HIDE DEF short, trailing, long, reached
<1>8. CASE options.policy = "none" BY <1>2, <1>6, <1>8 DEF Lasts
<1>9. CASE options.policy # "none" BY <1>3, <1>4, <1>5, <1>6, <1>7, <1>9 DEF Lasts
<1> QED BY <1>8, <1>9

-----------------------------------------------------------------------------
(* What stands before a comment that is left.                              *)

\* The comments since the last one kept, up to i.
Since(vs, i) == {x \in 1..i : \A j \in x..(i - 1) : Removes(vs[j])}

\* What stands before a comment once those since the last kept one are gone: what stood
\* before it when none are; code on its line only when it was not the first there; the body
\* of a block scalar when it stood before it; and nothing but line breaks when only line
\* breaks stood before all of them, and only single ones if it is one that is left.
LEMMA GapIs ==
  ASSUME NEW n \in Nat, NEW f, DOMAIN f = 1..n, \A x \in 1..n : f[x].gap \in Gap,
         NEW vs, NEW i \in 1..n
  PROVE  /\ i = 1 \/ ~Removes(vs[i - 1]) => GapLeft(f, vs, i) = f[i].gap
         /\ GapLeft(f, vs, i) \in {"code", "same"} => f[i].gap \in {"code", "same"}
         /\ f[i].gap = "body" => GapLeft(f, vs, i) = "body"
         /\ (\A x \in Since(vs, i) : f[x].gap \in {"next", "apart"}) =>
              GapLeft(f, vs, i) \in {"next", "apart"}
         /\ (\A x \in Since(vs, i) : f[x].gap # "same") /\ GapLeft(f, vs, i) = "next" =>
              \A x \in Since(vs, i) : f[x].gap = "next"
<1> DEFINE above == {j \in 1..(i - 1) : ~Removes(vs[j])}
           since == ((IF above = {} THEN 0 ELSE Max(above)) + 1)..i
           first == {j \in {Min(since)} \cup since : f[j].gap # "same" \/ j = Min(since)}
           opens == Max(first)
           upto == {k \in since : k <= opens}
           solid == {k \in upto : f[k].gap \in {"code", "stmt", "body"}}
<1>1. /\ since = Since(vs, i) /\ since \in SUBSET (1..i) /\ i \in since
      /\ i = 1 \/ ~Removes(vs[i - 1]) => since = {i}
  <2>1. CASE above = {}
    <3>1. since = 1..i BY <2>1
    <3>2. \A j \in 1..(i - 1) : Removes(vs[j]) BY <2>1
    <3>3. Since(vs, i) = 1..i BY <3>2 DEF Since
    <3>4. i = 1 \/ ~Removes(vs[i - 1]) => i = 1
      <4>1. i # 1 => i - 1 \in 1..(i - 1) OBVIOUS
      <4> QED BY <3>2, <4>1
    <3>5. i = 1 => 1..i = {i} OBVIOUS
    <3> HIDE DEF since
    <3> QED BY <3>1, <3>3, <3>4, <3>5
  <2>2. CASE above # {}
    <3> DEFINE m == Max(above)
    <3>1. m \in 1..(i - 1) /\ ~Removes(vs[m]) /\ \A j \in above : j <= m
      <4>1. i - 1 \in Nat /\ above \in SUBSET (1..(i - 1)) OBVIOUS
      <4>2. m \in above /\ \A j \in above : j <= m
        <5> HIDE DEF above
        <5> QED BY <2>2, <4>1, Ends
      <4> QED BY <4>2
    <3>2. since = (m + 1)..i BY <2>2
    <3> HIDE DEF m, since
    <3>3. ASSUME NEW x \in 1..i PROVE (\A j \in x..(i - 1) : Removes(vs[j])) <=> x > m
      <4>1. x <= m => m \in x..(i - 1) BY <3>1
      <4>2. \A j \in (m + 1)..(i - 1) : Removes(vs[j])
        <5>1. SUFFICES ASSUME NEW j \in (m + 1)..(i - 1), ~Removes(vs[j]) PROVE FALSE
          OBVIOUS
        <5>2. j \in above BY <3>1, <5>1
        <5> QED BY <3>1, <5>1, <5>2
      <4>3. x > m => \A j \in x..(i - 1) : j \in (m + 1)..(i - 1) BY <3>1
      <4> QED BY <3>1, <4>1, <4>2, <4>3
    <3>4. Since(vs, i) = (m + 1)..i
      <4>1. \A x \in 1..i : x \in Since(vs, i) <=> x > m BY <3>3 DEF Since
      <4>2. Since(vs, i) \subseteq 1..i BY DEF Since
      <4>3. \A x : x \in (m + 1)..i <=> x \in 1..i /\ x > m BY <3>1
      <4> QED BY <4>1, <4>2, <4>3
    <3>5. ~Removes(vs[i - 1]) => m = i - 1
      <4>1. SUFFICES ASSUME ~Removes(vs[i - 1]) PROVE m = i - 1 OBVIOUS
      <4>2. i - 1 \in above BY <3>1, <4>1
      <4> QED BY <3>1, <4>2
    <3>6. i # 1 /\ (m = i - 1 => (m + 1)..i = {i}) BY <3>1
    <3>7. (m + 1)..i \in SUBSET (1..i) /\ i \in (m + 1)..i BY <3>1
    <3> QED BY <3>2, <3>4, <3>5, <3>6, <3>7
  <2> QED BY <2>1, <2>2
<1>2. GapLeft(f, vs, i) =
        IF Min(since) = i THEN f[i].gap
        ELSE IF f[opens].gap \in {"code", "same"} THEN f[opens].gap
        ELSE IF solid # {} THEN IF f[Max(solid)].gap = "body" THEN "body" ELSE "stmt"
        ELSE IF \/ \E j \in upto : f[j].gap = "apart"
                \/ ~options.compact /\ \E j \in since : j < opens
             THEN "apart" ELSE "next"
  BY DEF GapLeft
<1>0. i \in Nat /\ \A j \in 1..i : j <= i /\ j \in Nat OBVIOUS
<1> HIDE DEF since, above
<1>3. Min(since) \in since /\ \A j \in since : Min(since) <= j BY <1>0, <1>1, Ends
<1>4. /\ first \in SUBSET since /\ opens \in first /\ \A j \in first : j <= opens
  <2>1. first \in SUBSET (1..i) /\ first \in SUBSET since /\ Min(since) \in first BY <1>1, <1>3
  <2> HIDE DEF first
  <2> QED BY <1>0, <2>1, Ends
<1>5. f[i].gap # "same" => opens = i
  <2>1. SUFFICES ASSUME f[i].gap # "same" PROVE opens = i OBVIOUS
  <2>2. i \in first BY <1>1, <2>1
  <2>3. opens \in 1..i BY <1>1, <1>4
  <2>4. i <= opens BY <1>4, <2>2
  <2> QED BY <2>3, <2>4
<1>6. opens \in since /\ f[opens].gap \in Gap BY <1>1, <1>4
<1>7. solid # {} => Max(solid) \in solid /\ \A j \in solid : j <= Max(solid)
  <2>1. solid \in SUBSET (1..i) BY <1>1
  <2> HIDE DEF solid
  <2> QED BY <1>0, <2>1, Ends
<1>8. solid \subseteq upto /\ upto \subseteq since /\ (opens = i => upto = since) BY <1>0, <1>1
<1>9. \A k \in solid : f[k].gap \in {"code", "stmt", "body"} OBVIOUS
<1>10. \A k \in upto : f[k].gap \in {"code", "stmt", "body"} => k \in solid OBVIOUS
<1> HIDE DEF opens, first, upto, solid
<1>11. \/ Min(since) = i /\ GapLeft(f, vs, i) = f[i].gap
       \/ /\ Min(since) # i
          /\ \/ f[opens].gap \in {"code", "same"} /\ GapLeft(f, vs, i) = f[opens].gap
             \/ /\ f[opens].gap \notin {"code", "same"}
                /\ \/ solid # {} /\ GapLeft(f, vs, i) = IF f[Max(solid)].gap = "body" THEN "body" ELSE "stmt"
                   \/ /\ solid = {}
                      /\ \/ GapLeft(f, vs, i) = "apart"
                         \/ GapLeft(f, vs, i) = "next" /\ \A j \in upto : f[j].gap # "apart"
  BY <1>2
<1>12. i = 1 \/ ~Removes(vs[i - 1]) => GapLeft(f, vs, i) = f[i].gap
  BY <1>1, <1>3, <1>11
<1>13. GapLeft(f, vs, i) \in {"code", "same"} => f[i].gap \in {"code", "same"}
  BY <1>5, <1>11
<1>14. f[i].gap = "body" => GapLeft(f, vs, i) = "body"
  <2>1. SUFFICES ASSUME f[i].gap = "body", Min(since) # i PROVE GapLeft(f, vs, i) = "body"
    BY <1>11
  <2>2. opens = i /\ i \in solid BY <1>1, <1>5, <1>8, <1>10, <2>1
  <2>3. Max(solid) = i
    <3>1. Max(solid) \in 1..i /\ i <= Max(solid) BY <1>1, <1>7, <1>8, <2>2
    <3> QED BY <3>1
  <2> QED BY <1>11, <2>1, <2>2, <2>3
<1>15. (\A x \in since : f[x].gap \in {"next", "apart"}) => GapLeft(f, vs, i) \in {"next", "apart"}
  BY <1>1, <1>6, <1>8, <1>9, <1>11
<1>16. (\A x \in since : f[x].gap # "same") /\ GapLeft(f, vs, i) = "next" =>
         \A x \in since : f[x].gap = "next"
  <2>1. SUFFICES ASSUME \A x \in since : f[x].gap # "same", GapLeft(f, vs, i) = "next",
                        NEW x \in since
                 PROVE  f[x].gap = "next"
    OBVIOUS
  <2>2. opens = i /\ upto = since BY <1>1, <1>5, <1>8, <2>1
  <2>3. CASE Min(since) = i
    <3>1. x \in 1..i /\ i <= x BY <1>1, <1>3, <2>3
    <3>2. x = i BY <3>1
    <3> QED BY <1>11, <2>1, <2>3, <3>2
  <2>4. CASE Min(since) # i
    <3>1. solid = {} /\ f[x].gap # "apart" BY <1>11, <2>1, <2>2, <2>4
    <3>2. f[x].gap \notin {"code", "stmt", "body"} BY <1>10, <2>2, <3>1
    <3>3. f[x].gap \in Gap BY <1>1
    <3> QED BY <2>1, <3>1, <3>2, <3>3 DEF Gap
  <2> QED BY <2>3, <2>4
<1> QED BY <1>1, <1>12, <1>13, <1>14, <1>15, <1>16

-----------------------------------------------------------------------------
(* The file a rewrite leaves.                                              *)

\* What the plan is made from: the verdicts before the style rules and, for a tag past its
\* deadline, after them.
Decided(f, vs) ==
  \A i \in DOMAIN f : Removes(vs[i]) <=> Removes(Allowed(f)[i]) \/ Overdue(f[i], Allowed(f)[i])

\* Comment k of the rewrite g is comment q[k] of f, at the gap that is left.
Same(c, d) ==
  /\ c.claimed = d.claimed /\ c.hits = d.hits /\ c.dropped = d.dropped
  /\ c.tag = d.tag /\ c.lines = d.lines /\ c.deep = d.deep
Rewritten(f, vs, g, q) ==
  /\ Len(g) \in Nat /\ DOMAIN g = 1..Len(g)
  /\ \A k \in DOMAIN g : /\ q[k] \in DOMAIN f /\ ~Removes(vs[q[k]])
                        /\ g[k].gap = GapLeft(f, vs, q[k]) /\ Same(g[k], f[q[k]])
  /\ \A k, l \in DOMAIN g : k < l => q[k] < q[l]
  /\ \A i \in DOMAIN f : ~Removes(vs[i]) => \E k \in DOMAIN g : q[k] = i

LEMMA CleanedIs ==
  ASSUME NEW f \in Seq(Comment), NEW vs, DOMAIN vs = DOMAIN f, NEW rs
  PROVE  Rewritten(f, vs, Cleaned(f, vs, rs), Left(vs))
<1> DEFINE S == {i \in DOMAIN vs : ~Removes(vs[i])}
           g == Cleaned(f, vs, rs)
           q == Left(vs)
           c == Cardinality(S)
<1>1. Len(f) \in Nat /\ DOMAIN f = 1..Len(f) /\ S \in SUBSET (1..Len(f)) OBVIOUS
<1>2. q = InOrder(S) BY DEF Left
<1> HIDE DEF S, q
<1>3. /\ c \in Nat /\ DOMAIN q = 1..c
      /\ \A k \in 1..c : q[k] \in S
      /\ \A k, l \in 1..c : k < l => q[k] < q[l]
      /\ \A i \in S : \E k \in 1..c : q[k] = i
  BY <1>1, <1>2, InOrderIs
<1> HIDE DEF c
<1>4. g = [k \in 1..c |-> LET i == q[k] IN
            [f[i] EXCEPT !.gap = GapLeft(f, vs, i),
                         !.rough = @ /\ vs[i].action # "rewrite" /\ i \notin UNION rs,
                         !.ragged = @ /\ i \notin UNION rs]]
  BY <1>3 DEF Cleaned, q
<1> HIDE DEF g
<1>5. DOMAIN g = 1..c /\ Len(g) = c
  <2>1. DOMAIN g = 1..c BY <1>4
  <2> QED BY <1>3, <2>1
<1>6. \A i \in S : i \in DOMAIN f /\ f[i] \in Comment /\ ~Removes(vs[i]) BY DEF S
<1>7. ASSUME NEW k \in 1..c
      PROVE  /\ q[k] \in DOMAIN f /\ ~Removes(vs[q[k]])
             /\ g[k].gap = GapLeft(f, vs, q[k]) /\ Same(g[k], f[q[k]])
  <2>1. q[k] \in DOMAIN f /\ f[q[k]] \in Comment /\ ~Removes(vs[q[k]]) BY <1>3, <1>6
  <2> DEFINE i == q[k]
             gap == GapLeft(f, vs, i)
             rough == f[i].rough /\ vs[i].action # "rewrite" /\ i \notin UNION rs
             ragged == f[i].ragged /\ i \notin UNION rs
  <2>2. g[k] = [f[i] EXCEPT !.gap = gap, !.rough = rough, !.ragged = ragged] BY <1>4
  <2> HIDE DEF i, gap, rough, ragged
  <2>3. g[k].gap = gap /\ Same(g[k], f[i])
    BY <2>1, <2>2 DEF Comment, Same, i
  <2> QED BY <2>1, <2>3 DEF gap, i
<1>8. \A i \in DOMAIN f : ~Removes(vs[i]) => i \in S BY DEF S
<1> QED BY <1>3, <1>5, <1>7, <1>8 DEF Rewritten, g, q

\* What is left keeps its order.
LEMMA OrderIs ==
  ASSUME NEW f, NEW vs, NEW g, NEW q, Rewritten(f, vs, g, q), NEW n \in Nat, DOMAIN f = 1..n,
         NEW k \in DOMAIN g, NEW l \in DOMAIN g
  PROVE  /\ q[k] \in 1..n /\ q[l] \in 1..n /\ k \in Nat /\ l \in Nat
         /\ k < l <=> q[k] < q[l]
         /\ k <= l <=> q[k] <= q[l]
         /\ q[k] = q[l] => k = l
<1>1. q[k] \in 1..n /\ q[l] \in 1..n /\ k \in Nat /\ l \in Nat BY DEF Rewritten
<1>2. (k < l => q[k] < q[l]) /\ (l < k => q[l] < q[k]) BY DEF Rewritten
<1> QED BY <1>1, <1>2

\* Of two comments next to each other that both stay nothing comes between.
LEMMA NextIs ==
  ASSUME NEW f, NEW vs, NEW g, NEW q, Rewritten(f, vs, g, q), NEW n \in Nat, DOMAIN f = 1..n,
         NEW l \in DOMAIN g, q[l] > 1, ~Removes(vs[q[l] - 1])
  PROVE  l > 1 /\ l - 1 \in DOMAIN g /\ q[l - 1] = q[l] - 1
<1>1. q[l] \in 1..n /\ l \in 1..Len(g) /\ Len(g) \in Nat /\ DOMAIN g = 1..Len(g) BY DEF Rewritten
<1>2. q[l] - 1 \in DOMAIN f BY <1>1
<1>3. PICK m \in DOMAIN g : q[m] = q[l] - 1 BY <1>2 DEF Rewritten
<1>4. m < l BY <1>1, <1>3, OrderIs
<1>5. l - 1 \in DOMAIN g /\ m <= l - 1 /\ l - 1 < l BY <1>1, <1>4
<1>6. q[m] <= q[l - 1] /\ q[l - 1] < q[l] /\ q[l - 1] \in 1..n BY <1>5, OrderIs
<1>7. q[l - 1] = q[l] - 1 BY <1>1, <1>3, <1>6
<1> QED BY <1>1, <1>5, <1>7

\* The same comment is claimed the same.
LEMMA SameClaim ==
  ASSUME NEW c, NEW d, Same(c, d)
  PROVE  /\ Claim(c) = Claim(d) /\ Matches(c) = Matches(d)
         /\ NamedOutright(c) = NamedOutright(d)
<1>1. c.claimed = d.claimed /\ c.hits = d.hits /\ c.dropped = d.dropped BY DEF Same
<1>2. Matches(c) = Matches(d) BY <1>1 DEF Matches
<1>3. NamedOutright(c) = NamedOutright(d) BY <1>1, <1>2 DEF NamedOutright
<1>4. Protected(c) = Protected(d) /\ ToRemove(c) = ToRemove(d) BY <1>1 DEF Protected, ToRemove
<1>5. Disposition(c) = Disposition(d) BY <1>1, <1>3, <1>4 DEF Disposition
<1> QED BY <1>2, <1>3, <1>5 DEF Claim

\* What the plan keeps lasts, and what stands and lasts it keeps.
LEMMA KeptIs ==
  ASSUME TypeOK, NEW f, NEW vs, Decided(f, vs), NEW i \in DOMAIN f
  PROVE  /\ ~Removes(vs[i]) => Lasts(f, i)
         /\ Lasts(f, i) /\ Stands(f, i) => ~Removes(vs[i])
<1>1. Removes(vs[i]) <=> Removes(Allowed(f)[i]) \/ Overdue(f[i], Allowed(f)[i]) BY DEF Decided
<1>2. /\ Removes(Allowed(f)[i]) <=> ~Lasts(f, i)
      /\ Allowed(f)[i].shape = "tagged" => ~Stands(f, i)
  BY AllowedIs
<1> QED BY <1>1, <1>2 DEF Overdue

\* The numbers after the lesser of two up to the greater.
LEMMA Between ==
  ASSUME NEW i \in Nat, NEW j \in Nat
  PROVE  \A x : x \in (Min({i, j}) + 1)..Max({i, j}) <=>
                  x \in Int /\ ((i < x /\ x <= j) \/ (j < x /\ x <= i))
<1>1. CASE i <= j
  <2>1. Min({i, j}) = i /\ Max({i, j}) = j BY <1>1 DEF Min, Max
  <2> QED BY <1>1, <2>1
<1>2. CASE j <= i
  <2>1. Min({i, j}) = j /\ Max({i, j}) = i BY <1>2 DEF Min, Max
  <2> QED BY <1>2, <2>1
<1> QED BY <1>1, <1>2

-----------------------------------------------------------------------------
(* Blocks and runs of the rewrite.                                         *)

\* A file is comments in a row.
LEMMA FileIs ==
  ASSUME NEW f \in Seq(Comment)
  PROVE  /\ Len(f) \in Nat /\ DOMAIN f = 1..Len(f)
         /\ \A x \in DOMAIN f : f[x] \in Comment /\ f[x].gap \in Gap
<1>1. Len(f) \in Nat /\ DOMAIN f = 1..Len(f) /\ \A x \in DOMAIN f : f[x] \in Comment OBVIOUS
<1>2. \A c \in Comment : c.gap \in Gap BY DEF Comment
<1> QED BY <1>1, <1>2

\* A comment kept with its block is kept with it in the rewrite too: all of them stay, and
\* nothing came between them.
LEMMA MatchedStays ==
  ASSUME TypeOK, NEW f \in Seq(Comment), NEW vs, Decided(f, vs), NEW g, NEW q,
         Rewritten(f, vs, g, q), NEW k \in DOMAIN g, Matched(f, q[k])
  PROVE  Matched(g, k)
<1> DEFINE n == Len(f)
           i == q[k]
<1>1. n \in Nat /\ DOMAIN f = 1..n /\ i \in 1..n /\ Same(g[k], f[i]) BY DEF Rewritten
<1>2. \A x \in 1..n : f[x].gap \in Gap BY FileIs
<1> HIDE DEF n
<1>3. PICK j \in Block(f, i) : Matches(f[j]) # {}
  <2>1. Pattern(f, i) # 0 BY DEF Matched
  <2>2. UNION {Matches(f[j]) : j \in Block(f, i)} # {} BY <2>1 DEF Pattern
  <2> QED BY <2>2
<1> DEFINE Inside(x) == (i <= x /\ x <= j) \/ (j <= x /\ x <= i)
<1>4. /\ j \in 1..n
      /\ \A x \in 1..n : (i < x /\ x <= j) \/ (j < x /\ x <= i) => Joins(f, x)
  BY <1>1, Between DEF Block
<1>5. ASSUME NEW x \in 1..n, Inside(x) PROVE ~Removes(vs[x])
  <2>1. j \in Block(f, x)
    <3>1. \A y : y \in (Min({x, j}) + 1)..Max({x, j}) =>
                   y \in Int /\ ((x < y /\ y <= j) \/ (j < y /\ y <= x))
      BY <1>4, Between
    <3>2. \A y : y \in (Min({x, j}) + 1)..Max({x, j}) => Joins(f, y) BY <1>1, <1>4, <1>5, <3>1
    <3> QED BY <1>1, <1>4, <3>2 DEF Block
  <2>2. Pattern(f, x) # 0 BY <1>3, <2>1, PatternIs
  <2>3. ~Taken(f, x) BY <2>2 DEF Taken, Matched
  <2>4. Stands(f, x)
    <3>1. NamedOutright(f[x]) => ~Removes(Claim(f[x])) BY ClaimIsFirm DEF Firm, Stays
    <3> QED BY <2>2, <3>1 DEF Stands, Matched
  <2>5. Lasts(f, x) BY <2>3, <2>4 DEF Lasts
  <2> QED BY <1>1, <2>4, <2>5, KeptIs
<1>6. PICK l \in DOMAIN g : q[l] = j
  <2>1. ~Removes(vs[j]) BY <1>1, <1>4, <1>5
  <2> QED BY <1>1, <1>4, <2>1 DEF Rewritten
<1>7. k \in Nat /\ l \in Nat /\ DOMAIN g = 1..Len(g) BY <1>1, OrderIs DEF Rewritten
<1>8. ASSUME NEW y, y \in Int, (k < y /\ y <= l) \/ (l < y /\ y <= k)
      PROVE  Joins(g, y)
  <2>1. y \in DOMAIN g BY <1>7, <1>8
  <2> DEFINE x == q[y]
  <2>2. /\ x \in 1..n
        /\ (k < y <=> i < x) /\ (y <= k <=> x <= i) /\ (l < y <=> j < x) /\ (y <= l <=> x <= j)
    BY <1>1, <1>6, <2>1, OrderIs
  <2>3. (i < x /\ x <= j) \/ (j < x /\ x <= i) BY <1>8, <2>2
  <2> HIDE DEF x
  <2>4. x > 1 /\ f[x].gap = "next" /\ f[x].claimed = f[x - 1].claimed BY <1>4, <2>2, <2>3 DEF Joins
  <2>5. x - 1 \in 1..n /\ Inside(x - 1) BY <1>1, <1>4, <2>2, <2>3, <2>4
  <2>6. ~Removes(vs[x - 1]) BY <1>5, <2>5
  <2>7. y > 1 /\ y - 1 \in DOMAIN g /\ q[y - 1] = x - 1 BY <1>1, <2>1, <2>4, <2>6, NextIs DEF x
  <2>8. /\ g[y].gap = GapLeft(f, vs, x) /\ g[y].claimed = f[x].claimed
        /\ g[y - 1].claimed = f[x - 1].claimed
    BY <2>1, <2>7 DEF Rewritten, Same, x
  <2>9. g[y].gap = f[x].gap BY <1>1, <1>2, <2>2, <2>6, <2>8, GapIs
  <2> QED BY <2>4, <2>7, <2>8, <2>9 DEF Joins
<1>9. l \in Block(g, k) BY <1>7, <1>8, Between DEF Block
<1>10. Matches(g[l]) # {}
  <2>1. Same(g[l], f[j]) BY <1>6 DEF Rewritten
  <2>2. Matches(g[l]) = Matches(f[j]) BY <2>1, SameClaim
  <2> QED BY <1>3, <2>2
<1>11. Pattern(g, k) # 0 BY <1>9, <1>10, PatternIs
<1>12. ~NamedOutright(g[k])
  <2>1. ~NamedOutright(f[i]) BY DEF Matched
  <2>2. Same(g[k], f[i]) BY <1>1
  <2> HIDE DEF i
  <2> QED BY Zenon, <2>1, <2>2, SameClaim
<1> QED BY <1>11, <1>12 DEF Matched

\* When no two comments share a line, the lines of a run of the rewrite were lines of one
\* run before it.
LEMMA RunShrinks ==
  ASSUME NEW f \in Seq(Comment), \A x \in DOMAIN f : f[x].gap # "same", NEW vs, NEW g, NEW q,
         Rewritten(f, vs, g, q), NEW k \in DOMAIN g
  PROVE  RunLines(g, k) \in Nat /\ RunLines(f, q[k]) \in Nat /\ RunLines(g, k) <= RunLines(f, q[k])
<1> DEFINE n == Len(f)
           m == Len(g)
           i == q[k]
<1>1. n \in Nat /\ DOMAIN f = 1..n /\ i \in 1..n /\ m \in Nat /\ DOMAIN g = 1..m
  BY DEF Rewritten
<1>2. \A x \in 1..n : f[x].gap \in Gap BY FileIs
<1> HIDE DEF n, m
<1>3. ASSUME NEW l \in Run(g, k) PROVE l \in 1..m /\ q[l] \in Run(f, i)
  <2>1. /\ l \in 1..m
        /\ \A y \in Int : (k < y /\ y <= l) \/ (l < y /\ y <= k) => g[y].gap = "next"
    BY <1>1, Between DEF Run, InRun
  <2> DEFINE j == q[l]
  <2>2. j \in 1..n BY <1>1, <2>1, OrderIs
  <2>3. ASSUME NEW x \in Int, (i < x /\ x <= j) \/ (j < x /\ x <= i)
        PROVE  f[x].gap = "next"
    <3>1. x \in 1..n BY <1>1, <2>2, <2>3
    <3> DEFINE R == {z \in x..n : ~Removes(vs[z])}
    <3>2. PICK z \in 1..n : /\ x <= z /\ ~Removes(vs[z]) /\ (z <= j \/ z <= i)
                           /\ \A w \in 1..n : x <= w /\ w < z => Removes(vs[w])
      <4>1. ~Removes(vs[i]) /\ ~Removes(vs[j]) BY <1>1, <2>1 DEF Rewritten
      <4>2. PICK e \in {i, j} : x <= e BY <2>3
      <4>3. e \in R /\ R \in SUBSET (1..n) BY <1>1, <2>2, <3>1, <4>1, <4>2
      <4>4. Min(R) \in R /\ \A w \in R : Min(R) <= w
        <5> HIDE DEF R
        <5> QED BY <1>1, <4>3, Ends
      <4>5. Min(R) \in 1..n /\ x <= Min(R) /\ ~Removes(vs[Min(R)]) BY <3>1, <4>4
      <4>6. Min(R) <= e BY <4>3, <4>4
      <4>7. ASSUME NEW w \in 1..n, x <= w, w < Min(R) PROVE Removes(vs[w])
        <5>1. w \notin R BY <4>4, <4>5, <4>7
        <5> QED BY <3>1, <4>7, <5>1
      <4> QED BY <4>2, <4>5, <4>6, <4>7
    <3> HIDE DEF R
    <3>3. PICK y \in 1..m : q[y] = z BY <1>1, <3>2 DEF Rewritten
    <3>4. (i < z /\ z <= j) \/ (j < z /\ z <= i) BY <1>1, <2>2, <2>3, <3>1, <3>2
    <3>5. /\ (k < y <=> i < z) /\ (y <= k <=> z <= i) /\ (l < y <=> j < z) /\ (y <= l <=> z <= j)
      <4>1. y \in DOMAIN g /\ l \in DOMAIN g BY <1>1, <2>1, <3>3
      <4> QED BY <1>1, <3>3, <4>1, OrderIs
    <3>6. g[y].gap = "next" BY <2>1, <3>4, <3>5
    <3>7. GapLeft(f, vs, z) = "next" BY <1>1, <3>3, <3>6 DEF Rewritten
    <3>8. x \in Since(vs, z)
      <4>1. \A w \in x..(z - 1) : w \in 1..n /\ x <= w /\ w < z BY <1>1, <3>1, <3>2
      <4> QED BY <3>1, <3>2, <4>1 DEF Since
    <3>9. \A w \in Since(vs, z) : f[w].gap # "same" BY <1>1, <3>2 DEF Since
    <3> QED BY <1>1, <1>2, <3>2, <3>7, <3>8, <3>9, GapIs
  <2>4. \A x : x \in (Min({i, j}) + 1)..Max({i, j}) => f[x].gap = "next"
    BY <1>1, <2>2, <2>3, Between
  <2> QED BY <1>1, <2>1, <2>2, <2>4 DEF Run, InRun
<1> DEFINE A == Run(g, k)
           B == Run(f, i)
           A2 == {l \in A : g[l].lines = 2}
           B2 == {j \in B : f[j].lines = 2}
<1>4. A \in SUBSET (1..m) /\ B \in SUBSET (1..n) BY <1>1 DEF Run
<1>5. IsFiniteSet(A) /\ IsFiniteSet(B) /\ IsFiniteSet(A2) /\ IsFiniteSet(B2)
  <2>1. IsFiniteSet(1..m) /\ IsFiniteSet(1..n) BY <1>1, FS_Interval
  <2>2. A2 \in SUBSET A /\ B2 \in SUBSET B OBVIOUS
  <2> QED BY <1>4, <2>1, <2>2, FS_Subset
<1>6. \A l \in A : q[l] \in B BY <1>3
<1>7. \A l \in A2 : q[l] \in B2
  <2>1. \A l \in A : g[l].lines = f[q[l]].lines BY <1>1, <1>4 DEF Rewritten, Same
  <2> QED BY <1>6, <2>1
<1>8. \A l1, l2 \in A : q[l1] = q[l2] => l1 = l2 BY <1>1, <1>4, OrderIs
<1> HIDE DEF A, B
<1>9. ASSUME NEW C, NEW D, IsFiniteSet(C), IsFiniteSet(D), C \subseteq A, \A l \in C : q[l] \in D
      PROVE  Cardinality(C) \in Nat /\ Cardinality(D) \in Nat /\ Cardinality(C) <= Cardinality(D)
  <2>1. [l \in C |-> q[l]] \in Injection(C, D) BY <1>8, <1>9 DEF Injection, IsInjective
  <2>2. Cardinality(C) <= Cardinality(D) BY <1>9, <2>1, FS_Injection
  <2> QED BY <1>9, <2>2, FS_CardinalityType
<1>10. Cardinality(A) \in Nat /\ Cardinality(B) \in Nat /\ Cardinality(A) <= Cardinality(B)
  BY <1>5, <1>6, <1>9
<1>11. Cardinality(A2) \in Nat /\ Cardinality(B2) \in Nat /\ Cardinality(A2) <= Cardinality(B2)
  <2>1. A2 \subseteq A OBVIOUS
  <2> HIDE DEF A2, B2
  <2> QED BY <1>5, <1>7, <1>9, <2>1
<1>12. /\ RunLines(g, k) = Cardinality(A) + Cardinality(A2)
       /\ RunLines(f, i) = Cardinality(B) + Cardinality(B2)
  BY DEF RunLines, A, B
<1> HIDE DEF A2, B2
<1> QED BY <1>10, <1>11, <1>12

-----------------------------------------------------------------------------
(* Everything the rewrite leaves stays when it is scanned again.           *)

\* In YAML no rule about place takes what the table of rules keeps.
LEMMA ClaimLasts ==
  ASSUME TypeOK, NEW f \in Seq(Comment), Written(f, options.language), options.language = "yaml",
         NEW i \in DOMAIN f, ~Removes(Claim(f[i]))
  PROVE  Lasts(f, i) /\ Stands(f, i)
<1>1. Stands(f, i) BY DEF Stands
<1>2. CASE options.policy = "none" BY <1>1, <1>2 DEF Lasts
<1>3. CASE options.policy # "none"
  <2>1. ByItself(f[i]) = "keep" BY DispositionIs DEF Claim, Removes, ByItself
  <2>2. NamedOutright(f[i]) \/ Protected(f[i]) \/ Keeps(options.policy, f[i].claimed)
    BY <2>1 DEF ByItself
  <2>3. f[i].claimed # "html-comment" BY DEF Written
  <2>4. ~Taken(f, i)
    BY <1>3, <2>2, <2>3 DEF Taken, Protected, Protection, Preamble, Keeps, SubjectToShape
  <2> QED BY <1>1, <2>4 DEF Lasts
<1> QED BY <1>2, <1>3

\* A comment kept for what would be read as the block scalar's is kept for it in the rewrite
\* too: the first comment below that stays is the same, and nothing but line breaks came
\* between.
LEMMA ShieldStays ==
  ASSUME TypeOK, NEW f \in Seq(Comment), Written(f, options.language), NEW vs, Decided(f, vs),
         NEW g, NEW q, Rewritten(f, vs, g, q), NEW k \in DOMAIN g, q[k] \in Shields(f, Claims(f))
  PROVE  k \in Shields(g, Claims(g))
<1> DEFINE n == Len(f)
           i == q[k]
           stays == {x \in Trail(f, i) : ~Removes(Claims(f)[x])}
           m == Min(stays)
<1>1. /\ n \in Nat /\ DOMAIN f = 1..n /\ Len(g) \in Nat /\ DOMAIN g = 1..Len(g)
      /\ i \in 1..n /\ ~Removes(vs[i])
      /\ \A x \in 1..n : f[x].gap \in Gap
  BY FileIs DEF Rewritten
<1>2. /\ options.language = "yaml" /\ f[i].gap = "body"
      /\ stays # {} /\ i \notin stays /\ f[m].deep
  BY DEF Shields, Bodies
<1>3. /\ Trail(f, i) = {x \in i..n : \A j \in (i + 1)..x : f[j].gap \in {"next", "apart"}}
      /\ \A x \in 1..n : Claims(f)[x] = Claim(f[x])
  BY <1>1 DEF Trail, Claims
<1> HIDE DEF n
<1>4. m \in stays /\ \A x \in stays : m <= x
  <2>1. stays \in SUBSET (1..n) BY <1>1, <1>3
  <2> HIDE DEF stays
  <2> QED BY <1>1, <1>2, <2>1, Ends
<1>5. /\ m \in 1..n /\ i < m /\ ~Removes(Claim(f[m]))
      /\ \A j \in 1..n : i < j /\ j <= m => f[j].gap \in {"next", "apart"}
  <2>1. m \in i..n /\ m # i BY <1>2, <1>3, <1>4
  <2>2. \A j \in (i + 1)..m : f[j].gap \in {"next", "apart"} BY <1>3, <1>4
  <2>3. ~Removes(Claim(f[m])) BY <1>1, <1>3, <1>4, <2>1
  <2> HIDE DEF m
  <2> QED BY <1>1, <2>1, <2>2, <2>3
<1>6. \A x \in 1..n : i <= x /\ x < m => Removes(Claim(f[x]))
  <2>1. SUFFICES ASSUME NEW x \in 1..n, i <= x, x < m, ~Removes(Claim(f[x])) PROVE FALSE
    OBVIOUS
  <2>2. \A j \in (i + 1)..x : f[j].gap \in {"next", "apart"} BY <1>1, <1>5, <2>1
  <2>3. x \in stays BY <1>1, <1>3, <2>1, <2>2
  <2> QED BY <1>4, <1>5, <2>1, <2>3
<1> HIDE DEF stays, m
<1>7. PICK e \in DOMAIN g : q[e] = m
  <2>1. Lasts(f, m) /\ Stands(f, m) BY <1>1, <1>2, <1>5, ClaimLasts
  <2>2. ~Removes(vs[m]) BY <1>1, <1>5, <2>1, KeptIs
  <2> QED BY <1>1, <1>5, <2>2 DEF Rewritten
<1>8. k \in 1..Len(g) /\ e \in 1..Len(g) /\ k < e BY <1>1, <1>5, <1>7, OrderIs
<1>9. g[k].gap = "body"
  <2>1. GapLeft(f, vs, i) = "body" BY <1>1, <1>2, GapIs
  <2> QED BY <2>1 DEF Rewritten
<1>10. ASSUME NEW l \in 1..Len(g), k < l, l <= e PROVE g[l].gap \in {"next", "apart"}
  <2> DEFINE y == q[l]
  <2>1. l \in DOMAIN g BY <1>1
  <2>2. y \in 1..n /\ i < y /\ y <= m BY <1>1, <1>7, <1>10, <2>1, OrderIs
  <2>3. g[l].gap = GapLeft(f, vs, y) BY <2>1 DEF Rewritten
  <2> HIDE DEF y
  <2>4. \A x \in Since(vs, y) : f[x].gap \in {"next", "apart"}
    <3>1. SUFFICES ASSUME NEW x \in 1..y, \A j \in x..(y - 1) : Removes(vs[j])
                   PROVE  f[x].gap \in {"next", "apart"}
      BY DEF Since
    <3>2. i < x
      <4>1. ~(x <= i)
        <5>1. x <= i => i \in x..(y - 1) BY <1>1, <2>2
        <5> QED BY <1>1, <3>1, <5>1
      <4> QED BY <1>1, <2>2, <4>1
    <3> QED BY <1>1, <1>5, <2>2, <3>2
  <2> QED BY <1>1, <2>2, <2>3, <2>4, GapIs
<1>11. \A l \in DOMAIN g : Claims(g)[l] = Claim(f[q[l]])
  <2>1. SUFFICES ASSUME NEW l \in DOMAIN g PROVE Claims(g)[l] = Claim(f[q[l]]) OBVIOUS
  <2>2. Same(g[l], f[q[l]]) BY DEF Rewritten
  <2>3. Claim(g[l]) = Claim(f[q[l]]) BY <2>2, SameClaim
  <2> QED BY <2>3 DEF Claims
<1> DEFINE left == {l \in Trail(g, k) : ~Removes(Claims(g)[l])}
<1>12. /\ \A l \in left : l \in 1..Len(g) /\ k <= l /\ ~Removes(Claim(f[q[l]]))
       /\ k \notin left
  <2>1. Trail(g, k) \subseteq k..Len(g) BY DEF Trail
  <2>2. \A l \in left : l \in 1..Len(g) /\ k <= l /\ ~Removes(Claim(f[q[l]]))
    BY <1>1, <1>8, <1>11, <2>1
  <2>3. Removes(Claim(f[i])) BY <1>1, <1>5, <1>6
  <2> QED BY <2>2, <2>3
<1>13. e \in left
  <2>1. \A j \in (k + 1)..e : g[j].gap \in {"next", "apart"} BY <1>8, <1>10
  <2>2. e \in Trail(g, k) BY <1>8, <2>1 DEF Trail
  <2>3. ~Removes(Claims(g)[e]) BY <1>5, <1>7, <1>11
  <2> QED BY <2>2, <2>3
<1>14. \A l \in left : e <= l
  <2>1. SUFFICES ASSUME NEW l \in left, l < e PROVE FALSE BY <1>8, <1>12
  <2>2. l \in DOMAIN g /\ k <= l /\ ~Removes(Claim(f[q[l]])) BY <1>1, <1>12
  <2>3. q[l] \in 1..n /\ i <= q[l] /\ q[l] < m BY <1>1, <1>7, <2>1, <2>2, OrderIs
  <2> QED BY <1>6, <2>2, <2>3
<1> HIDE DEF left
<1>15. Min(left) = e
  <2>1. \A x \in left : (\A y \in left : x <= y) => x = e
    <3>1. \A x \in left : x \in Int BY <1>12
    <3> QED BY <1>13, <1>14, <3>1
  <2> QED BY <1>13, <1>14, <2>1 DEF Min
<1>16. g[e].deep
  <2>1. Same(g[e], f[m]) BY <1>7 DEF Rewritten
  <2> QED BY <1>2, <2>1 DEF Same, m
<1>17. k \in Bodies(g) BY <1>2, <1>9 DEF Bodies
<1> QED BY <1>12, <1>13, <1>15, <1>16, <1>17 DEF Shields, left

\* Everything a rewrite leaves lasts, unless a length limit is set and comments shared a
\* line.
LEMMA RewriteLasts ==
  ASSUME TypeOK, NEW f \in Seq(Comment), Written(f, options.language), NEW vs, Decided(f, vs),
         options.maxLines > 0 => \A x \in DOMAIN f : f[x].gap # "same",
         NEW g, NEW q, Rewritten(f, vs, g, q), NEW k \in DOMAIN g
  PROVE  Lasts(g, k)
<1> DEFINE i == q[k]
<1>1. /\ i \in DOMAIN f /\ ~Removes(vs[i]) /\ Same(g[k], f[i])
      /\ g[k].gap = GapLeft(f, vs, i)
  BY DEF Rewritten
<1>2. Lasts(f, i) BY <1>1, KeptIs
<1>3. Claim(g[k]) = Claim(f[i]) /\ NamedOutright(g[k]) = NamedOutright(f[i]) BY <1>1, SameClaim
<1>4. Matched(f, i) => Matched(g, k) BY MatchedStays
<1>5. Stands(f, i) => Stands(g, k)
  <2>1. i \in Shields(f, Claims(f)) => k \in Shields(g, Claims(g)) BY ShieldStays
  <2> QED BY <1>3, <1>4, <2>1 DEF Stands
<1>6. HasCodeBeforeIt(g[k]) => HasCodeBeforeIt(f[i])
  <2>1. GapLeft(f, vs, i) \in {"code", "same"} => f[i].gap \in {"code", "same"}
    <3>1. Len(f) \in Nat /\ DOMAIN f = 1..Len(f) /\ \A x \in 1..Len(f) : f[x].gap \in Gap
      BY FileIs
    <3> QED BY <1>1, <3>1, GapIs
  <2> QED BY <1>1, <2>1 DEF HasCodeBeforeIt
<1>7. options.maxLines > 0 /\ RunLines(g, k) > options.maxLines =>
        RunLines(f, i) > options.maxLines
  <2>1. SUFFICES ASSUME options.maxLines > 0, RunLines(g, k) > options.maxLines
                 PROVE  RunLines(f, i) > options.maxLines
    OBVIOUS
  <2>2. options.maxLines \in 0..3 BY DEF TypeOK, Options
  <2>3. RunLines(g, k) \in Nat /\ RunLines(f, i) \in Nat /\ RunLines(g, k) <= RunLines(f, i)
    BY <2>1, RunShrinks
  <2> HIDE DEF i
  <2> QED BY <2>1, <2>2, <2>3
<1>8. g[k].claimed = f[i].claimed /\ g[k].tag = f[i].tag BY <1>1 DEF Same
<1>9. Taken(g, k) => Taken(f, i)
  BY <1>3, <1>4, <1>6, <1>7, <1>8 DEF Taken
<1> QED BY <1>2, <1>5, <1>8, <1>9 DEF Lasts

-----------------------------------------------------------------------------
(* The same passes over the rewrite.                                       *)

\* The settings are all that the rules read besides the file.
LEMMA SameSettings ==
  ASSUME UNCHANGED options
  PROVE  /\ \A f : /\ Claims(f)' = Claims(f) /\ Scanned(f)' = Scanned(f)
                   /\ Allowed(f)' = Allowed(f)
         /\ \A f, i : Lasts(f, i)' = Lasts(f, i)
         /\ \A c, v : Overdue(c, v)' = Overdue(c, v)
<1>1. \A c : Matches(c)' = Matches(c) BY DEF Matches
<1>2. \A c : NamedOutright(c)' = NamedOutright(c) BY <1>1 DEF NamedOutright
<1>3. \A c : Protected(c)' = Protected(c) /\ ToRemove(c)' = ToRemove(c) BY DEF Protected, ToRemove
<1>4. \A c : Keeps(options.policy, c.claimed)' = Keeps(options.policy, c.claimed) BY DEF Keeps
<1>5. \A c : Disposition(c)' = Disposition(c) BY <1>2, <1>3, <1>4 DEF Disposition
<1>6. \A c : Claim(c)' = Claim(c) BY <1>5 DEF Claim
<1>7. \A f : Claims(f)' = Claims(f) BY <1>6 DEF Claims
<1>8. \A f, vs : Shields(f, vs)' = Shields(f, vs) BY DEF Shields, Bodies
<1>9. \A f, vs : KeepTrails(f, vs)' = KeepTrails(f, vs) BY <1>8 DEF KeepTrails
<1>10. \A f : Scanned(f)' = Scanned(f) BY <1>7, <1>9 DEF Scanned
<1>11. \A f, i : Pattern(f, i)' = Pattern(f, i) BY DEF Pattern, Matches
<1>12. \A f, vs : KeepBlocks(f, vs)' = KeepBlocks(f, vs) BY <1>2, <1>11 DEF KeepBlocks
<1>13. EveryTag' = EveryTag BY DEF EveryTag
<1>14. \A f, vs : KeepTagged(f, vs)' = KeepTagged(f, vs) BY <1>13 DEF KeepTagged
<1>15. \A c, v : Reachable(c, v)' = Reachable(c, v) BY <1>2 DEF Reachable
<1>16. \A f, vs : RemoveTrailing(f, vs)' = RemoveTrailing(f, vs) BY <1>15 DEF RemoveTrailing
<1>17. \A f, vs : RemoveLong(f, vs)' = RemoveLong(f, vs) BY <1>15 DEF RemoveLong
<1>18. \A f : Allowed(f)' = Allowed(f)
  BY <1>10, <1>12, <1>14, <1>16, <1>17 DEF Allowed, ApplyAllowRules
<1>19. \A f, i : Matched(f, i)' = Matched(f, i) BY <1>2, <1>11 DEF Matched
<1>20. \A f, i : Stands(f, i)' = Stands(f, i) BY <1>6, <1>7, <1>8, <1>19 DEF Stands
<1>21. \A f, i : Taken(f, i)' = Taken(f, i) BY <1>2, <1>19 DEF Taken
<1>22. \A f, i : Lasts(f, i)' = Lasts(f, i) BY <1>13, <1>20, <1>21 DEF Lasts
<1>23. \A c, v : Overdue(c, v)' = Overdue(c, v) BY DEF Overdue
<1> QED BY <1>7, <1>10, <1>18, <1>22, <1>23

\* The guard of RewriteSettles.
Apart(f) == options.maxLines > 0 => ~options.wrap /\ \A i \in DOMAIN f : f[i].gap # "same"

\* What the verdicts are after each pass; and that everything a rewrite left lasts.
Settled ==
  /\ before = <<>> => file \in Seq(Comment) /\ Written(file, options.language)
  /\ DOMAIN verdicts = DOMAIN file
  /\ phase = "read" => verdicts = Claims(file)
  /\ phase = "scanned" => verdicts = Scanned(file)
  /\ phase = "allowed" => verdicts = Allowed(file)
  /\ phase = "styled" => \A i \in DOMAIN file :
       /\ Removes(verdicts[i]) <=> Removes(Allowed(file)[i])
       /\ verdicts[i].shape = Allowed(file)[i].shape
  /\ phase = "dated" => before = <<>> /\ Decided(file, verdicts)
  /\ before # <<>> /\ Apart(before) => \A k \in DOMAIN file : Lasts(file, k)

LEMMA SettledStep ==
  ASSUME IInv, IInv', Settled, [Next]_vars PROVE Settled'
<1>0. /\ TypeOK /\ DOMAIN verdicts = DOMAIN file
      /\ verdicts' \in [DOMAIN file' -> Verdict] /\ verdicts \in [DOMAIN file -> Verdict]
  BY DEF IInv, TypeOK, Settled
<1>1. DOMAIN verdicts' = DOMAIN file' BY <1>0
<1>2. ASSUME UNCHANGED <<file, options, before>>
      PROVE  /\ before' = <<>> => file' \in Seq(Comment) /\ Written(file', options'.language)
             /\ before' # <<>> /\ Apart(before)' => \A k \in DOMAIN file' : Lasts(file, k)'
  <2>1. \A k : Lasts(file, k)' = Lasts(file', k) BY <1>2, SameSettings
  <2>2. Apart(before)' = Apart(before) BY <1>2 DEF Apart
  <2> QED BY <1>2, <2>1, <2>2 DEF Settled
<1>3. CASE FinishScan
  <2>1. /\ verdicts' = KeepTrails(file, verdicts) /\ phase = "read" /\ phase' = "scanned"
        /\ UNCHANGED <<file, options, before>>
    BY <1>3 DEF FinishScan
  <2>2. verdicts' = Scanned(file) BY <2>1 DEF Settled, Scanned
  <2>3. Scanned(file)' = Scanned(file) BY <2>1, SameSettings
  <2> QED BY <1>1, <1>2, <2>1, <2>2, <2>3 DEF Settled
<1>4. CASE Allow
  <2>1. /\ verdicts' = ApplyAllowRules(file, verdicts) /\ phase = "scanned" /\ phase' = "allowed"
        /\ UNCHANGED <<file, options, before>>
    BY <1>4 DEF Allow
  <2>2. verdicts' = Allowed(file) BY <2>1 DEF Settled, Allowed
  <2>3. Allowed(file)' = Allowed(file) BY <2>1, SameSettings
  <2> QED BY <1>1, <1>2, <2>1, <2>2, <2>3 DEF Settled
<1>5. CASE ApplyStyle
  <2>1. /\ verdicts' = Restyle(file, verdicts, runs') /\ phase = "allowed" /\ phase' = "styled"
        /\ UNCHANGED <<file, options, before>>
    BY <1>5 DEF ApplyStyle
  <2>2. verdicts = Allowed(file) BY <2>1 DEF Settled
  <2>3. ASSUME NEW i \in DOMAIN file
        PROVE  /\ Removes(verdicts'[i]) <=> Removes(verdicts[i])
               /\ verdicts'[i].shape = verdicts[i].shape
    <3> DEFINE v == verdicts[i]
               w == verdicts'[i]
    <3>1. \/ w = v
          \/ v.action = "keep" /\ w = [v EXCEPT !.action = "rewrite", !.why = "style"]
      BY <1>0, <2>1 DEF Restyle
    <3>2. v \in Verdict BY <1>0
    <3> HIDE DEF v, w
    <3>3. (Removes(w) <=> Removes(v)) /\ w.shape = v.shape BY <3>1, <3>2 DEF Verdict, Removes
    <3> QED BY <3>3 DEF v, w
  <2>4. Allowed(file)' = Allowed(file) BY <2>1, SameSettings
  <2>5. \A i \in DOMAIN file' : /\ Removes(verdicts'[i]) <=> Removes(Allowed(file)'[i])
                               /\ verdicts'[i].shape = Allowed(file)'[i].shape
    BY <2>1, <2>2, <2>3, <2>4
  <2> QED BY <1>1, <1>2, <2>1, <2>5 DEF Settled, Removes
<1>6. CASE ApplyDeadlines
  <2>1. /\ verdicts' = Date(file, verdicts) /\ phase = "styled" /\ phase' = "dated" /\ before = <<>>
        /\ UNCHANGED <<file, options, before>>
    BY <1>6 DEF ApplyDeadlines
  <2>2. \A i \in DOMAIN file : /\ Removes(verdicts[i]) <=> Removes(Allowed(file)[i])
                              /\ verdicts[i].shape = Allowed(file)[i].shape
    BY <2>1 DEF Settled
  <2>3. ASSUME NEW i \in DOMAIN file
        PROVE  Removes(verdicts'[i]) <=> Removes(Allowed(file)[i]) \/ Overdue(file[i], Allowed(file)[i])
    <3> DEFINE v == verdicts[i]
               w == verdicts'[i]
    <3>1. w = IF Overdue(file[i], v) THEN Decide(v, "remove", "expired") ELSE v
      BY <1>0, <2>1 DEF Date
    <3>2. v \in Verdict BY <1>0
    <3>3. Overdue(file[i], v) <=> Overdue(file[i], Allowed(file)[i]) BY <2>2 DEF Overdue
    <3>4. Removes(v) <=> Removes(Allowed(file)[i]) BY <2>2
    <3> HIDE DEF v, w
    <3>5. Removes(Decide(v, "remove", "expired")) BY <3>2 DEF Decide, Removes, Verdict
    <3>6. Removes(w) <=> Removes(v) \/ Overdue(file[i], v) BY <3>1, <3>5
    <3> QED BY <3>3, <3>4, <3>6 DEF w
  <2>4. Allowed(file)' = Allowed(file) BY <2>1, SameSettings
  <2>5. \A i : Overdue(file[i], Allowed(file)[i])' = Overdue(file'[i], Allowed(file)'[i])
    BY <2>1, SameSettings
  <2>6. Decided(file, verdicts)' BY <2>1, <2>3, <2>4, <2>5 DEF Decided, Removes, Overdue
  <2> QED BY <1>1, <1>2, <2>1, <2>6 DEF Settled
<1>7. CASE Rescan
  <2>1. /\ phase = "dated" /\ phase' = "read" /\ before' = file
        /\ file' = Cleaned(file, verdicts, runs)
        /\ verdicts' = [i \in DOMAIN file' |-> Claim(file'[i])] /\ UNCHANGED options
    BY <1>7 DEF Rescan
  <2>2. /\ file \in Seq(Comment) /\ Written(file, options.language) /\ Decided(file, verdicts)
        /\ DOMAIN verdicts = DOMAIN file
    BY <2>1 DEF Settled
  <2>3. Rewritten(file, verdicts, file', Left(verdicts)) BY <2>1, <2>2, CleanedIs
  <2>4. Claims(file)' = verdicts'
    <3>1. Claims(file)' = Claims(file') BY <2>1, SameSettings
    <3> QED BY <2>1, <3>1 DEF Claims
  <2>5. file = <<>> => file' = <<>>
    <3>1. SUFFICES ASSUME file = <<>> PROVE file' = <<>> OBVIOUS
    <3>2. DOMAIN file' = {} BY <2>3, <3>1 DEF Rewritten
    <3>3. file' = [k \in DOMAIN Left(verdicts) |-> file'[k]] BY <2>1 DEF Cleaned
    <3> QED BY <3>2, <3>3
  <2>6. before' = <<>> => file' \in Seq(Comment) /\ Written(file', options'.language)
    <3>1. SUFFICES ASSUME file = <<>> PROVE file' \in Seq(Comment) /\ Written(file', options'.language)
      BY <2>1
    <3>2. file' = <<>> BY <2>5, <3>1
    <3> QED BY <3>2 DEF Written
  <2>7. ASSUME Apart(before)', NEW k \in DOMAIN file' PROVE Lasts(file, k)'
    <3>1. options.maxLines > 0 => \A x \in DOMAIN file : file[x].gap # "same"
      BY <2>1, <2>7 DEF Apart
    <3>2. Lasts(file', k) BY <1>0, <2>2, <2>3, <2>7, <3>1, RewriteLasts
    <3>3. Lasts(file, k)' = Lasts(file', k) BY <2>1, SameSettings
    <3> QED BY <3>2, <3>3
  <2> QED BY <1>1, <2>1, <2>4, <2>6, <2>7 DEF Settled
<1>8. CASE UNCHANGED vars
  <2>1. UNCHANGED <<file, options, verdicts, phase, before>> BY <1>8 DEF vars
  <2>2. /\ Claims(file)' = Claims(file) /\ Scanned(file)' = Scanned(file)
        /\ Allowed(file)' = Allowed(file)
    BY <2>1, SameSettings
  <2>3. Decided(file, verdicts)' = Decided(file, verdicts)
    BY <2>1, <2>2 DEF Decided, Removes, Overdue
  <2> QED BY <1>1, <1>2, <2>1, <2>2, <2>3 DEF Settled, Removes
<1> QED BY <1>3, <1>4, <1>5, <1>6, <1>7, <1>8 DEF Next

\* The files and settings a run starts with.
LEMMA SettledInit ==
  ASSUME Init PROVE Settled
<1>1. PICK s \in Scenes : file \in s.files /\ options \in s.options BY DEF Init
<1>2. file \in Seq(Comment) /\ Written(file, options.language) BY <1>1, ScenesAssumption
<1>3. verdicts = Claims(file) /\ phase = "read" /\ before = <<>> BY DEF Init, Claims
<1>4. DOMAIN verdicts = DOMAIN file BY <1>3 DEF Claims
<1> QED BY <1>2, <1>3, <1>4 DEF Settled

-----------------------------------------------------------------------------
(* The properties.                                                          *)

\* What the settings name to be kept, and what only force_protected reaches, stays: no rule
\* about shape, place, length or age takes it in any pass, in a file of any length and after
\* any rewrite.
THEOREM NamedAlwaysSurvives == Spec => []NamedSurvives
<1>1. IInv => NamedSurvives BY DEF IInv, AllFirm, Firm, Stays, NamedSurvives
<1> QED BY <1>1, FirmAlways, PTL

\* A block of comments keep_regex matches anywhere stays whole, however long it is and
\* whatever the rules about place say of its comments.
THEOREM BlocksAlwaysStayWhole == Spec => []BlocksStayWhole
<1>1. IInv => BlocksStayWhole
  <2>1. SUFFICES ASSUME IInv, phase \in {"allowed", "styled", "dated"}, NEW i \in DOMAIN file,
                        NEW j \in DOMAIN file, j \in Block(file, i), Matches(file[j]) # {}
                 PROVE  ~Removes(verdicts[i])
    BY DEF BlocksStayWhole
  <2>2. Pattern(file, i) # 0 BY <2>1, PatternIs DEF IInv
  <2>3. Firm(file[i], phase \notin {"read", "scanned"} /\ Pattern(file, i) # 0, verdicts[i])
    BY <2>1 DEF IInv, AllFirm
  <2> QED BY <2>1, <2>2, <2>3 DEF Firm, Stays
<1> QED BY <1>1, FirmAlways, PTL

\* The rule an explanation reads off a verdict is what decided it, and the table it asks when
\* nothing is recorded says what the scan said.
LEMMA ExplainedIs ==
  ASSUME TypeOK, NEW i \in DOMAIN file, Accounts(file[i], verdicts[i]),
         ~(/\ verdicts[i].action = "keep" /\ file[i].claimed \in SubjectToStyle
           /\ options.spell /\ file[i].rough)
  PROVE  Explained(i) = verdicts[i].action
<1> DEFINE c == file[i]
           v == verdicts[i]
           byTable == ExplainTable(c)[1]
           spelling == byTable = "keep" /\ c.claimed \in SubjectToStyle /\ options.spell /\ c.rough
           rules == << <<v.action = "rewrite", "rewrite", "style">>,
                       <<v.shape # "none", IF v.shape = "tagged" THEN "keep" ELSE "remove", "shape">>,
                       <<v.regex > 0, "keep", "kept by regex">>,
                       <<v.why = "structural", "keep", "structural">>,
                       <<spelling, "rewrite", "style">>,
                       <<TRUE, byTable, "table">> >>
<1>1. Explained(i) = FirstRule(rules)[1] BY DEF Explained
<1>2. /\ Len(rules) = 6
      /\ rules[1][1] <=> v.action = "rewrite"
      /\ rules[2][1] <=> v.shape # "none"
      /\ rules[3][1] <=> v.regex > 0
      /\ rules[4][1] <=> v.why = "structural"
      /\ rules[5][1] <=> spelling
      /\ rules[6][1]
  OBVIOUS
<1>3. /\ rules[1][2] = "rewrite"
      /\ rules[2][2] = IF v.shape = "tagged" THEN "keep" ELSE "remove"
      /\ rules[3][2] = "keep"
      /\ rules[4][2] = "keep"
      /\ rules[6][2] = byTable
  OBVIOUS
<1>4. v \in Verdict /\ byTable = ByItself(c) /\ Accounts(c, v)
  BY TableAgrees, DispositionIs DEF TypeOK
<1>5. spelling <=> byTable = "keep" /\ c.claimed \in SubjectToStyle /\ options.spell /\ c.rough
  OBVIOUS
<1>6. ~(v.action = "keep" /\ c.claimed \in SubjectToStyle /\ options.spell /\ c.rough)
  OBVIOUS
<1> HIDE DEF rules, v, c, byTable, spelling
<1>7. ASSUME NEW k \in 1..6, rules[k][1], \A j \in 1..(k - 1) : ~rules[j][1]
      PROVE  Explained(i) = rules[k][2]
  <2>1. FirstRule(rules) = <<rules[k][2], rules[k][3]>> BY <1>2, <1>7, FirstApplies
  <2> QED BY <1>1, <2>1
<1>8. v.action \in {"keep", "rewrite", "remove"} BY <1>4 DEF Verdict
<1>9. CASE v.action = "rewrite"
  <2>1. Explained(i) = rules[1][2] BY <1>2, <1>7, <1>9
  <2> QED BY <1>3, <1>9, <2>1 DEF v
<1>10. CASE v.action # "rewrite" /\ v.shape # "none"
  <2>1. Explained(i) = rules[2][2] BY <1>2, <1>7, <1>10
  <2> QED BY <1>3, <1>4, <1>8, <1>10, <2>1 DEF Accounts, Removes, v
<1>11. CASE v.action # "rewrite" /\ v.shape = "none" /\ (v.regex > 0 \/ v.why = "structural")
  <2>1. v.action = "keep" BY <1>4, <1>8, <1>11 DEF Accounts, Removes
  <2>2. CASE v.regex > 0
    <3>1. \A j \in 1..2 : ~rules[j][1] BY <1>2, <1>11
    <3>2. Explained(i) = rules[3][2] BY <1>2, <1>7, <2>2, <3>1
    <3> QED BY <1>3, <2>1, <3>2 DEF v
  <2>3. CASE ~(v.regex > 0)
    <3>1. \A j \in 1..3 : ~rules[j][1] BY <1>2, <1>11, <2>3
    <3>2. Explained(i) = rules[4][2] BY <1>2, <1>7, <1>11, <2>3, <3>1
    <3> QED BY <1>3, <2>1, <3>2 DEF v
  <2> QED BY <2>2, <2>3
<1>12. CASE v.action # "rewrite" /\ v.shape = "none" /\ ~(v.regex > 0) /\ v.why # "structural"
  <2>1. v.why # "style" /\ v.action = byTable BY <1>4, <1>12 DEF Accounts
  <2>2. ~spelling BY <1>5, <1>6, <2>1
  <2>3. \A j \in 1..5 : ~rules[j][1] BY <1>2, <1>12, <2>2
  <2>4. Explained(i) = rules[6][2] BY <1>2, <1>7, <2>3
  <2> QED BY <1>3, <2>1, <2>4 DEF v
<1> QED BY <1>9, <1>10, <1>11, <1>12

\* explain_comment names a rule that does what happened to the comment, for every file and
\* all settings, once the style rules and the deadlines have been applied.
THEOREM ExplanationAlwaysHolds == Spec => []ExplanationHolds
<1>1. IInv => ExplanationHolds
  <2>1. SUFFICES ASSUME IInv, phase \in {"styled", "dated"},
                        NEW i \in DOMAIN file \ {j \in UNION runs : file[j].rough}
                 PROVE  Explained(i) = verdicts[i].action
    BY DEF ExplanationHolds
  <2>2. TypeOK /\ Accounts(file[i], verdicts[i]) BY <2>1 DEF IInv, AllFirm, Firm
  <2>3. ~(/\ verdicts[i].action = "keep" /\ file[i].claimed \in SubjectToStyle
          /\ options.spell /\ file[i].rough)
    BY <2>1 DEF IInv, Spelled
  <2> QED BY <2>2, <2>3, ExplainedIs
<1> QED BY <1>1, FirmAlways, PTL

\* Scanned again, a rewrite has nothing left to remove: for files of any length and any
\* settings, unless a length limit is set and comments shared a line or paragraphs were
\* reflowed.
THEOREM RewritesAlwaysSettle == Spec => []RewriteSettles
<1>1. Init => Settled BY SettledInit
<1>2. IInv /\ IInv' /\ Settled /\ [Next]_vars => Settled' BY SettledStep
<1>3. IInv /\ Settled => RewriteSettles
  <2>1. SUFFICES ASSUME IInv, Settled, before # <<>>, phase = "styled", Apart(before),
                        NEW i \in DOMAIN file
                 PROVE  ~Removes(verdicts[i])
    BY DEF RewriteSettles, Apart
  <2>2. TypeOK /\ Lasts(file, i) BY <2>1 DEF IInv, Settled
  <2>3. Removes(verdicts[i]) <=> Removes(Allowed(file)[i]) BY <2>1 DEF Settled
  <2> QED BY <2>2, <2>3, AllowedIs
<1> QED BY <1>1, <1>2, <1>3, FirmAlways, PTL DEF Spec
=============================================================================
