--------------------------- MODULE Settings_proofs --------------------------
(***************************************************************************)
(* Settings for any applications, files, menus and any number of failed    *)
(* writes: a start finds what was last saved, keeps what a file spells     *)
(* out, and the commands never make a second rule for an application.      *)
(* Where a key and matching say the same, a click on it changes the rule   *)
(* of its own application only, and every row shows it.                    *)
(***************************************************************************)
EXTENDS Settings, TLAPS, WellFoundedInduction, FiniteSetTheorems

-----------------------------------------------------------------------------
(* The elements that a list keeps.                                         *)

(* The natural numbers are well-ordered; what follows needs no induction   *)
(* beyond that.                                                            *)
Less == {ss \in Nat \X Nat : ss[1] < ss[2]}
LEMMA LessIsWellFounded == IsWellFoundedOn(Less, Nat)
BY NatLessThanWellFounded DEF OpToRel, Less

LEMMA Least ==
  ASSUME NEW T \in SUBSET Nat, T # {}
  PROVE  \E x \in T : \A y \in T : x <= y
<1>1. PICK x \in T : \A y \in T : ~(<<y, x>> \in Less)
  BY LessIsWellFounded, WFMin
<1>2. ASSUME NEW y \in T, y < x PROVE FALSE
  <2>1. <<y, x>> \in Less
    BY <1>2 DEF Less
  <2> QED
    BY <1>1, <2>1
<1>3. \A y \in T : ~(y < x)
  BY <1>2
<1> QED
  BY <1>3

LEMMA Greatest ==
  ASSUME NEW n \in Nat, NEW T \in SUBSET (0..n), T # {}
  PROVE  \E x \in T : \A y \in T : y <= x
<1> DEFINE B == {m \in Nat : \A y \in T : y <= m}
<1>1. B # {} /\ B \subseteq Nat
  <2>1. n \in B
    OBVIOUS
  <2> QED
    BY <2>1
<1>2. PICK m \in B : \A k \in B : m <= k
  BY <1>1, Least
<1>3. m \in T
  <2> SUFFICES ASSUME m \notin T PROVE FALSE
    OBVIOUS
  <2>1. PICK y \in T : TRUE
    OBVIOUS
  <2>2. m \in Nat /\ y \in Nat /\ y < m
    OBVIOUS
  <2>3. \A z \in T : z <= m - 1
    OBVIOUS
  <2>4. m - 1 \in B
    BY <2>2, <2>3
  <2> QED
    BY <1>2, <2>2, <2>4
<1> QED
  BY <1>3

(* Ranks *)
UpTo(kept, i) == {j \in kept : j <= i}
LEMMA RankExists ==
  ASSUME NEW m \in Nat, NEW kept \in SUBSET (0..m), NEW n \in 1..Cardinality(kept)
  PROVE  \E i \in kept : Cardinality(UpTo(kept, i)) = n
<1>1. IsFiniteSet(kept) /\ \A S \in SUBSET kept : IsFiniteSet(S) /\ Cardinality(S) \in Nat
  <2>1. IsFiniteSet(0..m)
    BY FS_Interval
  <2>2. IsFiniteSet(kept)
    BY <2>1, FS_Subset
  <2>3. \A S \in SUBSET kept : IsFiniteSet(S)
    BY <2>2, FS_Subset
  <2> QED
    BY <2>2, <2>3, FS_CardinalityType
<1>2. \A i \in kept : UpTo(kept, i) \subseteq kept /\ i \in UpTo(kept, i)
  BY DEF UpTo
<1> DEFINE T == {i \in kept : Cardinality(UpTo(kept, i)) >= n}
<1>3. T # {}
  <2>1. kept # {}
    <3>1. Cardinality({}) = 0
      BY FS_EmptySet
    <3>2. Cardinality(kept) # 0
      BY <1>1
    <3> QED
      BY <3>1, <3>2
  <2>2. PICK x \in kept : \A y \in kept : y <= x
    BY <2>1, Greatest
  <2>3. UpTo(kept, x) = kept
    BY <2>2 DEF UpTo
  <2>4. Cardinality(kept) >= n
    BY <1>1
  <2> QED
    BY <2>3, <2>4
<1>4. PICK i \in T : \A j \in T : i <= j
  <2>1. T \subseteq kept /\ kept \subseteq Nat
    OBVIOUS
  <2> QED
    BY <1>3, <2>1, Least
<1> DEFINE U == UpTo(kept, i)  L == UpTo(kept, i) \ {i}
<1>5. Cardinality(L) = Cardinality(U) - 1
  BY <1>1, <1>2, FS_RemoveElement
<1>6. Cardinality(U) <= n
  <2> SUFFICES ASSUME Cardinality(L) >= n PROVE FALSE
    BY <1>1, <1>2, <1>5
  <2>1. L # {}
    <3>1. Cardinality({}) = 0
      BY FS_EmptySet
    <3> QED
      BY <3>1
  <2>2. L \in SUBSET (0..m)
    BY <1>2
  <2>3. PICK j \in L : \A y \in L : y <= j
    BY <2>1, <2>2, Greatest
  <2>4. j \in kept /\ j < i
    BY DEF UpTo
  <2>5. UpTo(kept, j) = L
    <3>0. i \in kept /\ j \in kept
      BY <2>4
    <3>2. \A k \in kept : k \in Nat
      OBVIOUS
    <3>1. i \in Nat /\ j \in Nat
      BY <3>0, <3>2
    <3>3. \A k : k \in L <=> k \in kept /\ k <= i /\ k # i
      BY DEF UpTo
    <3>4. \A k : k \in UpTo(kept, j) <=> k \in kept /\ k <= j
      BY DEF UpTo
    <3>5. \A k \in L : k <= j
      BY <2>3
    <3>6. \A k \in kept : k <= j => k <= i /\ k # i
      BY <2>4, <3>1, <3>2
    <3> QED
      BY <3>3, <3>4, <3>5, <3>6
  <2>6. j \in T
    BY <2>4, <2>5
  <2> QED
    BY <1>4, <2>4, <2>6
<1> QED
  BY <1>1, <1>2, <1>6

(* The position in a list of the n-th element that is kept.                *)
Kept(kept, n) == CHOOSE i \in kept : Cardinality(UpTo(kept, i)) = n

LEMMA SubsequenceFacts ==
  ASSUME NEW S, NEW list \in Seq(S), NEW kept \in SUBSET (DOMAIN list)
  PROVE  /\ Subsequence(list, kept) \in Seq(S)
         /\ DOMAIN Subsequence(list, kept) = 1..Cardinality(kept)
         /\ \A n \in 1..Cardinality(kept) :
              Kept(kept, n) \in kept /\ Subsequence(list, kept)[n] = list[Kept(kept, n)]
         /\ \A m, n \in 1..Cardinality(kept) :
              Kept(kept, m) = Kept(kept, n) => m = n
<1>1. Len(list) \in Nat /\ kept \in SUBSET (0..Len(list)) /\ DOMAIN list = 1..Len(list)
  OBVIOUS
<1>2. IsFiniteSet(kept) /\ Cardinality(kept) \in Nat
  <2>1. IsFiniteSet(0..Len(list))
    BY <1>1, FS_Interval
  <2> QED
    BY <1>1, <2>1, FS_Subset, FS_CardinalityType
<1>3. \A n \in 1..Cardinality(kept) :
        Kept(kept, n) \in kept /\ Cardinality(UpTo(kept, Kept(kept, n))) = n
  BY <1>1, RankExists DEF Kept
<1>4. \A n \in 1..Cardinality(kept) : Subsequence(list, kept)[n] = list[Kept(kept, n)]
  BY DEF Subsequence, Kept, UpTo
<1>5. DOMAIN Subsequence(list, kept) = 1..Cardinality(kept)
  BY DEF Subsequence
<1>6. Subsequence(list, kept) = [n \in 1..Cardinality(kept) |-> list[Kept(kept, n)]]
  BY DEF Subsequence, Kept, UpTo
<1>7. \A n \in 1..Cardinality(kept) : list[Kept(kept, n)] \in S
  BY <1>1, <1>3
<1>8. Subsequence(list, kept) \in Seq(S)
  BY <1>2, <1>6, <1>7
<1> QED
  BY <1>3, <1>4, <1>5, <1>8

-----------------------------------------------------------------------------
(* Files and configurations.                                               *)

(* The track-in lists that are stored: normal, and never empty.            *)
StoredTrackIn == ((SUBSET Places) \ {{}}) \cup {{"none"}}
StoredRule == [id : Ids, mode : Words, trackIn : StoredTrackIn, target : BOOLEAN]

Config ==
  [management : BOOLEAN, limiter : BOOLEAN, interval : Int, grace : Int,
   window : Int, theme : Words, battery : Optional(Int), rules : Seq(Rule)]

(* The configurations that Migrate leaves as they are.                     *)
Settled ==
  [management : BOOLEAN, limiter : BOOLEAN, interval : Int \ {0}, grace : Int,
   window : MinWindow..MaxWindow, theme : Themes, battery : Optional(Int),
   rules : Seq(StoredRule)]

AnyFile == ConfigFile \cup {Missing, Garbled, Newer}

LEMMA NormalizeFacts ==
  ASSUME NEW trackIn
  PROVE  /\ Normalize(trackIn) = {} \/ Normalize(trackIn) \in StoredTrackIn
         /\ trackIn \in StoredTrackIn => Normalize(trackIn) = trackIn
<1> DEFINE places == (trackIn \cap Places) \cup {p \in {"menu_bar"} : "tray" \in trackIn}
<1>1. Normalize(trackIn) = IF places = {} THEN trackIn \cap {"none"} ELSE places
  BY DEF Normalize
<1>2. places \subseteq Places BY DEF Places
<1>3. trackIn \cap {"none"} \in {{}, {"none"}} OBVIOUS
<1>4. Normalize(trackIn) = {} \/ Normalize(trackIn) \in StoredTrackIn
  BY <1>1, <1>2, <1>3 DEF StoredTrackIn
<1>5. CASE trackIn = {"none"}
  <2>1. places = {} BY <1>5 DEF Places
  <2> QED BY <1>1, <1>4, <1>5, <2>1
<1>6. CASE trackIn \in (SUBSET Places) \ {{}}
  <2>1. places = trackIn BY <1>6 DEF Places
  <2> QED BY <1>1, <1>4, <1>6, <2>1
<1> QED BY <1>4, <1>5, <1>6 DEF StoredTrackIn

LEMMA EffectiveFacts ==
  ASSUME NEW rule
  PROVE  /\ Effective(rule) \subseteq Places
         /\ Normalize(rule.trackIn) = {} => Effective(rule) \in StoredTrackIn
<1>1. DefaultTrackIn(rule.mode) \in (SUBSET Places) \ {{}}
  <2>1. "managed" \in DefaultTrackIn(rule.mode) BY DEF DefaultTrackIn, Places
  <2>2. DefaultTrackIn(rule.mode) \subseteq Places BY DEF DefaultTrackIn, Places
  <2> QED BY <2>1, <2>2
<1>2. CASE Normalize(rule.trackIn) = {}
  <2>1. Effective(rule) = DefaultTrackIn(rule.mode) BY <1>2 DEF Effective
  <2> QED BY <1>1, <2>1 DEF StoredTrackIn
<1>3. CASE Normalize(rule.trackIn) # {}
  <2>1. Effective(rule) = Normalize(rule.trackIn) \cap Places
    BY <1>3 DEF Effective
  <2> QED BY <1>3, <2>1
<1> QED BY <1>2, <1>3

LEMMA StoredIsRule == StoredRule \subseteq Rule
<1> StoredTrackIn \subseteq SUBSET Words BY DEF StoredTrackIn, Words
<1> QED BY DEF StoredRule, Rule

LEMMA MigrateRuleFacts ==
  ASSUME NEW rule \in Rule
  PROVE  /\ MigrateRule(rule) \in StoredRule
         /\ SameRule(MigrateRule(rule), rule)
         /\ rule \in StoredRule => MigrateRule(rule) = rule
<1>1. CASE Normalize(rule.trackIn) = {}
  <2>1. MigrateRule(rule) = [rule EXCEPT !.trackIn = Effective(rule)]
    BY <1>1 DEF MigrateRule
  <2>2. {} \notin StoredTrackIn
    <3>1. {"none"} # {} OBVIOUS
    <3> QED BY <3>1 DEF StoredTrackIn
  <2>3. rule \notin StoredRule
    BY <1>1, <2>2, NormalizeFacts DEF StoredRule
  <2>4. Effective(rule) \in StoredTrackIn /\ Effective(rule) \subseteq Places
    BY <1>1, EffectiveFacts
  <2> DEFINE places == Effective(rule)
  <2>5. places # {} BY <2>2, <2>4
  <2>6. Normalize(places) = places BY <2>4, NormalizeFacts
  <2> HIDE DEF places
  <2>7. MigrateRule(rule) = [rule EXCEPT !.trackIn = places] BY <2>1 DEF places
  <2>8. MigrateRule(rule).trackIn = places BY <2>7 DEF Rule
  <2>9. Effective(MigrateRule(rule)) = places
    BY <2>4, <2>5, <2>6, <2>8 DEF Effective, places
  <2>10. SameRule(MigrateRule(rule), rule)
    BY <2>7, <2>9 DEF SameRule, Rule, places
  <2>11. MigrateRule(rule) \in StoredRule
    BY <2>4, <2>7 DEF Rule, StoredRule, places
  <2> QED BY <2>3, <2>10, <2>11
<1>2. CASE Normalize(rule.trackIn) # {}
  <2> DEFINE normal == Normalize(rule.trackIn)
  <2>1. MigrateRule(rule) = [rule EXCEPT !.trackIn = normal]
    BY <1>2 DEF MigrateRule
  <2>2. normal \in StoredTrackIn BY <1>2, NormalizeFacts
  <2>3. Normalize(normal) = normal BY <2>2, NormalizeFacts
  <2>4. rule \in StoredRule => normal = rule.trackIn
    BY NormalizeFacts DEF StoredRule
  <2>5. Effective(rule) = normal \cap Places BY <1>2 DEF Effective
  <2>0. normal # {} BY <1>2
  <2> HIDE DEF normal
  <2>6. MigrateRule(rule).trackIn = normal BY <2>1 DEF Rule
  <2>7. Effective(MigrateRule(rule)) = normal \cap Places
    BY <2>0, <2>3, <2>6 DEF Effective
  <2>8. SameRule(MigrateRule(rule), rule) BY <2>1, <2>5, <2>7 DEF SameRule, Rule
  <2>9. MigrateRule(rule) \in StoredRule BY <2>1, <2>2 DEF Rule, StoredRule
  <2>10. rule \in StoredRule => MigrateRule(rule) = rule
    BY <2>1, <2>4 DEF StoredRule
  <2> QED BY <2>8, <2>9, <2>10
<1> QED BY <1>1, <1>2

LEMMA NormalizeWindowFacts ==
  ASSUME NEW w \in Int
  PROVE  /\ NormalizeWindow(w) \in MinWindow..MaxWindow
         /\ w \in MinWindow..MaxWindow => NormalizeWindow(w) = w
BY DEF NormalizeWindow, MinWindow, MaxWindow, DefaultConfig

LEMMA DefaultIsSettled == DefaultConfig \in Settled
BY DEF DefaultConfig, Settled, MinWindow, MaxWindow, Themes, Optional

LEMMA SettledIsConfig == Settled \subseteq Config
<1> SUFFICES ASSUME NEW c \in Settled PROVE c \in Config OBVIOUS
<1>1. c.rules \in Seq(Rule) BY StoredIsRule DEF Settled
<1>2. MinWindow..MaxWindow \subseteq Int BY DEF MinWindow, MaxWindow
<1>3. Themes \subseteq Words BY DEF Words
<1> QED BY <1>1, <1>2, <1>3 DEF Settled, Config

LEMMA SameFields ==
  ASSUME NEW c \in Settled, NEW d \in Settled,
         c.management = d.management, c.limiter = d.limiter,
         c.interval = d.interval, c.grace = d.grace, c.window = d.window,
         c.theme = d.theme, c.battery = d.battery, c.rules = d.rules
  PROVE  c = d
BY DEF Settled

(* MigrateConfig settles a configuration, and one that is settled stays.   *)
(* It changes nothing that is in range.                                    *)
MigratedFields(c) ==
  /\ Migrate(c).battery = c.battery
  /\ Migrate(c).interval = IF c.interval = 0 THEN DefaultConfig.interval ELSE c.interval
  /\ c.window \in MinWindow..MaxWindow => Migrate(c).window = c.window
  /\ c.theme \in Themes => Migrate(c).theme = c.theme

LEMMA MigrateFacts ==
  ASSUME NEW c \in Config
  PROVE  /\ Migrate(c) \in Settled
         /\ DOMAIN Migrate(c).rules = DOMAIN c.rules
         /\ \A i \in DOMAIN c.rules : SameRule(Migrate(c).rules[i], c.rules[i])
         /\ c \in Settled => Migrate(c) = c
         /\ MigratedFields(c)
<1> DEFINE rules == [i \in DOMAIN c.rules |-> MigrateRule(c.rules[i])]
<1>1. rules \in Seq(StoredRule) BY MigrateRuleFacts DEF Config
<1>2. \A i \in DOMAIN c.rules : SameRule(rules[i], c.rules[i])
  BY MigrateRuleFacts DEF Config
<1>3. c \in Settled => rules = c.rules
  <2> SUFFICES ASSUME c \in Settled PROVE rules = c.rules OBVIOUS
  <2>1. c.rules \in Seq(StoredRule) BY DEF Settled
  <2>2. \A i \in DOMAIN c.rules : MigrateRule(c.rules[i]) = c.rules[i]
    BY <2>1, MigrateRuleFacts, StoredIsRule
  <2> QED BY <2>1, <2>2
<1> HIDE DEF rules
<1>4. Migrate(c) =
        [c EXCEPT !.interval = IF @ = 0 THEN DefaultConfig.interval ELSE @,
                  !.window = NormalizeWindow(@), !.theme = NormalizeTheme(@),
                  !.rules = rules]
  BY DEF Migrate, rules
<1>5. DefaultConfig.interval = 3 BY DEF DefaultConfig
<1>6. /\ NormalizeTheme(c.theme) \in Themes
      /\ c.theme \in Themes => NormalizeTheme(c.theme) = c.theme
  BY DEF NormalizeTheme, Themes
<1>7. Migrate(c) \in Settled
  <2>1. NormalizeWindow(c.window) \in MinWindow..MaxWindow
    BY NormalizeWindowFacts DEF Config
  <2>2. (IF c.interval = 0 THEN DefaultConfig.interval ELSE c.interval) \in Int \ {0}
    BY <1>5 DEF Config
  <2>3. NormalizeTheme(c.theme) \in Themes BY <1>6
  <2> QED BY <1>1, <1>4, <2>1, <2>2, <2>3 DEF Config, Settled
<1>8. Migrate(c).rules = rules BY <1>4 DEF Config
<1>9. ASSUME c \in Settled PROVE Migrate(c) = c
  <2>1. NormalizeWindow(c.window) = c.window
    BY <1>9, NormalizeWindowFacts DEF Config, Settled
  <2>2. NormalizeTheme(c.theme) = c.theme BY <1>6, <1>9 DEF Settled
  <2>3. (IF c.interval = 0 THEN DefaultConfig.interval ELSE c.interval) = c.interval
    BY <1>9 DEF Settled
  <2>4. /\ Migrate(c).management = c.management /\ Migrate(c).limiter = c.limiter
        /\ Migrate(c).interval = c.interval /\ Migrate(c).grace = c.grace
        /\ Migrate(c).window = c.window /\ Migrate(c).theme = c.theme
        /\ Migrate(c).battery = c.battery /\ Migrate(c).rules = c.rules
    BY <1>3, <1>4, <1>9, <2>1, <2>2, <2>3 DEF Config
  <2> QED BY <1>7, <1>9, <2>4, SameFields
<1>10. MigratedFields(c)
  <2>1. c.window \in MinWindow..MaxWindow => NormalizeWindow(c.window) = c.window
    BY NormalizeWindowFacts DEF Config
  <2> QED BY <1>4, <1>6, <2>1 DEF MigratedFields, Config
<1>11. DOMAIN rules = DOMAIN c.rules BY DEF rules
<1> QED BY <1>2, <1>7, <1>8, <1>9, <1>10, <1>11

LEMMA OrFacts ==
  ASSUME NEW S, NEW optional \in Optional(S), NEW default
  PROVE  /\ optional = {} => Or(optional, default) = default
         /\ optional # {} => /\ Or(optional, default) \in S
                             /\ optional = {Or(optional, default)}
BY DEF Or, Element, Optional

LEMMA OrType ==
  ASSUME NEW S, NEW optional \in Optional(S), NEW default \in S
  PROVE  Or(optional, default) \in S
BY OrFacts

LEMMA DecodeFacts ==
  ASSUME NEW f \in ConfigFile
  PROVE  Decode(f) \in Config /\ Decode(f).rules = f.rules /\ Decode(f).battery = f.battery
<1>1. /\ Or(f.management, FALSE) \in BOOLEAN /\ Or(f.limiter, FALSE) \in BOOLEAN
      /\ Or(f.interval, 0) \in Int /\ Or(f.grace, 0) \in Int /\ Or(f.window, 0) \in Int
      /\ Or(f.theme, "") \in Words
  <2>1. /\ f.management \in Optional(BOOLEAN) /\ f.limiter \in Optional(BOOLEAN)
        /\ f.interval \in Optional(Int) /\ f.grace \in Optional(Int)
        /\ f.window \in Optional(Int) /\ f.theme \in Optional(Words)
    BY DEF ConfigFile
  <2>2. Or(f.management, FALSE) \in BOOLEAN BY <2>1, OrType
  <2>3. Or(f.limiter, FALSE) \in BOOLEAN BY <2>1, OrType
  <2>4. Or(f.interval, 0) \in Int BY <2>1, OrType
  <2>5. Or(f.grace, 0) \in Int BY <2>1, OrType
  <2>6. Or(f.window, 0) \in Int BY <2>1, OrType
  <2>7. Or(f.theme, "") \in Words BY <2>1, OrType DEF Words
  <2> QED BY <2>2, <2>3, <2>4, <2>5, <2>6, <2>7
<1> QED BY <1>1 DEF Decode, Config, ConfigFile

(* LoadConfig gives a settled configuration with the rules of the file.    *)
LEMMA LoadFacts ==
  ASSUME NEW f \in AnyFile
  PROVE  /\ Load(f) \in Settled
         /\ f \notin ConfigFile => Load(f) = DefaultConfig
         /\ f \in ConfigFile =>
              /\ Load(f) = Backfill(f)
              /\ DOMAIN Load(f).rules = DOMAIN f.rules
              /\ \A i \in DOMAIN f.rules : SameRule(Load(f).rules[i], f.rules[i])
<1>1. CASE f \in ConfigFile
  <2> DEFINE m == Migrate(Decode(f))
  <2>1. Load(f) = Backfill(f) BY <1>1 DEF Load, ConfigFile
  <2>2. m \in Settled BY <1>1, DecodeFacts, MigrateFacts
  <2>3. /\ DOMAIN m.rules = DOMAIN f.rules
        /\ \A i \in DOMAIN f.rules : SameRule(m.rules[i], f.rules[i])
    BY <1>1, DecodeFacts, MigrateFacts
  <2>4. /\ Or(f.management, DefaultConfig.management) \in BOOLEAN
        /\ Or(f.limiter, DefaultConfig.limiter) \in BOOLEAN
        /\ Or(f.grace, Or(f.startup, DefaultConfig.grace)) \in Int
    <3>1. /\ f.management \in Optional(BOOLEAN) /\ f.limiter \in Optional(BOOLEAN)
          /\ f.grace \in Optional(Int) /\ f.startup \in Optional(Int)
      BY <1>1 DEF ConfigFile
    <3>2. /\ DefaultConfig.management \in BOOLEAN /\ DefaultConfig.limiter \in BOOLEAN
          /\ DefaultConfig.grace \in Int
      BY DEF DefaultConfig
    <3>3. Or(f.management, DefaultConfig.management) \in BOOLEAN BY <3>1, <3>2, OrType
    <3>4. Or(f.limiter, DefaultConfig.limiter) \in BOOLEAN BY <3>1, <3>2, OrType
    <3>5. Or(f.startup, DefaultConfig.grace) \in Int BY <3>1, <3>2, OrType
    <3>6. Or(f.grace, Or(f.startup, DefaultConfig.grace)) \in Int BY <3>1, <3>5, OrType
    <3> QED BY <3>3, <3>4, <3>6
  <2>5. DefaultConfig.window \in MinWindow..MaxWindow /\ DefaultConfig.theme \in Themes
    BY DefaultIsSettled DEF Settled
  <2> HIDE DEF m
  <2>6. Backfill(f) =
          [m EXCEPT !.management = Or(f.management, DefaultConfig.management),
                    !.limiter = Or(f.limiter, DefaultConfig.limiter),
                    !.window = IF f.window = {} THEN DefaultConfig.window ELSE @,
                    !.theme = IF f.theme = {} THEN DefaultConfig.theme ELSE @,
                    !.grace = Or(f.grace, Or(f.startup, DefaultConfig.grace))]
    BY DEF Backfill, m
  <2>7. Backfill(f) \in Settled BY <2>2, <2>4, <2>5, <2>6 DEF Settled
  <2>8. Backfill(f).rules = m.rules BY <2>2, <2>6 DEF Settled
  <2> QED BY <1>1, <2>1, <2>3, <2>7, <2>8
<1>2. CASE f \notin ConfigFile
  <2>1. f.kind # "config" BY <1>2 DEF AnyFile, Missing, Garbled, Newer
  <2> QED BY <1>2, <2>1, DefaultIsSettled DEF Load
<1> QED BY <1>1, <1>2

(* What SaveConfig writes of a settled configuration is a file that loads  *)
(* as that configuration.                                                  *)
LEMMA LoadOfEncode ==
  ASSUME NEW c \in Settled
  PROVE  /\ Encode(c) \in ConfigFile /\ Encode(c).rules = c.rules
         /\ Load(Encode(c)) = c
<1>1. Migrate(c) = c BY SettledIsConfig, MigrateFacts
<1> DEFINE f == Encode(c)
<1>2. f = [kind |-> "config", management |-> {c.management},
           limiter |-> {c.limiter}, interval |-> {c.interval},
           grace |-> {c.grace}, window |-> {c.window}, theme |-> {c.theme},
           battery |-> c.battery, startup |-> {}, rules |-> c.rules]
  BY <1>1 DEF Encode
<1> HIDE DEF f
<1>3. f \in ConfigFile
  <2>1. c \in Config BY SettledIsConfig
  <2> QED BY <1>2, <2>1 DEF Config, ConfigFile, Optional
<1>4. \A x, d : Or({x}, d) = x BY DEF Or, Element
<1>5. Decode(f) = c BY <1>2, <1>4 DEF Decode, Settled
<1>6. Backfill(f) = c
  <2>1. Backfill(f) =
          [c EXCEPT !.management = Or(f.management, DefaultConfig.management),
                    !.limiter = Or(f.limiter, DefaultConfig.limiter),
                    !.window = IF f.window = {} THEN DefaultConfig.window ELSE @,
                    !.theme = IF f.theme = {} THEN DefaultConfig.theme ELSE @,
                    !.grace = Or(f.grace, Or(f.startup, DefaultConfig.grace))]
    BY <1>1, <1>5 DEF Backfill
  <2>2. /\ Or(f.management, DefaultConfig.management) = c.management
        /\ Or(f.limiter, DefaultConfig.limiter) = c.limiter
        /\ Or(f.grace, Or(f.startup, DefaultConfig.grace)) = c.grace
        /\ f.window # {} /\ f.theme # {}
    BY <1>2, <1>4
  <2>3. Backfill(f) \in Settled BY <1>2, <1>3, LoadFacts DEF Load, AnyFile
  <2>4. /\ Backfill(f).management = c.management /\ Backfill(f).limiter = c.limiter
        /\ Backfill(f).interval = c.interval /\ Backfill(f).grace = c.grace
        /\ Backfill(f).window = c.window /\ Backfill(f).theme = c.theme
        /\ Backfill(f).battery = c.battery /\ Backfill(f).rules = c.rules
    BY <2>1, <2>2 DEF Settled
  <2> QED BY <2>3, <2>4, SameFields
<1>7. Load(f) = c BY <1>2, <1>6 DEF Load
<1> QED BY <1>2, <1>3, <1>7 DEF f

-----------------------------------------------------------------------------
(* The list of rules.                                                      *)

LEMMA FirstFacts ==
  ASSUME NEW n \in Nat, NEW S \in SUBSET (1..n), S # {}
  PROVE  First(S) \in S /\ \A i \in S : First(S) <= i
<1>1. S \subseteq Nat OBVIOUS
<1>2. \E i \in S : \A j \in S : i <= j BY <1>1, Least
<1> QED BY <1>2 DEF First

LEMMA MatchesSymmetric == ASSUME NEW x, NEW y PROVE Matches(x, y) <=> Matches(y, x)
<1>1. {x.bundle, y.bundle} = {y.bundle, x.bundle} OBVIOUS
<1>2. {x.bundle, y.bundle, x.path, y.path} = {y.bundle, x.bundle, y.path, x.path}
  OBVIOUS
<1> DEFINE named(u, v) == u.bundle # Absent /\ v.bundle # Absent
           placed(u, v) == u.path # Absent /\ v.path # Absent
                             /\ Absent \in {u.bundle, v.bundle}
<1>3. \/ named(x, y) /\ named(y, x)
      \/ ~named(x, y) /\ ~named(y, x) /\ placed(x, y) /\ placed(y, x)
      \/ ~named(x, y) /\ ~named(y, x) /\ ~placed(x, y) /\ ~placed(y, x)
  BY <1>1
<1>4. CASE named(x, y) /\ named(y, x) BY <1>4 DEF Matches
<1>5. CASE ~named(x, y) /\ ~named(y, x) /\ placed(x, y) /\ placed(y, x)
  BY <1>5 DEF Matches
<1>6. CASE ~named(x, y) /\ ~named(y, x) /\ ~placed(x, y) /\ ~placed(y, x)
  BY <1>2, <1>6 DEF Matches
<1> QED BY <1>3, <1>4, <1>5, <1>6

(* An upsert changes or adds one rule.                                     *)
LEMMA UpsertFacts ==
  ASSUME NEW rules \in Seq(StoredRule), NEW rule \in StoredRule
  PROVE  /\ UpsertRule(rules, rule) \in Seq(StoredRule)
         /\ OneRule(rules) => OneRule(UpsertRule(rules, rule))
<1> DEFINE at == MatchingAt(rules, rule.id)
           new == UpsertRule(rules, rule)
<1>0. rule.id \in Ids /\ (\A i \in DOMAIN rules : rules[i].id \in Ids)
  <2>1. \A i \in DOMAIN rules : rules[i] \in StoredRule OBVIOUS
  <2> QED BY <2>1 DEF StoredRule
<1>1. CASE at = {}
  <2>1. new = Append(rules, rule) BY <1>1 DEF UpsertRule
  <2>2. /\ new \in Seq(StoredRule) /\ DOMAIN new = 1..(Len(rules) + 1)
        /\ \A i \in DOMAIN rules : new[i] = rules[i] /\ i \in DOMAIN new
        /\ \A i \in DOMAIN new : i \in DOMAIN rules \/ i = Len(rules) + 1
        /\ new[Len(rules) + 1] = rule
    BY <2>1
  <2>3. ASSUME OneRule(rules), NEW id \in Ids,
               NEW i \in MatchingAt(new, id), NEW j \in MatchingAt(new, id)
        PROVE  i = j
    <3>1. i \in DOMAIN new /\ j \in DOMAIN new
          /\ Matches(new[i].id, id) /\ Matches(new[j].id, id)
      BY DEF MatchingAt
    <3>2. ASSUME NEW k \in DOMAIN rules, Matches(rules[k].id, id), Matches(rule.id, id)
          PROVE  FALSE
      <4>1. Matches(id, rule.id) BY <3>2, MatchesSymmetric
      <4>2. Matches(rules[k].id, rule.id) BY <1>0, <3>2, <4>1, IdsAssumption
      <4> QED BY <1>1, <4>2 DEF MatchingAt
    <3>3. CASE i \in DOMAIN rules /\ j \in DOMAIN rules
      BY <2>2, <2>3, <3>1, <3>3 DEF OneRule, MatchingAt
    <3>4. CASE i \notin DOMAIN rules /\ j \notin DOMAIN rules
      BY <2>2, <3>1, <3>4
    <3> QED BY <2>2, <3>1, <3>2, <3>3, <3>4
  <2> QED BY <2>2, <2>3 DEF OneRule
<1>2. CASE at # {}
  <2>0. at \in SUBSET (1..Len(rules)) /\ Len(rules) \in Nat BY DEF MatchingAt
  <2>1. First(at) \in at BY <1>2, <2>0, FirstFacts
  <2> DEFINE k == First(at)
  <2> HIDE DEF k
  <2>2. k \in DOMAIN rules /\ Matches(rules[k].id, rule.id)
    BY <2>1 DEF MatchingAt, k
  <2>3. new = [rules EXCEPT ![k] = rule] BY <1>2 DEF UpsertRule, k
  <2>4. /\ new \in Seq(StoredRule) /\ DOMAIN new = DOMAIN rules /\ new[k] = rule
        /\ \A i \in DOMAIN rules : i # k => new[i] = rules[i]
    BY <2>2, <2>3
  <2>5. ASSUME NEW id \in Ids PROVE MatchingAt(new, id) = MatchingAt(rules, id)
    <3>1. Matches(rule.id, id) <=> Matches(rules[k].id, id)
      <4>1. Matches(rule.id, rules[k].id) BY <2>2, MatchesSymmetric
      <4> QED BY <1>0, <2>2, <4>1, IdsAssumption
    <3> QED BY <2>2, <2>4, <3>1 DEF MatchingAt
  <2> QED BY <2>4, <2>5 DEF OneRule
<1> QED BY <1>1, <1>2

(* A removal drops rules only.                                             *)
LEMMA RemoveFacts ==
  ASSUME NEW rules \in Seq(StoredRule), NEW x
  PROVE  /\ RemoveRule(rules, x) \in Seq(StoredRule)
         /\ OneRule(rules) => OneRule(RemoveRule(rules, x))
<1> DEFINE kept == DOMAIN rules \ MatchingAt(rules, x)
           new == RemoveRule(rules, x)
<1>1. new = Subsequence(rules, kept) /\ kept \in SUBSET (DOMAIN rules)
  BY DEF RemoveRule
<1> HIDE DEF kept, new
<1>0. /\ Subsequence(rules, kept) \in Seq(StoredRule)
      /\ DOMAIN Subsequence(rules, kept) = 1..Cardinality(kept)
      /\ \A n \in 1..Cardinality(kept) :
           Kept(kept, n) \in kept /\ Subsequence(rules, kept)[n] = rules[Kept(kept, n)]
      /\ \A m, n \in 1..Cardinality(kept) :
           Kept(kept, m) = Kept(kept, n) => m = n
  BY <1>1, SubsequenceFacts
<1>2. /\ new \in Seq(StoredRule)
      /\ \A n \in DOMAIN new :
           Kept(kept, n) \in kept /\ new[n] = rules[Kept(kept, n)]
      /\ \A m, n \in DOMAIN new : Kept(kept, m) = Kept(kept, n) => m = n
  BY <1>0, <1>1
<1>3. ASSUME OneRule(rules), NEW id \in Ids,
             NEW i \in MatchingAt(new, id), NEW j \in MatchingAt(new, id)
      PROVE  i = j
  <2>1. /\ i \in DOMAIN new /\ Matches(new[i].id, id)
        /\ j \in DOMAIN new /\ Matches(new[j].id, id)
    BY DEF MatchingAt
  <2>2. /\ Kept(kept, i) \in MatchingAt(rules, id)
        /\ Kept(kept, j) \in MatchingAt(rules, id)
    BY <1>1, <1>2, <2>1 DEF MatchingAt
  <2>3. Kept(kept, i) = Kept(kept, j) BY <1>3, <2>2 DEF OneRule
  <2> QED BY <1>2, <2>1, <2>3
<1> QED BY <1>2, <1>3 DEF OneRule, new

-----------------------------------------------------------------------------
(* Commands: what each does to the rules is one upsert or one removal, of  *)
(* an application that the key names.                                      *)

NamedBy(id, key) ==
  id \in Ids /\ \E other \in Ids :
                   Key(other) = key /\ (id = other \/ Matches(id, other))

Edits(rules, key) ==
  {rules} \cup {UpsertRule(rules, rule) : rule \in {r \in StoredRule : NamedBy(r.id, key)}}
          \cup {RemoveRule(rules, id) : id \in {x \in Ids : NamedBy(x, key)}}

Edited(c, change, key) ==
  \/ change = Unchanged(c)
  \/ \E limiter \in BOOLEAN, rules \in Edits(c.rules, key) :
       change = Saved([c EXCEPT !.limiter = limiter, !.rules = rules])

LEMMA UpsertEdits ==
  ASSUME NEW c \in Settled, NEW rule \in Rule, NEW key, NamedBy(rule.id, key)
  PROVE  /\ Edited(c, Upsert(c, rule), key)
         /\ ~Refused(rule) => Edited(c, Upsert([c EXCEPT !.limiter = TRUE], rule), key)
<1> DEFINE stored == MigrateRule(rule)
           rules == UpsertRule(c.rules, stored)
<1>1. stored \in StoredRule /\ stored.id = rule.id
  BY MigrateRuleFacts DEF SameRule
<1>2. ASSUME ~Refused(rule)
      PROVE  \A d : Upsert(d, rule) = Saved([d EXCEPT !.rules = UpsertRule(@, stored)])
  BY <1>2 DEF Upsert, MigrateRule
<1> HIDE DEF stored
<1>3. rules \in Edits(c.rules, key) BY <1>1 DEF Edits
<1>4. ~Refused(rule) => Upsert(c, rule) = Saved([c EXCEPT !.rules = rules]) BY <1>2
<1>5. ~Refused(rule) => Upsert([c EXCEPT !.limiter = TRUE], rule)
        = Saved([[c EXCEPT !.limiter = TRUE] EXCEPT !.rules = rules])
  BY <1>2 DEF Settled
<1> HIDE DEF rules
<1>6. [c EXCEPT !.rules = rules] = [c EXCEPT !.limiter = c.limiter, !.rules = rules]
      /\ c.limiter \in BOOLEAN
  BY DEF Settled
<1>7. Refused(rule) => Upsert(c, rule) = Unchanged(c) BY DEF Upsert
<1>8. CASE Refused(rule) BY <1>7, <1>8 DEF Edited
<1>9. CASE ~Refused(rule) BY <1>3, <1>4, <1>5, <1>6, <1>9 DEF Edited
<1> QED BY <1>8, <1>9

LEMMA KeyAtFacts ==
  ASSUME NEW rules \in Seq(StoredRule), NEW key, KeyAt(rules, key) # {}
  PROVE  /\ First(KeyAt(rules, key)) \in KeyAt(rules, key)
         /\ rules[First(KeyAt(rules, key))] \in StoredRule
         /\ Key(rules[First(KeyAt(rules, key))].id) = key
         /\ NamedBy(rules[First(KeyAt(rules, key))].id, key)
<1>1. KeyAt(rules, key) \in SUBSET (1..Len(rules)) /\ Len(rules) \in Nat
  BY DEF KeyAt
<1>2. First(KeyAt(rules, key)) \in KeyAt(rules, key) BY <1>1, FirstFacts
<1>3. /\ rules[First(KeyAt(rules, key))] \in StoredRule
      /\ Key(rules[First(KeyAt(rules, key))].id) = key
  BY <1>2 DEF KeyAt
<1> QED BY <1>2, <1>3 DEF NamedBy, StoredRule

LEMMA RemoveEdits ==
  ASSUME NEW c \in Settled, NEW key
  PROVE  Edited(c, Remove(c, key), key)
<1> DEFINE rules == RemoveKey(c.rules, key)
<1>1. rules \in Edits(c.rules, key)
  <2>1. CASE KeyAt(c.rules, key) = {} BY <2>1 DEF RemoveKey, Edits
  <2>2. CASE KeyAt(c.rules, key) # {}
    <3> DEFINE id == c.rules[First(KeyAt(c.rules, key))].id
    <3>1. c.rules \in Seq(StoredRule) BY DEF Settled
    <3>2. id \in Ids /\ NamedBy(id, key)
      BY <2>2, <3>1, KeyAtFacts DEF NamedBy
    <3>3. rules = RemoveRule(c.rules, id) BY <2>2 DEF RemoveKey
    <3> HIDE DEF id, rules
    <3> QED BY <3>2, <3>3 DEF Edits
  <2> QED BY <2>1, <2>2
<1>2. Remove(c, key) = Saved([c EXCEPT !.rules = rules]) BY DEF Remove
<1> HIDE DEF rules
<1>3. [c EXCEPT !.rules = rules] = [c EXCEPT !.limiter = c.limiter, !.rules = rules]
      /\ c.limiter \in BOOLEAN
  BY DEF Settled
<1> QED BY <1>1, <1>2, <1>3 DEF Edited

LEMMA RuleForFacts ==
  ASSUME NEW rules \in Seq(StoredRule), NEW id \in Ids, NEW key, Key(id) = key,
         RuleFor(rules, id) # NoRule
  PROVE  /\ RuleFor(rules, id) \in StoredRule /\ NamedBy(RuleFor(rules, id).id, key)
         /\ Matches(RuleFor(rules, id).id, id)
<1> DEFINE at == MatchingAt(rules, id)
<1>1. at # {} /\ RuleFor(rules, id) = rules[First(at)] BY DEF RuleFor
<1>2. at \in SUBSET (1..Len(rules)) /\ Len(rules) \in Nat BY DEF MatchingAt
<1>3. First(at) \in at BY <1>1, <1>2, FirstFacts
<1>4. rules[First(at)] \in StoredRule /\ Matches(rules[First(at)].id, id)
  BY <1>3 DEF MatchingAt
<1> QED BY <1>1, <1>4 DEF NamedBy, StoredRule

LEMMA EffectiveIsWords == ASSUME NEW rule PROVE Effective(rule) \subseteq Words
BY EffectiveFacts DEF Words

LEMMA UntrackEdits ==
  ASSUME NEW c \in Settled, NEW key, NEW place \in Places
  PROVE  Edited(c, Untrack(c, key, place), key)
<1> DEFINE at == KeyAt(c.rules, key)
           old == c.rules[First(at)]
           rule == WithoutTrackIn(old, place)
<1>1. CASE at = {} BY <1>1 DEF Untrack, Edited
<1>2. CASE at # {}
  <2>1. old \in StoredRule /\ NamedBy(old.id, key)
    BY <1>2, KeyAtFacts DEF Settled
  <2>2. rule \in Rule /\ rule.id = old.id
    <3> DEFINE places == Effective(old) \ {place}
               trackIn == IF places = {} THEN {"none"} ELSE places
    <3>1. trackIn \subseteq Words
      <4>1. {"none"} \subseteq Words BY DEF Words
      <4> QED BY <4>1, EffectiveIsWords
    <3>2. rule = [old EXCEPT !.trackIn = trackIn] BY DEF WithoutTrackIn
    <3>3. old \in Rule BY <2>1, StoredIsRule
    <3> HIDE DEF trackIn, old, rule
    <3> QED BY <3>1, <3>2, <3>3 DEF Rule
  <2>3. \/ Untrack(c, key, place) = Remove(c, key)
        \/ Untrack(c, key, place) = Upsert(c, rule)
    BY <1>2 DEF Untrack
  <2> HIDE DEF rule, old
  <2>4. NamedBy(rule.id, key) BY <2>1, <2>2
  <2> QED BY <2>2, <2>3, <2>4, UpsertEdits, RemoveEdits
<1> QED BY <1>1, <1>2

LEMMA TrackEdits ==
  ASSUME NEW c \in Settled, NEW id \in Ids, NEW key, Key(id) = key, NEW control,
         NEW place \in Places
  PROVE  Edited(c, Track(c, id, control, place), key)
<1> DEFINE existing == RuleFor(c.rules, id)
<1>0. place \in Words /\ "observe" \in Words BY DEF Words
<1>1. CASE existing = NoRule
  <2> DEFINE rule == [id |-> id, mode |-> "observe", trackIn |-> {place}, target |-> FALSE]
  <2>1. rule \in Rule /\ rule.id = id BY <1>0 DEF Rule
  <2>2. NamedBy(rule.id, key) BY <2>1 DEF NamedBy
  <2>3. Track(c, id, control, place) = Upsert(c, rule) BY <1>1 DEF Track
  <2> HIDE DEF rule
  <2> QED BY <2>1, <2>2, <2>3, UpsertEdits
<1>2. CASE existing # NoRule
  <2> DEFINE base == IF Allows(control, existing.mode) THEN existing
                     ELSE [existing EXCEPT !.mode = "observe", !.target = FALSE]
             rule == WithTrackIn(base, place)
  <2>1. existing \in StoredRule /\ NamedBy(existing.id, key)
    BY <1>2, RuleForFacts DEF Settled
  <2>2. Track(c, id, control, place) = Upsert(c, rule) BY <1>2 DEF Track
  <2> HIDE DEF existing
  <2>3. base \in Rule /\ base.id = existing.id
    <3>1. existing \in Rule BY <2>1, StoredIsRule
    <3>2. CASE Allows(control, existing.mode) BY <3>1, <3>2
    <3>3. CASE ~Allows(control, existing.mode) BY <1>0, <3>1, <3>3 DEF Rule
    <3> QED BY <3>2, <3>3
  <2>4. rule = [base EXCEPT !.trackIn = Effective(base) \cup {place}]
    BY DEF WithTrackIn
  <2>5. Effective(base) \cup {place} \subseteq Words BY <1>0, EffectiveIsWords
  <2> HIDE DEF base, rule
  <2>6. rule \in Rule /\ rule.id = base.id BY <2>3, <2>4, <2>5 DEF Rule
  <2>7. NamedBy(rule.id, key) BY <2>1, <2>3, <2>6
  <2> QED BY <2>2, <2>6, <2>7, UpsertEdits
<1> QED BY <1>1, <1>2

LEMMA ClearPauseEdits ==
  ASSUME NEW c \in Settled, NEW id \in Ids, NEW key, Key(id) = key,
         RuleFor(c.rules, id) # NoRule
  PROVE  Edited(c, ClearPause(c, RuleFor(c.rules, id), key), key)
<1> DEFINE existing == RuleFor(c.rules, id)
           rule == [id |-> existing.id, mode |-> "observe",
                    trackIn |-> Effective(existing), target |-> FALSE]
<1>1. existing \in StoredRule /\ NamedBy(existing.id, key)
  BY RuleForFacts DEF Settled
<1> HIDE DEF existing
<1>2. rule \in Rule /\ rule.id = existing.id
  <2>1. existing \in Rule BY <1>1, StoredIsRule
  <2>2. "observe" \in Words BY DEF Words
  <2> QED BY <2>1, <2>2, EffectiveIsWords DEF Rule
<1>3. \/ ClearPause(c, existing, key) = Remove(c, key)
      \/ ClearPause(c, existing, key) = Upsert(c, rule)
  BY DEF ClearPause
<1> HIDE DEF rule
<1>4. NamedBy(rule.id, key) BY <1>1, <1>2
<1>5. Edited(c, ClearPause(c, existing, key), key)
  BY <1>2, <1>3, <1>4, UpsertEdits, RemoveEdits
<1> QED BY <1>5 DEF existing

LEMMA SetModeEdits ==
  ASSUME NEW c \in Settled, NEW id \in Ids, NEW key, Key(id) = key, NEW control,
         NEW mode \in {"observe", "pause", "priority", "limit"}, NEW tooLow \in BOOLEAN
  PROVE  Edited(c, SetMode(c, id, control, mode, tooLow), key)
<1> DEFINE existing == RuleFor(c.rules, id)
           trackIn == IF existing # NoRule THEN Effective(existing) ELSE DefaultTrackIn(mode)
           rule == [id |-> id, mode |-> mode, trackIn |-> trackIn,
                    target |-> mode = "limit" /\ ~tooLow]
<1>1. trackIn \subseteq Words
  <2>1. DefaultTrackIn(mode) \subseteq Words BY DEF DefaultTrackIn, Words, Places
  <2> QED BY <2>1, EffectiveIsWords
<1>2. \/ SetMode(c, id, control, mode, tooLow) = Unchanged(c)
      \/ /\ SetMode(c, id, control, mode, tooLow) = Upsert([c EXCEPT !.limiter = TRUE], rule)
         /\ ~Refused(rule)
      \/ SetMode(c, id, control, mode, tooLow) = Upsert(c, rule)
  BY DEF SetMode
<1> HIDE DEF trackIn
<1>3. rule \in Rule /\ rule.id = id
  <2>1. mode \in Words BY DEF Words
  <2> QED BY <1>1, <2>1 DEF Rule
<1>4. NamedBy(rule.id, key) BY <1>3 DEF NamedBy
<1> HIDE DEF rule
<1>5. Edited(c, Unchanged(c), key) BY DEF Edited
<1> QED BY <1>2, <1>3, <1>4, <1>5, UpsertEdits

(* What a rule command comes to.                                           *)
Modes == {"observe", "pause", "priority", "limit"}
PauseAgain(c, command, id) ==
  command = <<"mode", "pause">> /\ RuleFor(c.rules, id).mode = "pause"

Untracks(c, command, key, result) ==
  \E place \in Places : command = <<"untrack", place>> /\ result = Untrack(c, key, place)
FindsNone(c, groups, command, key, result) ==
  /\ command \notin UntrackCommands /\ result = Unchanged(c)
  /\ \A id \in DOMAIN groups : Key(id) # key
Tracks(c, groups, command, id, result) ==
  \E place \in Places : /\ command = <<"track", place>>
                        /\ result = Track(c, id, groups[id], place)
Clears(c, command, key, id, result) ==
  PauseAgain(c, command, id) /\ result = ClearPause(c, RuleFor(c.rules, id), key)
Sets(c, groups, command, id, result) ==
  \E mode \in Modes, tooLow \in BOOLEAN :
    /\ command \in ModeCommands /\ ~PauseAgain(c, command, id)
    /\ command = <<"mode", "pause">> => mode = "pause"
    /\ result = SetMode(c, id, groups[id], mode, tooLow)

LEMMA CommandCases ==
  ASSUME NEW c, NEW groups \in GroupStates, NEW command \in RuleCommands, NEW key,
         NEW result, result = RuleCommand(c, groups, command, key)
  PROVE  \/ Untracks(c, command, key, result)
         \/ FindsNone(c, groups, command, key, result)
         \/ \E id \in Ids : /\ DOMAIN groups = {id} /\ Key(id) = key
                            /\ \/ Tracks(c, groups, command, id, result)
                               \/ Clears(c, command, key, id, result)
                               \/ Sets(c, groups, command, id, result)
<1> DEFINE ids == {i \in DOMAIN groups : Key(i) = key}
           id == CHOOSE i \in ids : TRUE
           existing == RuleFor(c.rules, id)
           word == command[2]
           untracks == command \in UntrackCommands
           tracks == command \in TrackCommands
           pauses == command = <<"mode", "pause">>
           lowers == command = <<"mode", "limit too low">>
           observed == ids # {}
<1>a. result =
        CASE untracks -> Untrack(c, key, word)
          [] ~untracks /\ ~observed -> Unchanged(c)
          [] tracks /\ observed -> Track(c, id, groups[id], word)
          [] pauses /\ observed /\ existing.mode = "pause" ->
               ClearPause(c, existing, key)
          [] lowers /\ observed -> SetMode(c, id, groups[id], "limit", TRUE)
          [] OTHER -> SetMode(c, id, groups[id], word, FALSE)
  BY Zenon DEF RuleCommand
<1>b. untracks => word \in Places /\ command = <<"untrack", word>>
                    /\ ~tracks /\ ~pauses /\ ~lowers
  <2> SUFFICES ASSUME untracks
               PROVE  word \in Places /\ command = <<"untrack", word>>
                        /\ ~tracks /\ ~pauses /\ ~lowers
    OBVIOUS
  <2>1. PICK place \in Places : command = <<"untrack", place>> BY DEF UntrackCommands
  <2> QED BY <2>1 DEF TrackCommands
<1>c. tracks => word \in Places /\ command = <<"track", word>>
                  /\ ~untracks /\ ~pauses /\ ~lowers
  <2> SUFFICES ASSUME tracks
               PROVE  word \in Places /\ command = <<"track", word>>
                        /\ ~untracks /\ ~pauses /\ ~lowers
    OBVIOUS
  <2>1. PICK place \in Places : command = <<"track", place>> BY DEF TrackCommands
  <2> QED BY <2>1 DEF UntrackCommands
<1>d. command \in ModeCommands =>
        /\ word \in {"observe", "pause", "priority", "limit", "limit too low"}
        /\ pauses <=> word = "pause"
        /\ lowers <=> word = "limit too low"
        /\ ~untracks /\ ~tracks
  <2> SUFFICES ASSUME command \in ModeCommands
               PROVE  /\ word \in {"observe", "pause", "priority", "limit", "limit too low"}
                      /\ pauses <=> word = "pause"
                      /\ lowers <=> word = "limit too low"
                      /\ ~untracks /\ ~tracks
    OBVIOUS
  <2>1. PICK m \in {"observe", "pause", "priority", "limit", "limit too low"} :
          command = <<"mode", m>>
    BY DEF ModeCommands
  <2> QED BY <2>1 DEF UntrackCommands, TrackCommands
<1>e. observed => id \in Ids /\ Key(id) = key /\ DOMAIN groups = {id}
  <2> SUFFICES ASSUME observed PROVE id \in Ids /\ Key(id) = key /\ DOMAIN groups = {id}
    OBVIOUS
  <2>1. id \in DOMAIN groups /\ Key(id) = key OBVIOUS
  <2>2. PICK i \in Ids : DOMAIN groups = {i} BY <2>1 DEF GroupStates
  <2> HIDE DEF id
  <2> QED BY <2>1, <2>2
<1>f. command \in ModeCommands \/ untracks \/ tracks BY DEF RuleCommands
<1>g. ~observed => \A i \in DOMAIN groups : Key(i) # key OBVIOUS
<1> HIDE DEF word, ids, id, existing, untracks, tracks, pauses, lowers, observed
<1>1. CASE untracks
  <2>1. result = Untrack(c, key, word) BY <1>1, <1>a, <1>b
  <2> QED BY <1>1, <1>b, <2>1 DEF Untracks
<1>2. CASE ~untracks /\ ~observed
  <2>1. result = Unchanged(c) BY <1>2, <1>a, <1>c
  <2> QED BY <1>2, <1>g, <2>1 DEF FindsNone, untracks
<1>3. CASE tracks /\ observed
  <2>1. result = Track(c, id, groups[id], word) BY <1>3, <1>a, <1>c
  <2>2. Tracks(c, groups, command, id, result) BY <1>3, <1>c, <2>1 DEF Tracks
  <2> QED BY <1>3, <1>e, <2>2
<1>4. CASE ~untracks /\ ~tracks /\ observed
  <2>0. command \in ModeCommands BY <1>4, <1>f
  <2>1. CASE pauses /\ existing.mode = "pause"
    <3>1. ~lowers BY <1>d, <2>0, <2>1
    <3>2. result = ClearPause(c, existing, key) BY <1>4, <1>a, <2>1, <3>1
    <3>3. Clears(c, command, key, id, result)
      BY <2>1, <3>2 DEF Clears, PauseAgain, existing, pauses
    <3> QED BY <1>4, <1>e, <3>3
  <2>2. CASE lowers
    <3>1. ~pauses BY <1>d, <2>0, <2>2
    <3>2. result = SetMode(c, id, groups[id], "limit", TRUE) BY <1>4, <1>a, <2>2, <3>1
    <3>3. Sets(c, groups, command, id, result)
      BY <2>0, <3>1, <3>2 DEF Sets, PauseAgain, Modes, pauses
    <3> QED BY <1>4, <1>e, <3>3
  <2>3. CASE ~lowers /\ ~(pauses /\ existing.mode = "pause")
    <3>1. result = SetMode(c, id, groups[id], word, FALSE) BY <1>4, <1>a, <2>3
    <3>2. word \in Modes BY <1>d, <2>0, <2>3 DEF Modes
    <3>3. pauses => word = "pause" BY <1>d, <2>0
    <3>4. Sets(c, groups, command, id, result)
      BY <2>0, <2>3, <3>1, <3>2, <3>3 DEF Sets, PauseAgain, pauses, existing
    <3> QED BY <1>4, <1>e, <3>4
  <2> QED BY <2>1, <2>2, <2>3
<1> QED BY <1>1, <1>2, <1>3, <1>4

LEMMA RuleCommandEdits ==
  ASSUME NEW c \in Settled, NEW groups \in GroupStates, NEW command \in RuleCommands,
         NEW key
  PROVE  Edited(c, RuleCommand(c, groups, command, key), key)
<1> DEFINE result == RuleCommand(c, groups, command, key)
<1> SUFFICES Edited(c, result, key) OBVIOUS
<1>0. \/ Untracks(c, command, key, result)
      \/ FindsNone(c, groups, command, key, result)
      \/ \E id \in Ids : /\ DOMAIN groups = {id} /\ Key(id) = key
                         /\ \/ Tracks(c, groups, command, id, result)
                            \/ Clears(c, command, key, id, result)
                            \/ Sets(c, groups, command, id, result)
  <2> HIDE DEF result
  <2>1. result = RuleCommand(c, groups, command, key) BY DEF result
  <2> QED BY <2>1, CommandCases
<1> HIDE DEF result
<1>1. CASE Untracks(c, command, key, result)
  BY <1>1, UntrackEdits DEF Untracks
<1>2. CASE FindsNone(c, groups, command, key, result)
  BY <1>2 DEF FindsNone, Edited
<1>3. ASSUME NEW id \in Ids, Key(id) = key, Tracks(c, groups, command, id, result)
      PROVE  Edited(c, result, key)
  BY <1>3, TrackEdits DEF Tracks
<1>4. ASSUME NEW id \in Ids, Key(id) = key, Clears(c, command, key, id, result)
      PROVE  Edited(c, result, key)
  <2>1. RuleFor(c.rules, id) # NoRule BY <1>4 DEF Clears, PauseAgain, NoRule
  <2> QED BY <1>4, <2>1, ClearPauseEdits DEF Clears
<1>5. ASSUME NEW id \in Ids, Key(id) = key, Sets(c, groups, command, id, result)
      PROVE  Edited(c, result, key)
  BY <1>5, SetModeEdits DEF Sets, Modes
<1> QED BY <1>0, <1>1, <1>2, <1>3, <1>4, <1>5

(* The rules after a command are a list of stored rules, with one for an   *)
(* application at most.                                                    *)
LEMMA EditedFacts ==
  ASSUME NEW c \in Settled, NEW change, NEW key, Edited(c, change, key)
  PROVE  /\ change.save \in BOOLEAN /\ change.cfg \in Settled
         /\ ~change.save => change.cfg = c
         /\ OneRule(c.rules) => OneRule(change.cfg.rules)
<1>1. CASE change = Unchanged(c) BY <1>1 DEF Unchanged
<1>2. ASSUME NEW limiter \in BOOLEAN, NEW rules \in Edits(c.rules, key),
             change = Saved([c EXCEPT !.limiter = limiter, !.rules = rules])
      PROVE  /\ change.save = TRUE /\ change.cfg \in Settled
             /\ OneRule(c.rules) => OneRule(change.cfg.rules)
  <2>1. c.rules \in Seq(StoredRule) BY DEF Settled
  <2>2. rules \in Seq(StoredRule) /\ (OneRule(c.rules) => OneRule(rules))
    <3>1. CASE rules = c.rules BY <2>1, <3>1
    <3>2. ASSUME NEW rule \in StoredRule, rules = UpsertRule(c.rules, rule)
          PROVE  rules \in Seq(StoredRule) /\ (OneRule(c.rules) => OneRule(rules))
      BY <2>1, <3>2, UpsertFacts
    <3>3. ASSUME NEW id, rules = RemoveRule(c.rules, id)
          PROVE  rules \in Seq(StoredRule) /\ (OneRule(c.rules) => OneRule(rules))
      BY <2>1, <3>3, RemoveFacts
    <3> QED BY <1>2, <3>1, <3>2, <3>3 DEF Edits
  <2>3. change.save = TRUE
        /\ change.cfg = [c EXCEPT !.limiter = limiter, !.rules = rules]
    BY <1>2 DEF Saved
  <2>4. change.cfg \in Settled /\ change.cfg.rules = rules
    BY <2>2, <2>3 DEF Settled
  <2> QED BY <2>2, <2>3, <2>4
<1> QED BY <1>1, <1>2 DEF Edited

(* The preferences: only values that Migrate would keep are taken.         *)
LEMMA PreferenceFacts ==
  ASSUME NEW c \in Settled, NEW field \in DOMAIN Values, NEW value \in Values[field]
  PROVE  /\ SetPreference(c, field, value).save \in BOOLEAN
         /\ SetPreference(c, field, value).cfg \in Settled
         /\ ~SetPreference(c, field, value).save => SetPreference(c, field, value).cfg = c
         /\ SetPreference(c, field, value).cfg.rules = c.rules
<1> DEFINE change == SetPreference(c, field, value)
           stored == IF field = "window" THEN NormalizeWindow(value) ELSE value
           new == [c EXCEPT ![field] = stored]
<1>1. CASE ~Accepts(field, value)
  BY <1>1 DEF SetPreference, Unchanged
<1>2. CASE Accepts(field, value)
  <2>a. change = Saved(new) BY <1>2 DEF SetPreference
  <2> HIDE DEF new, change
  <2>0. change.save = TRUE /\ change.cfg = new BY <2>a DEF Saved
  <2> SUFFICES new \in Settled /\ new.rules = c.rules BY <2>0 DEF change
  <2> HIDE DEF stored
  <2>1. CASE field \in {"management", "limiter"}
    <3>1. value \in BOOLEAN BY <2>1, ValuesAssumption
    <3>2. stored \in BOOLEAN BY <2>1, <3>1 DEF stored
    <3> QED BY <2>1, <3>2 DEF Settled, new
  <2>2. CASE field = "interval"
    <3>1. value \in Int BY <2>2, ValuesAssumption
    <3>2. value # 0 BY <1>2, <2>2, <3>1 DEF Accepts
    <3>3. new = [c EXCEPT !.interval = value] BY <2>2 DEF new, stored
    <3> QED BY <3>1, <3>2, <3>3 DEF Settled
  <2>3. CASE field = "grace"
    <3>1. value \in Int BY <2>3, ValuesAssumption
    <3>2. new = [c EXCEPT !.grace = value] BY <2>3 DEF new, stored
    <3> QED BY <3>1, <3>2 DEF Settled
  <2>4. CASE field = "window"
    <3>1. value \in Int BY <2>4, ValuesAssumption
    <3>2. NormalizeWindow(value) \in MinWindow..MaxWindow
      BY <3>1, NormalizeWindowFacts
    <3>3. new = [c EXCEPT !.window = NormalizeWindow(value)]
      BY <2>4 DEF new, stored
    <3> QED BY <3>2, <3>3 DEF Settled
  <2>5. CASE field = "theme"
    <3>1. value \in Themes
      BY <1>2, <2>5 DEF Accepts, NormalizeTheme, Themes
    <3>2. new = [c EXCEPT !.theme = value] BY <2>5 DEF new, stored
    <3> QED BY <3>1, <3>2 DEF Settled
  <2>6. CASE field = "battery"
    <3>1. value \in Optional(Int) BY <2>6, ValuesAssumption
    <3>2. new = [c EXCEPT !.battery = value] BY <2>6 DEF new, stored
    <3> QED BY <3>1, <3>2 DEF Settled
  <2> QED BY <2>1, <2>2, <2>3, <2>4, <2>5, <2>6, ValuesAssumption
<1> QED BY <1>1, <1>2

LEMMA ResetFacts ==
  ASSUME NEW c \in Settled
  PROVE  /\ ResetDefaults(c).save = TRUE /\ ResetDefaults(c).cfg \in Settled
         /\ ResetDefaults(c).cfg.rules = c.rules
BY DefaultIsSettled DEF ResetDefaults, Saved, Settled

-----------------------------------------------------------------------------
(* The inductive invariant.  A restart finds what was saved because every  *)
(* configuration that is ever in memory is settled: SaveConfig then writes *)
(* it as it is, and LoadConfig reads it back unchanged.                    *)
SettledInv ==
  /\ running \in BOOLEAN /\ saving \in BOOLEAN /\ failed \in BOOLEAN
  /\ failures \in 0..MaxFailures
  /\ file \in AnyFile /\ cfg \in Settled /\ durable \in Settled
  /\ RestartKeepsSettings
  /\ OneRule(cfg.rules) /\ OneRule(durable.rules)

LEMMA NoRules == OneRule(<<>>)
BY DEF OneRule, MatchingAt

LEMMA SettledInit == Init => SettledInv
<1> SUFFICES ASSUME Init PROVE SettledInv OBVIOUS
<1>1. file \in AnyFile /\ (file \in ConfigFile => OneRule(file.rules))
  <2>1. file \in Files BY DEF Init
  <2>2. \A f \in {Missing, Garbled, Newer} : f \notin ConfigFile
    BY DEF ConfigFile, Missing, Garbled, Newer
  <2> QED BY <2>1, <2>2, FilesAssumption DEF AnyFile
<1>2. durable = Load(file) /\ durable \in Settled BY <1>1, LoadFacts DEF Init
<1>3. cfg = DefaultConfig /\ cfg \in Settled /\ cfg.rules = <<>>
  BY DefaultIsSettled DEF Init, DefaultConfig
<1>4. OneRule(cfg.rules) BY <1>3, NoRules
<1>5. OneRule(durable.rules)
  <2>1. CASE file \in ConfigFile
    <3>1. /\ DOMAIN durable.rules = DOMAIN file.rules
          /\ \A i \in DOMAIN file.rules : durable.rules[i].id = file.rules[i].id
      BY <1>1, <1>2, <2>1, LoadFacts DEF SameRule
    <3> QED BY <1>1, <2>1, <3>1 DEF OneRule, MatchingAt
  <2>2. CASE file \notin ConfigFile
    <3>1. durable = DefaultConfig BY <1>1, <1>2, <2>2, LoadFacts
    <3> QED BY <1>3, <1>4, <3>1
  <2> QED BY <2>1, <2>2
<1>6. /\ running = FALSE /\ saving = FALSE /\ failed = FALSE
      /\ failures \in 0..MaxFailures
  BY MaxFailuresAssumption DEF Init
<1> QED BY <1>1, <1>2, <1>3, <1>4, <1>5, <1>6 DEF SettledInv, RestartKeepsSettings

(* A command between two others.                                           *)
LEMMA MakeKeeps ==
  ASSUME SettledInv, Idle, NEW change, Make(change), change.save \in BOOLEAN,
         change.cfg \in Settled, OneRule(change.cfg.rules),
         ~change.save => change.cfg = cfg
  PROVE  SettledInv'
<1>1. /\ cfg' = change.cfg /\ running' = running /\ file' = file
      /\ durable' = durable /\ failed' = failed /\ failures' = failures
      /\ change.save => saving' = TRUE
      /\ ~change.save => saving' = saving
  BY DEF Make, BeginSave
<1>2. RestartKeepsSettings' BY <1>1 DEF SettledInv, RestartKeepsSettings
<1> QED BY <1>1, <1>2 DEF SettledInv

LEMMA SettledStep == ASSUME SettledInv, [Next]_vars PROVE SettledInv'
<1>1. CASE Start
  <2>1. Load(file) = durable BY DEF SettledInv, RestartKeepsSettings
  <2>2. LoadSaves(file) \in BOOLEAN BY DEF LoadSaves
  <2> QED BY <1>1, <2>1, <2>2 DEF Start, SettledInv, RestartKeepsSettings
<1>2. CASE ClickRule
  <2>1. PICK key \in Keys, command \in RuleCommands, groups \in GroupStates :
          Make(RuleCommand(cfg, groups, command, key))
    BY <1>2 DEF ClickRule, GroupsOf
  <2>2. Edited(cfg, RuleCommand(cfg, groups, command, key), key)
    BY RuleCommandEdits DEF SettledInv
  <2> QED BY <1>2, <2>1, <2>2, EditedFacts, MakeKeeps DEF ClickRule, SettledInv
<1>3. CASE DisableRule
  <2>1. PICK key \in Keys : Make(Remove(cfg, key)) BY <1>3 DEF DisableRule
  <2>2. Edited(cfg, Remove(cfg, key), key) BY RemoveEdits DEF SettledInv
  <2> QED BY <1>3, <2>1, <2>2, EditedFacts, MakeKeeps DEF DisableRule, SettledInv
<1>4. CASE ClickPreference
  <2>1. PICK field \in DOMAIN Values : \E value \in Values[field] :
          Make(SetPreference(cfg, field, value))
    BY <1>4 DEF ClickPreference
  <2>2. PICK value \in Values[field] : Make(SetPreference(cfg, field, value))
    BY <2>1
  <2> QED BY <1>4, <2>2, PreferenceFacts, MakeKeeps DEF ClickPreference, SettledInv
<1>5. CASE ClickReset
  BY <1>5, ResetFacts, MakeKeeps DEF ClickReset, SettledInv
<1>6. CASE Rename
  <2>1. /\ file' = Encode(cfg) /\ saving' = FALSE /\ durable' = cfg /\ failed' = FALSE
        /\ UNCHANGED <<running, cfg, failures>>
    BY <1>6 DEF Rename
  <2>2. Encode(cfg) \in AnyFile /\ Load(Encode(cfg)) = cfg
    BY LoadOfEncode DEF SettledInv, AnyFile
  <2>3. RestartKeepsSettings' BY <2>1, <2>2 DEF RestartKeepsSettings
  <2> QED BY <2>1, <2>2, <2>3 DEF SettledInv
<1>7. CASE WriteFails
  <2>1. /\ saving' = FALSE /\ failed' = TRUE /\ failures' \in 0..MaxFailures
        /\ UNCHANGED <<running, cfg, file, durable>>
    BY <1>7, MaxFailuresAssumption DEF WriteFails, SettledInv
  <2>2. RestartKeepsSettings' BY <2>1 DEF SettledInv, RestartKeepsSettings
  <2> QED BY <2>1, <2>2 DEF SettledInv
<1>8. CASE End
  <2>1. /\ running' = FALSE /\ saving' = FALSE /\ cfg' = DefaultConfig
        /\ UNCHANGED <<file, durable, failed, failures>>
    BY <1>8 DEF End
  <2>2. cfg' \in Settled /\ OneRule(cfg'.rules)
    BY <2>1, DefaultIsSettled, NoRules DEF DefaultConfig
  <2>3. RestartKeepsSettings' BY <2>1 DEF SettledInv, RestartKeepsSettings
  <2> QED BY <2>1, <2>2, <2>3 DEF SettledInv
<1>9. CASE UNCHANGED vars
  BY <1>9 DEF vars, SettledInv, RestartKeepsSettings
<1> QED BY <1>1, <1>2, <1>3, <1>4, <1>5, <1>6, <1>7, <1>8, <1>9 DEF Next, Click

(* Whatever clicks, failed writes, quits and crashes came before, the next *)
(* start finds what was last saved (SaveConfig, LoadConfig).               *)
THEOREM RestartKeeps == Spec => []RestartKeepsSettings
<1>1. Init => SettledInv BY SettledInit
<1>2. SettledInv /\ [Next]_vars => SettledInv' BY SettledStep
<1>3. SettledInv => RestartKeepsSettings BY DEF SettledInv
<1> QED BY <1>1, <1>2, <1>3, PTL DEF Spec

(* The commands never make a second rule for an application, although they *)
(* look up by key and by match (upsertRule, removeRule).                   *)
THEOREM OneRuleEach == Spec => []OneRulePerApp
<1>1. Init => SettledInv BY SettledInit
<1>2. SettledInv /\ [Next]_vars => SettledInv' BY SettledStep
<1>3. SettledInv => OneRulePerApp BY DEF SettledInv, OneRulePerApp
<1> QED BY <1>1, <1>2, <1>3, PTL DEF Spec

(* What LoadConfig makes of the fields of a file.                          *)
LEMMA LoadedFields ==
  ASSUME NEW f \in ConfigFile
  PROVE  LET l == Load(f)
             m == Migrate(Decode(f))
         IN /\ l.management = Or(f.management, DefaultConfig.management)
            /\ l.limiter = Or(f.limiter, DefaultConfig.limiter)
            /\ l.grace = Or(f.grace, Or(f.startup, DefaultConfig.grace))
            /\ l.window = IF f.window = {} THEN DefaultConfig.window ELSE m.window
            /\ l.theme = IF f.theme = {} THEN DefaultConfig.theme ELSE m.theme
            /\ l.interval = m.interval /\ l.battery = f.battery
            /\ m \in Settled /\ MigratedFields(Decode(f))
<1> DEFINE m == Migrate(Decode(f))
<1>1. Load(f) = Backfill(f) BY LoadFacts DEF AnyFile
<1>2. Decode(f) \in Config /\ Decode(f).battery = f.battery BY DecodeFacts
<1>3. m \in Settled /\ MigratedFields(Decode(f)) BY <1>2, MigrateFacts
<1>4. m.battery = f.battery BY <1>2, <1>3 DEF MigratedFields
<1> HIDE DEF m
<1>5. Backfill(f) =
        [m EXCEPT !.management = Or(f.management, DefaultConfig.management),
                  !.limiter = Or(f.limiter, DefaultConfig.limiter),
                  !.window = IF f.window = {} THEN DefaultConfig.window ELSE @,
                  !.theme = IF f.theme = {} THEN DefaultConfig.theme ELSE @,
                  !.grace = Or(f.grace, Or(f.startup, DefaultConfig.grace))]
  BY DEF Backfill, m
<1>6. /\ Backfill(f).management = Or(f.management, DefaultConfig.management)
      /\ Backfill(f).limiter = Or(f.limiter, DefaultConfig.limiter)
      /\ Backfill(f).grace = Or(f.grace, Or(f.startup, DefaultConfig.grace))
      /\ Backfill(f).window = IF f.window = {} THEN DefaultConfig.window ELSE m.window
      /\ Backfill(f).theme = IF f.theme = {} THEN DefaultConfig.theme ELSE m.theme
      /\ Backfill(f).interval = m.interval /\ Backfill(f).battery = m.battery
  BY <1>3, <1>5 DEF Settled
<1> QED BY <1>1, <1>3, <1>4, <1>6 DEF m

LEMMA StartKeepsPreferences ==
  ASSUME file \in ConfigFile, cfg' = Load(file) PROVE Start_KeepsPreferences
<1> DEFINE d == Decode(file)
           m == Migrate(d)
<1>1. /\ cfg'.management = Or(file.management, DefaultConfig.management)
      /\ cfg'.limiter = Or(file.limiter, DefaultConfig.limiter)
      /\ cfg'.grace = Or(file.grace, Or(file.startup, DefaultConfig.grace))
      /\ cfg'.window = IF file.window = {} THEN DefaultConfig.window ELSE m.window
      /\ cfg'.theme = IF file.theme = {} THEN DefaultConfig.theme ELSE m.theme
      /\ cfg'.interval = m.interval /\ cfg'.battery = file.battery
      /\ MigratedFields(d)
  BY LoadedFields
<1>2. cfg' \in Settled BY LoadFacts DEF AnyFile
<1>3. /\ d.interval = Or(file.interval, 0) /\ d.window = Or(file.window, 0)
      /\ d.theme = Or(file.theme, "")
  BY DEF Decode
<1>4. /\ m.interval = IF d.interval = 0 THEN DefaultConfig.interval ELSE d.interval
      /\ d.window \in MinWindow..MaxWindow => m.window = d.window
      /\ d.theme \in Themes => m.theme = d.theme
  BY <1>1 DEF MigratedFields
<1>5. /\ file.management \in Optional(BOOLEAN) /\ file.limiter \in Optional(BOOLEAN)
      /\ file.grace \in Optional(Int) /\ file.startup \in Optional(Int)
      /\ file.interval \in Optional(Int) /\ file.window \in Optional(Int)
      /\ file.theme \in Optional(Words)
  BY DEF ConfigFile
<1> HIDE DEF m, d
<1>a. \A default : Or({}, default) = default BY DEF Or
<1>b. ASSUME NEW S, NEW optional \in Optional(S), NEW value \in optional, NEW default
      PROVE  Or(optional, default) = value
  <2>1. optional = {Or(optional, default)} BY OrFacts
  <2> QED BY <2>1
<1>6. \A value \in file.management : cfg'.management = value BY <1>1, <1>5, <1>b
<1>7. \A value \in file.limiter : cfg'.limiter = value BY <1>1, <1>5, <1>b
<1>8. \A value \in file.grace : cfg'.grace = value BY <1>1, <1>5, <1>b
<1>9. \A value \in file.interval : value # 0 => cfg'.interval = value
  <2>1. \A value \in file.interval : d.interval = value BY <1>3, <1>5, <1>b
  <2> QED BY <1>1, <1>4, <2>1
<1>10. \A value \in file.window :
         value \in MinWindow..MaxWindow => cfg'.window = value
  <2>1. \A value \in file.window : d.window = value BY <1>3, <1>5, <1>b
  <2> QED BY <1>1, <1>4, <2>1
<1>11. \A value \in file.theme : value \in Themes => cfg'.theme = value
  <2>1. \A value \in file.theme : d.theme = value BY <1>3, <1>5, <1>b
  <2> QED BY <1>1, <1>4, <2>1
<1>12. file.grace = {} => cfg'.grace = Or(file.startup, DefaultConfig.grace)
  BY <1>1, <1>a
<1>13. /\ file.management = {} => cfg'.management = DefaultConfig.management
       /\ file.limiter = {} => cfg'.limiter = DefaultConfig.limiter
       /\ file.window = {} => cfg'.window = DefaultConfig.window
       /\ file.theme = {} => cfg'.theme = DefaultConfig.theme
  BY <1>1, <1>a
<1>14. file.interval = {} => cfg'.interval = DefaultConfig.interval
  BY <1>1, <1>3, <1>4, <1>a
<1>15. cfg'.interval # 0 /\ cfg'.window \in MinWindow..MaxWindow /\ cfg'.theme \in Themes
  BY <1>2 DEF Settled
<1>16. \A field \in {"management", "limiter", "grace"} :
         \A value \in file[field] : cfg'[field] = value
  BY <1>6, <1>7, <1>8
<1>17. \A field \in {"management", "limiter", "interval", "window", "theme"} :
         file[field] = {} => cfg'[field] = DefaultConfig[field]
  BY <1>13, <1>14
<1> QED BY <1>1, <1>9, <1>10, <1>11, <1>12, <1>15, <1>16, <1>17 DEF Start_KeepsPreferences

(* A start keeps every choice that the file spells out and that is in      *)
(* range, FALSE and zero included, and one spelled in the older name, and  *)
(* every rule with its application, mode, target and places (LoadConfig).  *)
THEOREM UpgradeKeeps == Spec => UpgradeKeepsChoices
<1>1. ASSUME SettledInv, [Next]_vars, ~running, running', file.kind = "config"
      PROVE  Start_KeepsPreferences /\ Start_KeepsRules
  <2>1. cfg' = Load(file)
    BY <1>1 DEF Next, Click, Start, ClickRule, DisableRule, ClickPreference, ClickReset,
                Idle, Rename, WriteFails, End, vars, SettledInv
  <2>2. file \in ConfigFile
    BY <1>1 DEF SettledInv, AnyFile, Missing, Garbled, Newer
  <2>3. Start_KeepsPreferences BY <2>1, <2>2, StartKeepsPreferences
  <2>4. Start_KeepsRules BY <2>1, <2>2, LoadFacts DEF AnyFile, Start_KeepsRules
  <2> QED BY <2>3, <2>4
<1>2. Init => SettledInv BY SettledInit
<1>3. SettledInv /\ [Next]_vars => SettledInv' BY SettledStep
<1>4. SettledInv /\ [Next]_vars
        => [~running /\ running' /\ file.kind = "config"
              => Start_KeepsPreferences /\ Start_KeepsRules]_vars
  BY <1>1
<1> QED BY <1>2, <1>3, <1>4, PTL DEF Spec, UpgradeKeepsChoices

-----------------------------------------------------------------------------
(* The rule of a key.                                                      *)

Others(list, key) == Subsequence(list, DOMAIN list \ KeyAt(list, key))

(* An application with a clear key matches itself: it has a part.          *)
LEMMA ClearHasPart == ASSUME NEW x \in Ids, Key(x) \in ClearKeys PROVE x # NoRule.id
<1>1. ~Matches(NoRule.id, NoRule.id) BY DEF Matches, NoRule
<1>2. Matches(x, x) BY DEF ClearKeys
<1> QED BY <1>1, <1>2

LEMMA StoredIds ==
  ASSUME NEW rules \in Seq(StoredRule), NEW i \in DOMAIN rules
  PROVE  rules[i] \in StoredRule /\ rules[i].id \in Ids
<1>1. rules[i] \in StoredRule OBVIOUS
<1> QED BY <1>1 DEF StoredRule

LEMMA MatchIsKey ==
  ASSUME NEW rules \in Seq(StoredRule), NEW id \in Ids, Key(id) \in ClearKeys
  PROVE  MatchingAt(rules, id) = KeyAt(rules, Key(id))
<1>1. \A x \in Ids : Matches(x, id) <=> Key(x) = Key(id)
  BY MatchesSymmetric DEF ClearKeys
<1> QED BY <1>1, StoredIds DEF MatchingAt, KeyAt

LEMMA OneOfKey ==
  ASSUME NEW rules \in Seq(StoredRule), OneRule(rules), NEW key \in ClearKeys,
         NEW i \in KeyAt(rules, key)
  PROVE  KeyAt(rules, key) = {i} /\ RuleOfKey(rules, key) = rules[i]
<1>1. i \in DOMAIN rules /\ Key(rules[i].id) = key BY DEF KeyAt
<1>2. rules[i].id \in Ids BY <1>1, StoredIds
<1>3. MatchingAt(rules, rules[i].id) = KeyAt(rules, key) BY <1>1, <1>2, MatchIsKey
<1>4. KeyAt(rules, key) = {i} BY <1>2, <1>3 DEF OneRule
<1>5. First(KeyAt(rules, key)) = i
  <2>1. First(KeyAt(rules, key)) \in KeyAt(rules, key) BY KeyAtFacts
  <2> QED BY <1>4, <2>1
<1> QED BY <1>4, <1>5 DEF RuleOfKey

LEMMA RuleOfKeyFacts ==
  ASSUME NEW rules \in Seq(StoredRule), NEW key \in ClearKeys
  PROVE  /\ KeyAt(rules, key) = {} => RuleOfKey(rules, key) = NoRule
         /\ KeyAt(rules, key) # {} =>
              /\ RuleOfKey(rules, key) = rules[First(KeyAt(rules, key))]
              /\ RuleOfKey(rules, key) \in StoredRule
              /\ Key(RuleOfKey(rules, key).id) = key
              /\ RuleOfKey(rules, key).id # NoRule.id
              /\ RuleOfKey(rules, key) # NoRule
<1>1. CASE KeyAt(rules, key) = {} BY <1>1 DEF RuleOfKey
<1>2. CASE KeyAt(rules, key) # {}
  <2>1. RuleOfKey(rules, key) = rules[First(KeyAt(rules, key))] BY <1>2 DEF RuleOfKey
  <2>2. RuleOfKey(rules, key) \in StoredRule /\ Key(RuleOfKey(rules, key).id) = key
    BY <1>2, <2>1, KeyAtFacts
  <2>3. RuleOfKey(rules, key).id \in Ids BY <2>2 DEF StoredRule
  <2>4. RuleOfKey(rules, key).id # NoRule.id BY <2>2, <2>3, ClearHasPart
  <2> QED BY <1>2, <2>1, <2>2, <2>4
<1> QED BY <1>1, <1>2

LEMMA FoundByKey ==
  ASSUME NEW rules \in Seq(StoredRule), NEW id \in Ids, Key(id) \in ClearKeys
  PROVE  RuleFor(rules, id) = RuleOfKey(rules, Key(id))
BY MatchIsKey DEF RuleFor, RuleOfKey

-----------------------------------------------------------------------------
(* What an upsert and a removal leave alone.                               *)

LEMMA SubsequencesAgree ==
  ASSUME NEW S, NEW list \in Seq(S), NEW other \in Seq(S), NEW kept,
         kept \subseteq DOMAIN list, kept \subseteq DOMAIN other,
         \A i \in kept : list[i] = other[i]
  PROVE  Subsequence(list, kept) = Subsequence(other, kept)
<1>1. \A n \in 1..Cardinality(kept) : Kept(kept, n) \in kept
  BY SubsequenceFacts
<1>2. /\ Subsequence(list, kept) = [n \in 1..Cardinality(kept) |-> list[Kept(kept, n)]]
      /\ Subsequence(other, kept) = [n \in 1..Cardinality(kept) |-> other[Kept(kept, n)]]
  BY DEF Subsequence, Kept, UpTo
<1> QED BY <1>1, <1>2

LEMMA WholeSubsequence ==
  ASSUME NEW S, NEW list \in Seq(S)
  PROVE  Subsequence(list, DOMAIN list) = list
<1> DEFINE n == Len(list)
           kept == DOMAIN list
<1>1. n \in Nat /\ kept = 1..n OBVIOUS
<1>2. Cardinality(kept) = n /\ \A i \in 1..n : Cardinality(UpTo(kept, i)) = i
  <2>1. \A i \in 0..n : Cardinality(1..i) = i
    BY <1>1, FS_Interval
  <2>2. \A i \in 1..n : UpTo(kept, i) = 1..i BY <1>1 DEF UpTo
  <2> QED BY <1>1, <2>1, <2>2
<1> HIDE DEF n, kept
<1>3. \A m \in 1..n : Kept(kept, m) = m
  BY <1>1, <1>2 DEF Kept
<1>4. Subsequence(list, kept) = [m \in 1..n |-> list[Kept(kept, m)]]
  BY <1>2 DEF Subsequence, Kept, UpTo
<1>5. Subsequence(list, kept) = [m \in 1..n |-> list[m]] BY <1>3, <1>4
<1>6. list = [m \in 1..n |-> list[m]] BY DEF n
<1> QED BY <1>5, <1>6 DEF kept

(* The list "new" after a click on a key: one rule r of the key, or none,  *)
(* and the rest as before.                                                 *)
Turns(rules, new, key, r) ==
  /\ new \in Seq(StoredRule) /\ OneRule(new)
  /\ RuleOfKey(new, key) = r
  /\ Others(new, key) = Others(rules, key)

LEMMA UpsertRuleTurns ==
  ASSUME NEW rules \in Seq(StoredRule), OneRule(rules),
         NEW rule \in StoredRule, Key(rule.id) \in ClearKeys
  PROVE  Turns(rules, UpsertRule(rules, rule), Key(rule.id), rule)
<1> DEFINE new == UpsertRule(rules, rule)
           key == Key(rule.id)
           at == MatchingAt(rules, rule.id)
<1>1. rule.id \in Ids BY DEF StoredRule
<1>2. at = KeyAt(rules, key) BY <1>1, MatchIsKey
<1>3. new \in Seq(StoredRule) /\ OneRule(new) BY UpsertFacts
<1>4. CASE at = {}
  <2>1. new = Append(rules, rule) BY <1>4 DEF UpsertRule
  <2> DEFINE last == Len(rules) + 1
  <2>2. /\ DOMAIN new = 1..last /\ DOMAIN rules = 1..Len(rules) /\ Len(rules) \in Nat
        /\ \A i \in DOMAIN rules : new[i] = rules[i] /\ i \in DOMAIN new
        /\ new[last] = rule /\ last \in DOMAIN new /\ last \notin DOMAIN rules
        /\ \A i \in DOMAIN new : i \in DOMAIN rules \/ i = last
    BY <2>1
  <2> HIDE DEF new, last
  <2>3. last \in KeyAt(new, key) BY <2>2 DEF KeyAt
  <2>4. KeyAt(new, key) = {last} /\ RuleOfKey(new, key) = new[last]
    BY <1>3, <2>3, OneOfKey
  <2>5. DOMAIN new \ KeyAt(new, key) = DOMAIN rules BY <2>2, <2>4
  <2>6. DOMAIN rules \ KeyAt(rules, key) = DOMAIN rules BY <1>2, <1>4
  <2>7. Subsequence(new, DOMAIN rules) = Subsequence(rules, DOMAIN rules)
    <3>1. DOMAIN rules \subseteq DOMAIN new BY <2>2
    <3> QED BY <1>3, <2>2, <3>1, SubsequencesAgree
  <2>8. Others(new, key) = Others(rules, key) BY <2>5, <2>6, <2>7 DEF Others
  <2>9. RuleOfKey(new, key) = rule BY <2>2, <2>4
  <2> QED BY <1>3, <2>8, <2>9 DEF Turns, new
<1>5. CASE at # {}
  <2> DEFINE k == First(at)
  <2>0. k \in at
    <3>1. at \in SUBSET (1..Len(rules)) /\ Len(rules) \in Nat BY DEF MatchingAt
    <3> QED BY <1>5, <3>1, FirstFacts
  <2>1. new = [rules EXCEPT ![k] = rule] BY <1>5 DEF UpsertRule
  <2>a. key \in ClearKeys OBVIOUS
  <2> HIDE DEF k, at, key
  <2>2. KeyAt(rules, key) = {k} /\ k \in DOMAIN rules
    <3>1. k \in KeyAt(rules, key) BY <1>2, <2>0
    <3> QED BY <2>a, <3>1, OneOfKey DEF KeyAt
  <2>3. /\ DOMAIN new = DOMAIN rules /\ new[k] = rule
        /\ \A i \in DOMAIN rules : i # k => new[i] = rules[i]
    BY <2>1, <2>2
  <2> HIDE DEF new
  <2>4. k \in KeyAt(new, key) BY <2>2, <2>3 DEF KeyAt, key
  <2>5. KeyAt(new, key) = {k} /\ RuleOfKey(new, key) = rule
    BY <1>3, <2>a, <2>3, <2>4, OneOfKey
  <2> DEFINE kept == DOMAIN rules \ {k}
  <2>6. Subsequence(new, kept) = Subsequence(rules, kept)
    <3>1. kept \subseteq DOMAIN new /\ kept \subseteq DOMAIN rules
          /\ \A i \in kept : new[i] = rules[i]
      BY <2>3
    <3> HIDE DEF kept
    <3> QED BY <1>3, <3>1, SubsequencesAgree
  <2>7. Others(new, key) = Others(rules, key) BY <2>2, <2>3, <2>5, <2>6 DEF Others
  <2> QED BY <1>3, <2>5, <2>7 DEF Turns, new, key
<1> QED BY <1>4, <1>5

LEMMA RemoveRuleTurns ==
  ASSUME NEW rules \in Seq(StoredRule), OneRule(rules), NEW x \in Ids,
         Key(x) \in ClearKeys
  PROVE  Turns(rules, RemoveRule(rules, x), Key(x), NoRule)
<1> DEFINE new == RemoveRule(rules, x)
           key == Key(x)
           kept == DOMAIN rules \ KeyAt(rules, key)
<1>1. new = Subsequence(rules, kept) BY MatchIsKey DEF RemoveRule
<1>2. new \in Seq(StoredRule) /\ OneRule(new) BY RemoveFacts
<1>3. Others(rules, key) = new BY <1>1 DEF Others
<1>4. kept \in SUBSET (DOMAIN rules) OBVIOUS
<1> HIDE DEF new, key
<1>5. KeyAt(new, key) = {}
  <2> SUFFICES ASSUME NEW n \in KeyAt(new, key) PROVE FALSE OBVIOUS
  <2>1. n \in DOMAIN new /\ Key(new[n].id) = key BY DEF KeyAt
  <2>2. Kept(kept, n) \in kept /\ new[n] = rules[Kept(kept, n)]
    <3> HIDE DEF kept
    <3>1. /\ DOMAIN Subsequence(rules, kept) = 1..Cardinality(kept)
          /\ \A m \in 1..Cardinality(kept) :
               /\ Kept(kept, m) \in kept
               /\ Subsequence(rules, kept)[m] = rules[Kept(kept, m)]
      BY <1>4, SubsequenceFacts
    <3> QED BY <1>1, <2>1, <3>1
  <2> QED BY <2>1, <2>2 DEF KeyAt
<1>6. RuleOfKey(new, key) = NoRule BY <1>5 DEF RuleOfKey
<1>7. Others(new, key) = new
  <2>1. DOMAIN new \ KeyAt(new, key) = DOMAIN new BY <1>5
  <2> QED BY <1>2, <2>1, WholeSubsequence DEF Others
<1> QED BY <1>2, <1>3, <1>6, <1>7 DEF Turns, new, key

-----------------------------------------------------------------------------
(* What one click turns the rule of its key into.                          *)

LEMMA EffectiveOfPlaces ==
  ASSUME NEW rule, rule.trackIn \subseteq Places
  PROVE  Effective(rule) = IF rule.trackIn = {} THEN DefaultTrackIn(rule.mode)
                           ELSE rule.trackIn
<1>1. CASE rule.trackIn = {}
  <2>1. Normalize(rule.trackIn) = {} BY <1>1 DEF Normalize
  <2> QED BY <1>1, <2>1 DEF Effective
<1>2. CASE rule.trackIn # {}
  <2>1. rule.trackIn \in StoredTrackIn BY <1>2 DEF StoredTrackIn
  <2>2. Normalize(rule.trackIn) = rule.trackIn BY <2>1, NormalizeFacts
  <2> QED BY <1>2, <2>2 DEF Effective
<1> QED BY <1>1, <1>2

LEMMA EffectiveOfNone ==
  ASSUME NEW rule, rule.trackIn = {"none"} PROVE Effective(rule) = {}
<1>1. Normalize({"none"}) = {"none"}
  <2>1. {"none"} \in StoredTrackIn BY DEF StoredTrackIn
  <2> QED BY <2>1, NormalizeFacts
<1> QED BY <1>1 DEF Effective, Places

LEMMA MigratedRule ==
  ASSUME NEW rule \in Rule
  PROVE  /\ Effective(MigrateRule(rule)) = Effective(rule)
         /\ MigrateRule(rule).mode = rule.mode
BY MigrateRuleFacts DEF SameRule

LEMMA UpsertTurns ==
  ASSUME NEW c \in Settled, OneRule(c.rules), NEW rule \in Rule,
         Key(rule.id) \in ClearKeys, ~Refused(rule)
  PROVE  /\ Turns(c.rules, Upsert(c, rule).cfg.rules, Key(rule.id), MigrateRule(rule))
         /\ Turns(c.rules, Upsert([c EXCEPT !.limiter = TRUE], rule).cfg.rules,
                  Key(rule.id), MigrateRule(rule))
<1> DEFINE stored == MigrateRule(rule)
           rules == UpsertRule(c.rules, stored)
<1>1. stored \in StoredRule /\ stored.id = rule.id
  BY MigrateRuleFacts DEF SameRule
<1>2. \A d : Upsert(d, rule) = Saved([d EXCEPT !.rules = UpsertRule(@, stored)])
  BY DEF Upsert, MigrateRule
<1> HIDE DEF stored
<1>3. Upsert(c, rule).cfg.rules = rules BY <1>2 DEF Saved, Settled
<1>4. Upsert([c EXCEPT !.limiter = TRUE], rule).cfg.rules = rules
  <2> DEFINE d == [c EXCEPT !.limiter = TRUE]
  <2>1. d \in Settled /\ d.rules = c.rules BY DEF Settled
  <2> HIDE DEF d
  <2>2. Upsert(d, rule).cfg.rules = rules BY <1>2, <2>1 DEF Saved, Settled
  <2> QED BY <2>2 DEF d
<1>5. Turns(c.rules, rules, Key(stored.id), stored)
  BY <1>1, UpsertRuleTurns DEF Settled
<1> QED BY <1>1, <1>3, <1>4, <1>5 DEF stored

LEMMA SameTurns ==
  ASSUME NEW c \in Settled, OneRule(c.rules), NEW key
  PROVE  Turns(c.rules, Unchanged(c).cfg.rules, key, RuleOfKey(c.rules, key))
BY DEF Turns, Unchanged, Settled

LEMMA RemoveTurns ==
  ASSUME NEW c \in Settled, OneRule(c.rules), NEW key \in ClearKeys
  PROVE  Turns(c.rules, Remove(c, key).cfg.rules, key, NoRule)
<1>0. c.rules \in Seq(StoredRule) BY DEF Settled
<1>1. Remove(c, key).cfg.rules = RemoveKey(c.rules, key)
  BY DEF Remove, Saved, Settled
<1>2. CASE KeyAt(c.rules, key) = {}
  <2>1. RemoveKey(c.rules, key) = c.rules BY <1>2 DEF RemoveKey
  <2>2. RuleOfKey(c.rules, key) = NoRule BY <1>2 DEF RuleOfKey
  <2> QED BY <1>0, <1>1, <2>1, <2>2 DEF Turns
<1>3. CASE KeyAt(c.rules, key) # {}
  <2> DEFINE x == c.rules[First(KeyAt(c.rules, key))].id
  <2>1. x \in Ids /\ Key(x) = key BY <1>0, <1>3, KeyAtFacts DEF StoredRule
  <2>2. RemoveKey(c.rules, key) = RemoveRule(c.rules, x) BY <1>3 DEF RemoveKey
  <2> HIDE DEF x
  <2>3. Turns(c.rules, RemoveRule(c.rules, x), Key(x), NoRule)
    BY <1>0, <2>1, RemoveRuleTurns
  <2> QED BY <1>1, <2>1, <2>2, <2>3
<1> QED BY <1>2, <1>3

-----------------------------------------------------------------------------
(* What each command makes of the rule of its key.                         *)

LEMMA EffectiveOfNoRule == Effective(NoRule) = {}
BY EffectiveOfNone DEF NoRule

LEMMA EffectiveInPlaces == ASSUME NEW rule PROVE Effective(rule) \subseteq Places
BY DEF Effective, DefaultTrackIn, Places

(* A change of the places that may be refused.                             *)
Moves(c, result, refused, old, new, places) ==
  IF refused THEN result.cfg = c /\ new = old ELSE Effective(new) = places

LEMMA UntrackTurns ==
  ASSUME NEW c \in Settled, OneRule(c.rules), NEW key \in ClearKeys,
         NEW place \in Places
  PROVE  LET old == RuleOfKey(c.rules, key)
         IN \E r : /\ Turns(c.rules, Untrack(c, key, place).cfg.rules, key, r)
                   /\ Moves(c, Untrack(c, key, place), Untargeted(old), old, r,
                            Effective(old) \ {place})
                   /\ r.mode \in {old.mode, "none"}
<1> DEFINE at == KeyAt(c.rules, key)
           old == RuleOfKey(c.rules, key)
           rule == WithoutTrackIn(old, place)
           left == Effective(old) \ {place}
           result == Untrack(c, key, place)
<1>0. c.rules \in Seq(StoredRule) BY DEF Settled
<1>1. CASE at = {}
  <2>1. result = Unchanged(c) BY <1>1 DEF Untrack
  <2>2. old = NoRule BY <1>1 DEF RuleOfKey
  <2>3. Turns(c.rules, result.cfg.rules, key, old) BY <2>1, SameTurns
  <2>4. Effective(old) = left BY <2>2, EffectiveOfNoRule
  <2>5. ~Untargeted(old) BY <2>2 DEF Untargeted, NoRule
  <2> HIDE DEF old, result, left
  <2>6. Moves(c, result, Untargeted(old), old, old, left) BY <2>4, <2>5 DEF Moves
  <2> QED BY <2>3, <2>6 DEF old, result, left
<1>2. CASE at # {}
  <2>1. /\ old = c.rules[First(at)] /\ old \in StoredRule /\ Key(old.id) = key
        /\ old.id # NoRule.id
    BY <1>0, <1>2, RuleOfKeyFacts
  <2>2. result = IF Effective(rule) = {} /\ rule.mode = "observe"
                 THEN Remove(c, key) ELSE Upsert(c, rule)
    BY <1>2, <2>1 DEF Untrack
  <2> HIDE DEF old, result
  <2>3. rule = [old EXCEPT !.trackIn = IF left = {} THEN {"none"} ELSE left]
    BY DEF WithoutTrackIn
  <2>4. left \subseteq Places BY EffectiveInPlaces
  <2>5. Places \subseteq Words /\ "none" \in Words BY DEF Words
  <2> HIDE DEF rule, left
  <2>6. rule \in Rule /\ rule.id = old.id /\ rule.mode = old.mode
        /\ rule.target = old.target
        /\ rule.trackIn = IF left = {} THEN {"none"} ELSE left
    BY <2>1, <2>3, <2>4, <2>5 DEF StoredRule, Rule
  <2>7. Effective(rule) = left BY <2>4, <2>6, EffectiveOfNone, EffectiveOfPlaces
  <2>a. Refused(rule) <=> Untargeted(old)
    BY <2>1, <2>6 DEF Refused, Untargeted
  <2>8. CASE Effective(rule) = {} /\ rule.mode = "observe"
    <3>1. Turns(c.rules, result.cfg.rules, key, NoRule) BY <2>2, <2>8, RemoveTurns
    <3>2. Effective(NoRule) = left BY <2>7, <2>8, EffectiveOfNoRule
    <3>3. NoRule.mode = "none" BY DEF NoRule
    <3>4. ~Untargeted(old) BY <2>6, <2>8 DEF Untargeted
    <3>5. Moves(c, result, Untargeted(old), old, NoRule, left) BY <3>2, <3>4 DEF Moves
    <3> QED BY <3>1, <3>3, <3>5 DEF left, old, result
  <2>9. CASE ~(Effective(rule) = {} /\ rule.mode = "observe") /\ ~Refused(rule)
    <3>1. Turns(c.rules, result.cfg.rules, key, MigrateRule(rule))
      BY <2>1, <2>2, <2>6, <2>9, UpsertTurns
    <3>2. /\ Effective(MigrateRule(rule)) = left
          /\ MigrateRule(rule).mode = old.mode
      BY <2>6, <2>7, MigratedRule
    <3>3. Moves(c, result, Untargeted(old), old, MigrateRule(rule), left)
      BY <2>a, <2>9, <3>2 DEF Moves
    <3> QED BY <3>1, <3>2, <3>3 DEF left, old, result
  <2>10. CASE ~(Effective(rule) = {} /\ rule.mode = "observe") /\ Refused(rule)
    <3>1. result = Unchanged(c) BY <2>2, <2>10 DEF Upsert
    <3>2. Turns(c.rules, result.cfg.rules, key, old) BY <3>1, SameTurns DEF old
    <3>3. result.cfg = c BY <3>1 DEF Unchanged
    <3>4. Moves(c, result, Untargeted(old), old, old, left)
      BY <2>a, <2>10, <3>3 DEF Moves
    <3> QED BY <3>2, <3>4 DEF left, old, result
  <2> QED BY <2>8, <2>9, <2>10
<1> QED BY <1>1, <1>2

LEMMA TrackTurns ==
  ASSUME NEW c \in Settled, OneRule(c.rules), NEW id \in Ids, Key(id) \in ClearKeys,
         NEW control, NEW place \in Places
  PROVE  LET old == RuleOfKey(c.rules, Key(id))
             result == Track(c, id, control, place)
         IN \E r : /\ Turns(c.rules, result.cfg.rules, Key(id), r)
                   /\ Moves(c, result, Untargeted(old) /\ Allows(control, "limit"), old, r,
                            Effective(old) \cup {place})
                   /\ r.mode \in {old.mode, "observe"}
<1> DEFINE old == RuleOfKey(c.rules, Key(id))
           result == Track(c, id, control, place)
           stuck == Untargeted(old) /\ Allows(control, "limit")
           places == Effective(old) \cup {place}
<1>0. c.rules \in Seq(StoredRule) BY DEF Settled
<1>1. RuleFor(c.rules, id) = old BY <1>0, FoundByKey
<1>2. \/ old = NoRule
      \/ /\ old \in StoredRule /\ Key(old.id) = Key(id)
         /\ old.id # NoRule.id /\ old # NoRule
  BY <1>0, RuleOfKeyFacts
<1>3. Places \subseteq Words /\ "observe" \in Words BY DEF Words
<1>4. CASE old = NoRule
  <2> DEFINE rule == [id |-> id, mode |-> "observe", trackIn |-> {place}, target |-> FALSE]
  <2>1. result = Upsert(c, rule) BY <1>1, <1>4 DEF Track
  <2>2. rule \in Rule /\ rule.id = id /\ rule.mode = "observe" /\ rule.trackIn = {place}
    BY <1>3 DEF Rule
  <2> HIDE DEF rule, result, old
  <2>3. Effective(rule) = {place} BY <2>2, EffectiveOfPlaces
  <2>a. ~Refused(rule) BY <2>2, ClearHasPart DEF Refused, Untargeted
  <2>4. Turns(c.rules, result.cfg.rules, Key(id), MigrateRule(rule))
    BY <2>1, <2>2, <2>a, UpsertTurns
  <2>5. Effective(MigrateRule(rule)) = places
    BY <1>4, <2>2, <2>3, MigratedRule, EffectiveOfNoRule
  <2>6. MigrateRule(rule).mode = "observe" BY <2>2, MigratedRule
  <2>7. ~stuck BY <1>4 DEF Untargeted, NoRule
  <2> HIDE DEF stuck, places
  <2>8. Moves(c, result, stuck, old, MigrateRule(rule), places)
    BY <2>5, <2>7 DEF Moves
  <2> QED BY <2>4, <2>6, <2>8 DEF old, result, stuck, places
<1>5. CASE old # NoRule
  <2> DEFINE moded == IF Allows(control, old.mode) THEN old
                      ELSE [old EXCEPT !.mode = "observe", !.target = FALSE]
             rule == WithTrackIn(moded, place)
  <2>1. result = Upsert(c, rule) BY <1>1, <1>5 DEF Track
  <2>2. /\ old \in StoredRule /\ Key(old.id) = Key(id) /\ old.id # NoRule.id
        /\ old.trackIn \in StoredTrackIn
    BY <1>2, <1>5 DEF StoredRule
  <2> HIDE DEF old, result
  <2>3. rule = [moded EXCEPT !.trackIn = Effective(moded) \cup {place}] BY DEF WithTrackIn
  <2> HIDE DEF rule
  <2>4. /\ moded \in StoredRule /\ moded.id = old.id /\ moded.trackIn = old.trackIn
        /\ moded.mode \in {old.mode, "observe"}
        /\ Untargeted(moded) <=> stuck
    <3>1. CASE Allows(control, old.mode)
      BY <2>2, <3>1 DEF Untargeted
    <3>2. CASE ~Allows(control, old.mode)
      <4>1. moded = [old EXCEPT !.mode = "observe", !.target = FALSE] BY <3>2
      <4>2. /\ moded \in StoredRule /\ moded.id = old.id /\ moded.mode = "observe"
            /\ moded.trackIn = old.trackIn
        BY <1>3, <2>2, <4>1 DEF StoredRule
      <4>3. ~Untargeted(moded) BY <4>2 DEF Untargeted
      <4>4. ~stuck BY <3>2 DEF Untargeted
      <4> QED BY <4>2, <4>3, <4>4
    <3> QED BY <3>1, <3>2
  <2> HIDE DEF moded
  <2>5. Effective(moded) = Effective(old)
    <3>1. Normalize(old.trackIn) # {} BY <2>2, NormalizeFacts DEF StoredTrackIn
    <3> QED BY <2>4, <3>1 DEF Effective
  <2>7. places \subseteq Places /\ places # {} BY EffectiveInPlaces
  <2> HIDE DEF places, stuck
  <2>8. /\ rule \in Rule /\ rule.id = old.id /\ rule.mode = moded.mode
        /\ rule.trackIn = places /\ rule.target = moded.target
    <3>1. rule = [moded EXCEPT !.trackIn = places] BY <2>3, <2>5 DEF places
    <3>2. moded \in Rule BY <2>4, StoredIsRule
    <3>3. places \subseteq Words BY <1>3, <2>7
    <3> QED BY <2>4, <3>1, <3>2, <3>3 DEF Rule
  <2>9. Effective(rule) = places BY <2>7, <2>8, EffectiveOfPlaces
  <2>10. Refused(rule) <=> stuck BY <2>2, <2>4, <2>8 DEF Refused, Untargeted
  <2>11. CASE ~stuck
    <3>1. Turns(c.rules, result.cfg.rules, Key(id), MigrateRule(rule))
      BY <2>1, <2>2, <2>8, <2>10, <2>11, UpsertTurns
    <3>2. /\ Effective(MigrateRule(rule)) = places
          /\ MigrateRule(rule).mode \in {old.mode, "observe"}
      BY <2>4, <2>8, <2>9, MigratedRule
    <3>3. Moves(c, result, stuck, old, MigrateRule(rule), places)
      BY <2>11, <3>2 DEF Moves
    <3> QED BY <3>1, <3>2, <3>3 DEF old, result, stuck, places
  <2>12. CASE stuck
    <3>1. result = Unchanged(c) BY <2>1, <2>10, <2>12 DEF Upsert
    <3>2. Turns(c.rules, result.cfg.rules, Key(id), old) BY <3>1, SameTurns DEF old
    <3>3. result.cfg = c BY <3>1 DEF Unchanged
    <3>4. Moves(c, result, stuck, old, old, places) BY <2>12, <3>3 DEF Moves
    <3> QED BY <3>2, <3>4 DEF old, result, stuck, places
  <2> QED BY <2>11, <2>12
<1> QED BY <1>4, <1>5

LEMMA ClearPauseTurns ==
  ASSUME NEW c \in Settled, OneRule(c.rules), NEW key \in ClearKeys,
         RuleOfKey(c.rules, key) # NoRule
  PROVE  LET old == RuleOfKey(c.rules, key)
         IN \E r : /\ Turns(c.rules, ClearPause(c, old, key).cfg.rules, key, r)
                   /\ \/ r = NoRule /\ "menu_bar" \notin Effective(old)
                      \/ /\ r.mode = "observe" /\ Effective(r) = Effective(old)
                         /\ Effective(old) # {}
<1> DEFINE old == RuleOfKey(c.rules, key)
           result == ClearPause(c, old, key)
<1>0. c.rules \in Seq(StoredRule) BY DEF Settled
<1>1. old \in StoredRule /\ Key(old.id) = key /\ old.id # NoRule.id
  BY <1>0, RuleOfKeyFacts
<1> HIDE DEF old
<1>2. CASE "menu_bar" \in Effective(old)
  <2> DEFINE rule == [id |-> old.id, mode |-> "observe", trackIn |-> Effective(old),
                      target |-> FALSE]
  <2>1. result = Upsert(c, rule) BY <1>2 DEF ClearPause
  <2> HIDE DEF result
  <2>2. Effective(old) \subseteq Places BY EffectiveInPlaces
  <2>3. Places \subseteq Words /\ "observe" \in Words BY DEF Words
  <2>4. /\ rule \in Rule /\ rule.id = old.id /\ rule.mode = "observe"
        /\ rule.trackIn = Effective(old)
    BY <1>1, <2>2, <2>3 DEF StoredRule, Rule
  <2> HIDE DEF rule
  <2>5. Effective(rule) = Effective(old) BY <1>2, <2>2, <2>4, EffectiveOfPlaces
  <2>a. ~Refused(rule) BY <1>1, <2>4 DEF Refused, Untargeted
  <2>6. Turns(c.rules, result.cfg.rules, key, MigrateRule(rule))
    BY <1>1, <2>1, <2>4, <2>a, UpsertTurns
  <2>7. /\ Effective(MigrateRule(rule)) = Effective(old)
        /\ MigrateRule(rule).mode = "observe"
    BY <2>4, <2>5, MigratedRule
  <2> QED BY <1>2, <2>6, <2>7 DEF old, result
<1>3. CASE "menu_bar" \notin Effective(old)
  <2>1. result = Remove(c, key) BY <1>3 DEF ClearPause
  <2> HIDE DEF result
  <2>2. Turns(c.rules, result.cfg.rules, key, NoRule) BY <2>1, RemoveTurns
  <2> QED BY <1>3, <2>2 DEF old, result
<1> QED BY <1>2, <1>3

ModeTurns(c, key, result, control, mode, r) ==
  LET old == RuleOfKey(c.rules, key)
  IN /\ Turns(c.rules, result.cfg.rules, key, r)
     /\ \/ r = old
        \/ /\ r.mode = mode /\ Allows(control, mode)
           /\ old # NoRule =>
                Effective(r) = IF Effective(old) = {} THEN DefaultTrackIn(mode)
                               ELSE Effective(old)

LEMMA SetModeTurns ==
  ASSUME NEW c \in Settled, OneRule(c.rules), NEW id \in Ids, Key(id) \in ClearKeys,
         NEW control,
         NEW mode \in {"observe", "pause", "priority", "limit"}, NEW tooLow \in BOOLEAN
  PROVE  \E r : ModeTurns(c, Key(id), SetMode(c, id, control, mode, tooLow),
                         control, mode, r)
<1> DEFINE old == RuleOfKey(c.rules, Key(id))
           result == SetMode(c, id, control, mode, tooLow)
           rule == [id |-> id, mode |-> mode,
                    trackIn |-> IF old # NoRule THEN Effective(old)
                                ELSE DefaultTrackIn(mode),
                    target |-> mode = "limit" /\ ~tooLow]
<1>0. c.rules \in Seq(StoredRule) BY DEF Settled
<1>1. RuleFor(c.rules, id) = old BY <1>0, FoundByKey
<1>2. \/ result = Unchanged(c)
      \/ /\ Allows(control, mode) /\ ~Refused(rule)
         /\ result \in {Upsert([c EXCEPT !.limiter = TRUE], rule), Upsert(c, rule)}
  <2>1. \/ result = Unchanged(c)
        \/ /\ Allows(control, mode) /\ ~Refused(rule)
           /\ result = Upsert([c EXCEPT !.limiter = TRUE], rule)
        \/ Allows(control, mode) /\ result = Upsert(c, rule)
    BY <1>1 DEF SetMode
  <2>2. Refused(rule) => Upsert(c, rule) = Unchanged(c) BY DEF Upsert
  <2> HIDE DEF rule, result
  <2> QED BY <2>1, <2>2
<1> HIDE DEF old, result
<1>3. mode \in Words /\ Places \subseteq Words BY DEF Words
<1>4. Effective(old) \subseteq Places BY EffectiveInPlaces
<1>5. DefaultTrackIn(mode) \subseteq Places BY DEF DefaultTrackIn, Places
<1>6. /\ rule \in Rule /\ rule.id = id /\ rule.mode = mode
      /\ rule.trackIn \subseteq Places
      /\ old # NoRule => rule.trackIn = Effective(old)
  BY <1>3, <1>4, <1>5 DEF Rule
<1> HIDE DEF rule
<1>7. old # NoRule => Effective(rule) = IF Effective(old) = {} THEN DefaultTrackIn(mode)
                                        ELSE Effective(old)
  BY <1>6, EffectiveOfPlaces
<1>8. CASE result = Unchanged(c)
  <2>1. Turns(c.rules, result.cfg.rules, Key(id), old) BY <1>8, SameTurns DEF old
  <2>2. ModeTurns(c, Key(id), result, control, mode, old) BY <2>1 DEF ModeTurns, old
  <2> QED BY <2>2 DEF result
<1>9. CASE /\ Allows(control, mode) /\ ~Refused(rule)
           /\ result \in {Upsert([c EXCEPT !.limiter = TRUE], rule), Upsert(c, rule)}
  <2>1. Turns(c.rules, result.cfg.rules, Key(id), MigrateRule(rule))
    BY <1>6, <1>9, UpsertTurns
  <2>2. /\ Effective(MigrateRule(rule)) = Effective(rule)
        /\ MigrateRule(rule).mode = mode
    BY <1>6, MigratedRule
  <2>3. ModeTurns(c, Key(id), result, control, mode, MigrateRule(rule))
    BY <1>7, <1>9, <2>1, <2>2 DEF ModeTurns, old
  <2> QED BY <2>3 DEF result
<1> QED BY <1>2, <1>8, <1>9

-----------------------------------------------------------------------------
(* What a click on a row leads to.                                         *)

(* The rule "new" that a click of a mode makes of the rule "old".          *)
Moded(groups, command, key, old, new) ==
  \/ new = old
  \/ /\ command = <<"mode", "pause">> /\ old.mode = "pause"
     /\ new = NoRule /\ "menu_bar" \notin Effective(old)
  \/ /\ new # NoRule
     /\ \A id \in DOMAIN groups : Key(id) = key => Allows(groups[id], new.mode)
     /\ old # NoRule => Effective(new) = IF Effective(old) = {} THEN DefaultTrackIn(new.mode)
                                         ELSE Effective(old)
     /\ command = <<"mode", "pause">> /\ old.mode = "pause" => new.mode # "pause"

(* A limit is allowed to every observed group of the key.                  *)
Limits(groups, key) ==
  \A id \in DOMAIN groups : Key(id) = key => Allows(groups[id], "limit")

LEMMA ClickTurns ==
  ASSUME NEW c \in Settled, OneRule(c.rules), NEW groups \in GroupStates,
         NEW command \in RuleCommands, NEW key \in ClearKeys
  PROVE  \E new :
           LET old == RuleOfKey(c.rules, key)
               observed == \E id \in DOMAIN groups : Key(id) = key
               result == RuleCommand(c, groups, command, key)
           IN /\ Turns(c.rules, result.cfg.rules, key, new)
              /\ command \in UntrackCommands =>
                   /\ Moves(c, result, Untargeted(old), old, new,
                            Effective(old) \ {command[2]})
                   /\ new.mode \in {old.mode, "none"}
              /\ command \in TrackCommands /\ observed =>
                   /\ Moves(c, result, Untargeted(old) /\ Limits(groups, key), old, new,
                            Effective(old) \cup {command[2]})
                   /\ new.mode \in {old.mode, "observe"}
              /\ command \notin UntrackCommands /\ ~observed => new = old
              /\ command \in ModeCommands => Moded(groups, command, key, old, new)
<1> DEFINE old == RuleOfKey(c.rules, key)
           observed == \E id \in DOMAIN groups : Key(id) = key
           result == RuleCommand(c, groups, command, key)
<1>0. \/ Untracks(c, command, key, result)
      \/ FindsNone(c, groups, command, key, result)
      \/ \E id \in Ids : /\ DOMAIN groups = {id} /\ Key(id) = key
                         /\ \/ Tracks(c, groups, command, id, result)
                            \/ Clears(c, command, key, id, result)
                            \/ Sets(c, groups, command, id, result)
  <2> HIDE DEF result
  <2>1. result = RuleCommand(c, groups, command, key) BY DEF result
  <2> QED BY <2>1, CommandCases
<1>a. c.rules \in Seq(StoredRule) BY DEF Settled
<1>b. \A place \in Places : /\ <<"track", place>> \notin UntrackCommands \cup ModeCommands
                            /\ <<"untrack", place>> \notin TrackCommands \cup ModeCommands
  BY DEF TrackCommands, UntrackCommands, ModeCommands
<1>c. command \in ModeCommands => command \notin UntrackCommands \cup TrackCommands
  BY <1>b DEF TrackCommands, UntrackCommands
<1> SUFFICES \E new :
      /\ Turns(c.rules, result.cfg.rules, key, new)
      /\ command \in UntrackCommands =>
           /\ Moves(c, result, Untargeted(old), old, new, Effective(old) \ {command[2]})
           /\ new.mode \in {old.mode, "none"}
      /\ command \in TrackCommands /\ observed =>
           /\ Moves(c, result, Untargeted(old) /\ Limits(groups, key), old, new,
                    Effective(old) \cup {command[2]})
           /\ new.mode \in {old.mode, "observe"}
      /\ command \notin UntrackCommands /\ ~observed => new = old
      /\ command \in ModeCommands => Moded(groups, command, key, old, new)
  OBVIOUS
<1>d. \A id \in Ids : Key(id) = key => RuleFor(c.rules, id) = old
  BY <1>a, FoundByKey
<1> HIDE DEF old, observed, result
<1>1. CASE Untracks(c, command, key, result)
  <2>1. PICK place \in Places : command = <<"untrack", place>>
                                  /\ result = Untrack(c, key, place)
    BY <1>1 DEF Untracks
  <2>2. PICK new : /\ Turns(c.rules, result.cfg.rules, key, new)
                   /\ Moves(c, result, Untargeted(old), old, new,
                            Effective(old) \ {place})
                   /\ new.mode \in {old.mode, "none"}
    BY <2>1, UntrackTurns DEF old
  <2>3. /\ command \in UntrackCommands /\ command[2] = place
        /\ command \notin TrackCommands \cup ModeCommands
    BY <1>b, <2>1 DEF UntrackCommands
  <2> QED BY <2>2, <2>3
<1>2. CASE FindsNone(c, groups, command, key, result)
  <2>1. /\ command \notin UntrackCommands /\ result = Unchanged(c) /\ ~observed
    BY <1>2 DEF FindsNone, observed
  <2>2. Turns(c.rules, result.cfg.rules, key, old) BY <2>1, SameTurns DEF old
  <2>3. Moded(groups, command, key, old, old) BY DEF Moded
  <2> QED BY <2>1, <2>2, <2>3
<1>3. ASSUME NEW id \in Ids, DOMAIN groups = {id}, Key(id) = key,
             Tracks(c, groups, command, id, result)
      PROVE  \E new :
               /\ Turns(c.rules, result.cfg.rules, key, new)
               /\ Moves(c, result, Untargeted(old) /\ Limits(groups, key), old, new,
                        Effective(old) \cup {command[2]})
               /\ new.mode \in {old.mode, "observe"}
               /\ command \notin UntrackCommands \cup ModeCommands /\ observed
  <2>1. PICK place \in Places : command = <<"track", place>>
                                  /\ result = Track(c, id, groups[id], place)
    BY <1>3 DEF Tracks
  <2>2. PICK new : /\ Turns(c.rules, result.cfg.rules, key, new)
                   /\ Moves(c, result, Untargeted(old) /\ Allows(groups[id], "limit"),
                            old, new, Effective(old) \cup {place})
                   /\ new.mode \in {old.mode, "observe"}
    <3> DEFINE control == groups[id]
    <3> HIDE DEF control
    <3>1. result = Track(c, id, control, place) BY <2>1 DEF control
    <3>2. \E new : /\ Turns(c.rules, Track(c, id, control, place).cfg.rules, Key(id), new)
                   /\ Moves(c, Track(c, id, control, place),
                            Untargeted(RuleOfKey(c.rules, Key(id))) /\ Allows(control, "limit"),
                            RuleOfKey(c.rules, Key(id)), new,
                            Effective(RuleOfKey(c.rules, Key(id))) \cup {place})
                   /\ new.mode \in {RuleOfKey(c.rules, Key(id)).mode, "observe"}
      BY <1>3, TrackTurns
    <3> QED BY <1>3, <3>1, <3>2 DEF old, control
  <2>3. command \notin UntrackCommands \cup ModeCommands /\ command[2] = place /\ observed
    BY <1>b, <1>3, <2>1 DEF observed
  <2>4. Limits(groups, key) <=> Allows(groups[id], "limit") BY <1>3 DEF Limits
  <2> QED BY <2>2, <2>3, <2>4 DEF Moves
<1>4. ASSUME NEW id \in Ids, DOMAIN groups = {id}, Key(id) = key,
             Clears(c, command, key, id, result)
      PROVE  \E new : /\ Turns(c.rules, result.cfg.rules, key, new)
                      /\ Moded(groups, command, key, old, new)
                      /\ command \in ModeCommands /\ observed
  <2>1. /\ command = <<"mode", "pause">> /\ old.mode = "pause"
        /\ result = ClearPause(c, old, key)
    BY <1>3, <1>4, <1>d DEF Clears, PauseAgain
  <2>2. old # NoRule BY <2>1 DEF NoRule
  <2>3. PICK new : /\ Turns(c.rules, result.cfg.rules, key, new)
                   /\ \/ new = NoRule /\ "menu_bar" \notin Effective(old)
                      \/ /\ new.mode = "observe" /\ Effective(new) = Effective(old)
                         /\ Effective(old) # {}
    BY <2>1, <2>2, ClearPauseTurns DEF old
  <2>4. \A control : Allows(control, "observe") BY DEF Allows
  <2>a. NoRule.mode # "observe" BY DEF NoRule
  <2>5. Moded(groups, command, key, old, new) BY <2>1, <2>3, <2>4, <2>a DEF Moded
  <2>6. command \in ModeCommands /\ observed BY <1>4, <2>1 DEF ModeCommands, observed
  <2> QED BY <2>3, <2>5, <2>6
<1>5. ASSUME NEW id \in Ids, DOMAIN groups = {id}, Key(id) = key,
             Sets(c, groups, command, id, result)
      PROVE  \E new : /\ Turns(c.rules, result.cfg.rules, key, new)
                      /\ Moded(groups, command, key, old, new)
                      /\ command \in ModeCommands /\ observed
  <2>1. PICK mode \in Modes, tooLow \in BOOLEAN :
          /\ command \in ModeCommands /\ ~PauseAgain(c, command, id)
          /\ command = <<"mode", "pause">> => mode = "pause"
          /\ result = SetMode(c, id, groups[id], mode, tooLow)
    BY <1>5 DEF Sets
  <2>2. mode \in {"observe", "pause", "priority", "limit"} BY DEF Modes
  <2>3. PICK new : /\ Turns(c.rules, result.cfg.rules, key, new)
                   /\ \/ new = old
                      \/ /\ new.mode = mode /\ Allows(groups[id], mode)
                         /\ old # NoRule =>
                              Effective(new) = IF Effective(old) = {} THEN DefaultTrackIn(mode)
                                               ELSE Effective(old)
    <3> DEFINE control == groups[id]
    <3> HIDE DEF control
    <3>1. result = SetMode(c, id, control, mode, tooLow) BY <2>1 DEF control
    <3>2. Key(id) \in ClearKeys BY <1>5
    <3>3. \E new : ModeTurns(c, Key(id), SetMode(c, id, control, mode, tooLow),
                            control, mode, new)
      BY <2>2, <3>2, SetModeTurns
    <3> QED BY <1>5, <3>1, <3>3 DEF ModeTurns, old, control
  <2>4. ~(command = <<"mode", "pause">> /\ old.mode = "pause")
    BY <1>5, <1>d, <2>1 DEF PauseAgain
  <2>a. NoRule.mode # mode BY <2>2 DEF NoRule
  <2>5. Moded(groups, command, key, old, new) BY <1>5, <2>3, <2>4, <2>a DEF Moded
  <2>6. observed BY <1>5 DEF observed
  <2> QED BY <2>1, <2>3, <2>5, <2>6
<1>6. CASE \E new : /\ Turns(c.rules, result.cfg.rules, key, new)
                    /\ Moded(groups, command, key, old, new)
                    /\ command \in ModeCommands /\ observed
  BY <1>c, <1>6
<1>7. CASE \E new :
             /\ Turns(c.rules, result.cfg.rules, key, new)
             /\ Moves(c, result, Untargeted(old) /\ Limits(groups, key), old, new,
                      Effective(old) \cup {command[2]})
             /\ new.mode \in {old.mode, "observe"}
             /\ command \notin UntrackCommands \cup ModeCommands /\ observed
  BY <1>7
<1> QED BY <1>0, <1>1, <1>2, <1>3, <1>4, <1>5, <1>6, <1>7

(* What one click may do is what it does.                                  *)
LEMMA ClickIsContained ==
  ASSUME cfg \in Settled, OneRule(cfg.rules)
  PROVE  ClicksAreContained
<1> SUFFICES ASSUME NEW groups \in GroupStates, NEW command \in RuleCommands,
                    NEW key \in ClearKeys
             PROVE  IsContained(groups, command, key)
  BY DEF ClicksAreContained, GroupsOf
<1> DEFINE rules == After(groups, command, key).rules
           old == RuleOfKey(cfg.rules, key)
           observed == \E id \in DOMAIN groups : Key(id) = key
<1>1. PICK new : /\ Turns(cfg.rules, RuleCommand(cfg, groups, command, key).cfg.rules, key, new)
                 /\ command \in UntrackCommands => new.mode \in {old.mode, "none"}
                 /\ command \in TrackCommands /\ observed =>
                      new.mode \in {old.mode, "observe"}
                 /\ command \notin UntrackCommands /\ ~observed => new = old
                 /\ command \in ModeCommands => Moded(groups, command, key, old, new)
  BY ClickTurns
<1>2. /\ RuleOfKey(rules, key) = new
      /\ Subsequence(rules, DOMAIN rules \ KeyAt(rules, key))
           = Subsequence(cfg.rules, DOMAIN cfg.rules \ KeyAt(cfg.rules, key))
  BY <1>1 DEF Turns, Others, After
<1>a. NoRule.mode = "none" BY DEF NoRule
<1>b. command \in UntrackCommands \cup TrackCommands \cup ModeCommands BY DEF RuleCommands
<1>c. command = <<"mode", "pause">> => command \in ModeCommands BY DEF ModeCommands
<1>d. \A control : Allows(control, "observe") BY DEF Allows
<1> HIDE DEF rules, old, observed
<1>3. ASSUME NEW id \in DOMAIN groups, Key(id) = key, new.mode \notin {old.mode, "none"}
      PROVE  Allows(groups[id], new.mode)
  <2>1. observed BY <1>3 DEF observed
  <2>2. command \notin UntrackCommands BY <1>1, <1>3
  <2>3. CASE command \in TrackCommands BY <1>1, <1>3, <1>d, <2>1, <2>3
  <2>4. CASE command \in ModeCommands
    <3>1. Moded(groups, command, key, old, new) BY <1>1, <2>4
    <3> QED BY <1>3, <1>a, <3>1 DEF Moded
  <2> QED BY <1>b, <2>2, <2>3, <2>4
<1>4. ASSUME command \in ModeCommands, NoRule \notin {old, new}, new # old
      PROVE  Effective(new) = IF Effective(old) = {} THEN DefaultTrackIn(new.mode)
                              ELSE Effective(old)
  BY <1>1, <1>4 DEF Moded
<1>5. ASSUME command = <<"mode", "pause">>, old.mode = "pause", new # old
      PROVE  new.mode # "pause" /\ ("menu_bar" \in Effective(old) => new # NoRule)
  <2>1. Moded(groups, command, key, old, new) BY <1>1, <1>5, <1>c
  <2>2. CASE new = NoRule /\ "menu_bar" \notin Effective(old) BY <1>a, <2>2
  <2>3. CASE new # NoRule /\ new.mode # "pause" BY <2>3
  <2> QED BY <1>5, <2>1, <2>2, <2>3 DEF Moded
<1> QED BY <1>2, <1>3, <1>4, <1>5 DEF IsContained, rules, old

(* A row shows what the rule of its key says.                              *)
Shows(row, rule) ==
  /\ row.menuBar = ("menu_bar" \in Effective(rule))
  /\ row.managed = ("managed" \in Effective(rule))

LEMMA RowsShow ==
  ASSUME NEW rules \in Seq(StoredRule), OneRule(rules),
         NEW groups \in GroupStates, NEW row \in AllRows(rules, groups),
         row.key \in ClearKeys
  PROVE  Shows(row, RuleOfKey(rules, row.key))
<1>1. \A key, places : /\ Row(key, places).key = key
                       /\ Row(key, places).menuBar = ("menu_bar" \in places)
                       /\ Row(key, places).managed = ("managed" \in places)
  BY Zenon DEF Row
<1>2. ASSUME NEW i \in DOMAIN rules, row = Row(Key(rules[i].id), Effective(rules[i]))
      PROVE  Shows(row, RuleOfKey(rules, row.key))
  <2>1. row.key = Key(rules[i].id) BY <1>1, <1>2
  <2>2. i \in KeyAt(rules, row.key) BY <2>1 DEF KeyAt
  <2>3. RuleOfKey(rules, row.key) = rules[i] BY <2>2, OneOfKey
  <2> QED BY <1>1, <1>2, <2>3 DEF Shows
<1>3. CASE row \in ProcessRows(rules, groups)
  <2>1. PICK id \in DOMAIN groups :
          row = Row(Key(id), LET rule == RuleFor(rules, id)
                             IN IF rule = NoRule THEN {} ELSE Effective(rule))
    BY <1>3 DEF ProcessRows
  <2>2. id \in Ids BY DEF GroupStates
  <2>a. row.key = Key(id) BY <1>1, <2>1
  <2>3. RuleFor(rules, id) = RuleOfKey(rules, Key(id)) BY <2>2, <2>a, FoundByKey
  <2>4. row = Row(Key(id), Effective(RuleOfKey(rules, Key(id))))
    BY <2>1, <2>3, EffectiveOfNoRule
  <2>5. row.key = Key(id) BY <1>1, <2>4
  <2> QED BY <1>1, <2>4, <2>5 DEF Shows
<1>4. CASE row \in RuleRows(rules, groups, {i \in DOMAIN rules : "menu_bar" \in Effective(rules[i])})
  BY <1>2, <1>4 DEF RuleRows
<1>5. CASE row \in TrackedRows(rules, groups)
  BY <1>2, <1>5 DEF TrackedRows, RuleRows
<1>6. CASE row \in ManagedRows(rules)
  BY <1>2, <1>6 DEF ManagedRows
<1> QED BY <1>3, <1>4, <1>5, <1>6 DEF AllRows, MenuBarRows

LEMMA CheckMarkWorks ==
  ASSUME cfg \in Settled, OneRule(cfg.rules)
  PROVE  CheckMarksWork
<1> SUFFICES
      ASSUME NEW groups \in GroupStates, NEW row \in AllRows(cfg.rules, groups),
             NEW place \in Places, row.key \in ClearKeys
      PROVE  LET observed == \E id \in DOMAIN groups : Key(id) = row.key
                 shown(r) == IF place = "menu_bar" THEN r.menuBar ELSE r.managed
                 command == <<IF shown(row) THEN "untrack" ELSE "track", place>>
                 rules == After(groups, command, row.key).rules
                 rule == RuleOfKey(cfg.rules, row.key)
                 stuck == /\ Untargeted(rule)
                          /\ \/ shown(row)
                             \/ \A id \in DOMAIN groups :
                                  Key(id) = row.key => Allows(groups[id], "limit")
             IN observed \/ shown(row) =>
                  IF stuck THEN rules = cfg.rules
                  ELSE \A later \in AllRows(rules, groups) :
                         later.key = row.key => shown(later) = ~shown(row)
  BY DEF CheckMarksWork
<1> DEFINE key == row.key
           observed == \E id \in DOMAIN groups : Key(id) = key
           shown(r) == IF place = "menu_bar" THEN r.menuBar ELSE r.managed
           command == <<IF shown(row) THEN "untrack" ELSE "track", place>>
           result == RuleCommand(cfg, groups, command, key)
           rules == result.cfg.rules
           old == RuleOfKey(cfg.rules, key)
           before == shown(row)
           stuck == Untargeted(old) /\ (before \/ Limits(groups, key))
<1>a. cfg.rules \in Seq(StoredRule) BY DEF Settled
<1>b. /\ before => command \in UntrackCommands
      /\ ~before => command \in TrackCommands
      /\ command[2] = place
  BY DEF UntrackCommands, TrackCommands
<1>c. command \in RuleCommands BY <1>b DEF RuleCommands
<1>d. ASSUME NEW r, NEW rule, Shows(r, rule) PROVE shown(r) = (place \in Effective(rule))
  <2>1. CASE place = "menu_bar" BY Zenon, <1>d, <2>1 DEF Shows
  <2>2. CASE place = "managed" BY Zenon, <1>d, <2>2 DEF Shows
  <2> QED BY <2>1, <2>2 DEF Places
<1> SUFFICES ASSUME observed \/ before
             PROVE  /\ stuck => rules = cfg.rules
                    /\ ~stuck => \A later \in AllRows(rules, groups) :
                                   later.key = key => shown(later) = ~before
  BY DEF After, Limits
<1>1. PICK new : /\ Turns(cfg.rules, rules, key, new)
                 /\ command \in UntrackCommands =>
                      Moves(cfg, result, Untargeted(old), old, new,
                            Effective(old) \ {command[2]})
                 /\ command \in TrackCommands /\ observed =>
                      Moves(cfg, result, Untargeted(old) /\ Limits(groups, key), old, new,
                            Effective(old) \cup {command[2]})
  BY <1>c, ClickTurns
<1>2. rules \in Seq(StoredRule) /\ OneRule(rules) /\ RuleOfKey(rules, key) = new
  BY <1>1 DEF Turns
<1>3. Shows(row, old) BY <1>a, RowsShow
<1>4. before = (place \in Effective(old)) BY <1>3, <1>d
<1>5. \A later \in AllRows(rules, groups) :
        later.key = key => shown(later) = (place \in Effective(new))
  <2> SUFFICES ASSUME NEW later \in AllRows(rules, groups), later.key = key
               PROVE  shown(later) = (place \in Effective(new))
    OBVIOUS
  <2>1. Shows(later, new)
    <3> HIDE DEF rules
    <3>1. Shows(later, RuleOfKey(rules, later.key)) BY <1>2, RowsShow
    <3> QED BY <1>2, <3>1
  <2> QED BY <2>1, <1>d
<1>6. Moves(cfg, result, stuck, old, new,
            IF before THEN Effective(old) \ {place} ELSE Effective(old) \cup {place})
  <2> HIDE DEF result, old, observed, command, before
  <2>1. CASE before BY <1>1, <1>b, <2>1 DEF Moves
  <2>2. CASE ~before BY <1>1, <1>b, <2>2 DEF Moves
  <2> QED BY <2>1, <2>2
<1>7. stuck => rules = cfg.rules
  <2> HIDE DEF result, old, stuck, before
  <2> QED BY <1>6 DEF Moves
<1> DEFINE was == place \in Effective(old)
           kept == place \in Effective(new)
<1>8. ASSUME ~stuck PROVE kept = ~before
  <2>0. before = was BY <1>4
  <2> HIDE DEF result, stuck, before
  <2>1. was \in BOOLEAN /\ kept \in BOOLEAN OBVIOUS
  <2>2. CASE before
    <3>1. Effective(new) = Effective(old) \ {place} BY <1>6, <1>8, <2>2 DEF Moves
    <3>2. ~kept BY <3>1
    <3> HIDE DEF kept, was
    <3> QED BY <2>0, <2>1, <2>2, <3>2
  <2>3. CASE ~before
    <3>1. Effective(new) = Effective(old) \cup {place} BY <1>6, <1>8, <2>3 DEF Moves
    <3>2. kept BY <3>1
    <3> HIDE DEF kept, was
    <3> QED BY <2>0, <2>1, <2>3, <3>2
  <2> QED BY <2>2, <2>3
<1> HIDE DEF rules, stuck, before
<1>9. ASSUME ~stuck, NEW later \in AllRows(rules, groups), later.key = key
      PROVE  shown(later) = ~before
  <2>1. shown(later) = kept BY <1>5, <1>9
  <2>2. kept = ~before BY <1>8, <1>9
  <2> HIDE DEF shown, kept
  <2> QED BY <2>1, <2>2
<1> QED BY <1>7, <1>9

(* A click on one application leaves the rules of the others and their     *)
(* order alone, sets no mode that safety forbids, moves the application to *)
(* no other place, and takes back a pause that is chosen again             *)
(* (handleRuleCommandLocked), whatever group is there.                     *)
THEOREM ClicksContained == Spec => []ClicksAreContained
<1>1. Init => SettledInv BY SettledInit
<1>2. SettledInv /\ [Next]_vars => SettledInv' BY SettledStep
<1>3. SettledInv => ClicksAreContained BY ClickIsContained DEF SettledInv
<1> QED BY <1>1, <1>2, <1>3, PTL DEF Spec

(* A check mark shows where the application is, and choosing it changes    *)
(* that, on whichever of the rows of the menus it stands                   *)
(* (untrackLocationLocked, menu_bar.go).                                   *)
THEOREM MarksWork == Spec => []CheckMarksWork
<1>1. Init => SettledInv BY SettledInit
<1>2. SettledInv /\ [Next]_vars => SettledInv' BY SettledStep
<1>3. SettledInv => CheckMarksWork BY CheckMarkWorks DEF SettledInv
<1> QED BY <1>1, <1>2, <1>3, PTL DEF Spec

=============================================================================
