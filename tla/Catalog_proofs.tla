--------------------------- MODULE Catalog_proofs ---------------------------
(***************************************************************************)
(* Proofs about Catalog, for any catalogues, codes, keys and limits: what  *)
(* a code names, what a compiled language holds and what a load reports,   *)
(* whatever callers pass; and that the selection exists, as long as nobody *)
(* passes the catalogue's own array back to it.                            *)
(***************************************************************************)
EXTENDS Catalog, TLAPS

(* No caller passes back the pointer ci18n_get_current() gave: without     *)
(* this the selection may name a language that is gone (RemovalDeselects). *)
Plain == TheCurrent \notin CodeArgs

(***************************************************************************)
(* The inductive invariant: of each catalogue, of the load under way and   *)
(* of the call that returned last.                                         *)
(***************************************************************************)
AnyCode == Codes \cup {Blank}

SlotLike == [code : AnyCode, compiled : BOOLEAN, map : Maps]

StatsLike == [lines_read : Nat, entries_loaded : Nat, lines_skipped : Nat,
              lines_malformed : Nat, first_malformed_line : Nat, truncated : Nat]

ContextLike == [languages : Seq(SlotLike), current : AnyCode, fallback : AnyCode,
                last_error : Errors, load_stats : StatsLike, initialized : BOOLEAN]

UniqueIn(languages) ==
    \A i, j \in DOMAIN languages : languages[i].code = languages[j].code => i = j

WholeIn(languages) ==
    \A i \in DOMAIN languages : languages[i].compiled => languages[i].map \in Images

Balanced(st) ==
    /\ st.lines_read = st.entries_loaded + st.lines_skipped + st.lines_malformed
    /\ st.first_malformed_line \in 0 .. st.lines_read
    /\ (st.first_malformed_line = 0) = (st.lines_malformed = 0)

Good(x) ==
    /\ x \in ContextLike
    /\ Len(x.languages) <= MaxLanguages
    /\ UniqueIn(x.languages)
    /\ WholeIn(x.languages)
    /\ Balanced(x.load_stats)

LoadInv ==
    loading # NoLoad =>
        /\ loading \in [cat : Catalogs, code : AnyCode]
        /\ Known(ctx[loading.cat], loading.code)
        /\ ~ LanguageOf(ctx[loading.cat], loading.code).compiled
        /\ last = NoCall

Inv ==
    /\ ctx \in [Catalogs -> ContextLike]
    /\ \A c \in Catalogs : Good(ctx[c])
    /\ LoadInv

(* What holds besides when nobody passes the array back. *)
Sound(x) ==
    /\ \A i \in DOMAIN x.languages : x.languages[i].code \in Codes
    /\ x.current = Blank \/ Known(x, x.current)
    /\ x.fallback = Blank \/ Known(x, x.fallback)

AllSound ==
    /\ \A c \in Catalogs : Sound(ctx[c])
    /\ loading # NoLoad => loading.code \in Codes

Kept == Inv' /\ (Plain /\ AllSound => AllSound')

(***************************************************************************)
(* Slots.                                                                  *)
(***************************************************************************)
LEMMA EmptyMapIsAMap == EmptyMap \in Maps
<1>1. EmptyMap \in [{} -> Values]
  BY DEF EmptyMap
<1> QED
  BY <1>1 DEF Maps

LEMMA PutIsAMap ==
    ASSUME NEW map \in Maps, NEW k \in Keys, NEW v \in Values
    PROVE  Put(map, k, v) \in Maps
<1>1. PICK S \in SUBSET Keys : map \in [S -> Values]
  BY DEF Maps
<1>2. Put(map, k, v) \in [S \cup {k} -> Values]
  BY <1>1 DEF Put
<1> QED
  BY <1>2 DEF Maps

LEMMA WithoutIsAMap ==
    ASSUME NEW map \in Maps, NEW k
    PROVE  Without(map, k) \in Maps
<1>1. PICK S \in SUBSET Keys : map \in [S -> Values]
  BY DEF Maps
<1>2. Without(map, k) \in [S \ {k} -> Values]
  BY <1>1 DEF Without
<1> QED
  BY <1>2 DEF Maps

(* Where codes are unique the first slot of a code is the only one. *)
LEMMA IndexIsFound ==
    ASSUME NEW x, Good(x), NEW code, Known(x, code)
    PROVE  /\ IndexOf(x, code) \in DOMAIN x.languages
           /\ x.languages[IndexOf(x, code)].code = code
<1>1. PICK i \in DOMAIN x.languages : x.languages[i].code = code
  BY DEF Known
<1>2. DOMAIN x.languages = 1 .. Len(x.languages) /\ Len(x.languages) \in Nat
  BY DEF Good, ContextLike
<1>3. \A j \in 1 .. (i - 1) : x.languages[j].code # code
  BY <1>1, <1>2 DEF Good, UniqueIn
<1> QED
  BY <1>1, <1>3 DEF IndexOf

LEMMA LanguagesAreSlots ==
    ASSUME NEW x, Good(x), NEW code, Known(x, code)
    PROVE  LanguageOf(x, code) \in SlotLike /\ LanguageOf(x, code).map \in Maps
<1>1. IndexOf(x, code) \in DOMAIN x.languages
  BY IndexIsFound
<1>2. x.languages \in Seq(SlotLike)
  BY DEF Good, ContextLike
<1>3. LanguageOf(x, code) \in SlotLike
  BY <1>1, <1>2 DEF LanguageOf
<1> QED
  BY <1>3 DEF SlotLike

LEMMA ErrorKeepsGood ==
    ASSUME NEW x, Good(x), NEW error \in Errors
    PROVE  /\ Good([x EXCEPT !.last_error = error])
           /\ Sound(x) => Sound([x EXCEPT !.last_error = error])
BY DEF Good, ContextLike, Sound, Known

LEMMA SelectingKeepsGood ==
    ASSUME NEW x, Good(x), NEW code \in AnyCode, Known(x, code)
    PROVE  /\ Good([x EXCEPT !.current = code]) /\ Good([x EXCEPT !.fallback = code])
           /\ Sound(x) => Sound([x EXCEPT !.current = code]) /\ Sound([x EXCEPT !.fallback = code])
BY DEF Good, ContextLike, Sound, Known

(* Creating a language takes a slot of its own. *)
LEMMA CreatingKeepsGood ==
    ASSUME NEW x, Good(x), NEW code \in AnyCode, ~ NoSlot(x, code)
    PROVE  /\ Good(WithLanguage(x, code))
           /\ Known(WithLanguage(x, code), code)
           /\ ~ ReadOnly(x, code) => ~ LanguageOf(WithLanguage(x, code), code).compiled
           /\ code \in Codes /\ Sound(x) => Sound(WithLanguage(x, code))
<1> DEFINE y == WithLanguage(x, code)
<1>1. CASE Known(x, code)
  BY <1>1 DEF WithLanguage, ReadOnly
<1>2. CASE ~ Known(x, code)
  <2>1. y = [x EXCEPT !.languages = Append(@, Language(code))]
    BY <1>2 DEF WithLanguage
  <2>2. Language(code) \in SlotLike /\ Language(code).code = code /\ ~ Language(code).compiled
    BY EmptyMapIsAMap DEF Language, SlotLike
  <2>3. x.languages \in Seq(SlotLike) /\ Len(x.languages) < MaxLanguages
    BY <1>2, CatalogAssumption DEF Good, ContextLike, NoSlot
  <2>4. /\ y.languages = Append(x.languages, Language(code))
        /\ y \in ContextLike
        /\ y.current = x.current /\ y.fallback = x.fallback /\ y.load_stats = x.load_stats
    BY <2>1, <2>2, <2>3 DEF Good, ContextLike
  <2>5. /\ Len(y.languages) = Len(x.languages) + 1
        /\ DOMAIN y.languages = 1 .. Len(x.languages) + 1
        /\ DOMAIN x.languages = 1 .. Len(x.languages)
        /\ y.languages[Len(x.languages) + 1] = Language(code)
        /\ \A i \in DOMAIN x.languages : y.languages[i] = x.languages[i]
    BY <2>2, <2>3, <2>4
  <2>6. Known(y, code)
    BY <2>2, <2>3, <2>5 DEF Known
  <2>7. Len(y.languages) <= MaxLanguages
    BY <2>3, <2>5, CatalogAssumption
  <2>8. UniqueIn(y.languages)
    BY <1>2, <2>2, <2>3, <2>5 DEF Good, UniqueIn, Known
  <2>9. WholeIn(y.languages)
    BY <2>2, <2>3, <2>5 DEF Good, WholeIn
  <2>10. Good(y)
    BY <2>4, <2>7, <2>8, <2>9 DEF Good
  <2>11. ~ LanguageOf(y, code).compiled
    <3>1. /\ IndexOf(y, code) \in DOMAIN y.languages
          /\ y.languages[IndexOf(y, code)].code = code
      BY <2>6, <2>10, IndexIsFound
    <3>2. IndexOf(y, code) = Len(x.languages) + 1
      BY <3>1, <2>2, <2>3, <2>5, <2>8 DEF UniqueIn
    <3> QED
      BY <3>2, <2>2, <2>5 DEF LanguageOf
  <2>12. code \in Codes /\ Sound(x) => Sound(y)
    <3>1. \A z : Known(x, z) => Known(y, z)
      BY <2>3, <2>5 DEF Known
    <3> QED
      BY <3>1, <2>2, <2>3, <2>4, <2>5 DEF Sound
  <2> QED
    BY <2>6, <2>10, <2>11, <2>12
<1> QED
  BY <1>1, <1>2

(* Replacing what a language holds leaves the codes alone. *)
LEMMA ReplacingKeepsGood ==
    ASSUME NEW x, Good(x), NEW i \in DOMAIN x.languages, NEW slot \in SlotLike,
           slot.code = x.languages[i].code, slot.compiled => slot.map \in Images
    PROVE  /\ Good([x EXCEPT !.languages[i] = slot])
           /\ Sound(x) => Sound([x EXCEPT !.languages[i] = slot])
           /\ \A code : Known([x EXCEPT !.languages[i] = slot], code) <=> Known(x, code)
<1> DEFINE y == [x EXCEPT !.languages[i] = slot]
<1>1. x.languages \in Seq(SlotLike) /\ Len(x.languages) \in Nat
  BY DEF Good, ContextLike
<1>2. /\ y.languages = [x.languages EXCEPT ![i] = slot]
      /\ y.current = x.current /\ y.fallback = x.fallback /\ y.load_stats = x.load_stats
  BY DEF Good, ContextLike
<1>3. y.languages \in Seq(SlotLike) /\ Len(y.languages) = Len(x.languages)
  BY <1>1, <1>2
<1>4. y \in ContextLike
  BY <1>2, <1>3 DEF Good, ContextLike
<1>5. /\ DOMAIN y.languages = DOMAIN x.languages
      /\ \A j \in DOMAIN x.languages : y.languages[j] = IF j = i THEN slot ELSE x.languages[j]
  BY <1>1, <1>2
<1>6. \A j \in DOMAIN x.languages : y.languages[j].code = x.languages[j].code
  BY <1>5
<1>7. Good(y)
  BY <1>2, <1>3, <1>4, <1>5, <1>6 DEF Good, UniqueIn, WholeIn
<1>8. \A code : Known(y, code) <=> Known(x, code)
  BY <1>5, <1>6 DEF Known
<1>9. Sound(x) => Sound(y)
  BY <1>2, <1>5, <1>6, <1>8 DEF Sound
<1> QED
  BY <1>7, <1>8, <1>9

LEMMA StoringKeepsGood ==
    ASSUME NEW x, Good(x), NEW code, Known(x, code), ~ LanguageOf(x, code).compiled, NEW map \in Maps
    PROVE  /\ Good(WithMap(x, code, map))
           /\ Sound(x) => Sound(WithMap(x, code, map))
           /\ Known(WithMap(x, code, map), code)
           /\ ~ LanguageOf(WithMap(x, code, map), code).compiled
<1> DEFINE i == IndexOf(x, code)
           slot == [x.languages[i] EXCEPT !.map = map]
           y == WithMap(x, code, map)
<1>1. i \in DOMAIN x.languages /\ x.languages[i].code = code
  BY IndexIsFound
<1>2. x.languages \in Seq(SlotLike) /\ x.languages[i] \in SlotLike
  BY <1>1 DEF Good, ContextLike
<1>3. slot \in SlotLike /\ slot.code = x.languages[i].code /\ ~ slot.compiled
  BY <1>1, <1>2 DEF SlotLike, LanguageOf
<1>4. y = [x EXCEPT !.languages[i] = slot]
  BY DEF WithMap
<1>5. Good(y) /\ (Sound(x) => Sound(y)) /\ Known(y, code)
  <2> HIDE DEF i, slot, y
  <2>1. slot.compiled => slot.map \in Images
    BY <1>3
  <2>2. /\ Good([x EXCEPT !.languages[i] = slot])
        /\ Sound(x) => Sound([x EXCEPT !.languages[i] = slot])
        /\ Known([x EXCEPT !.languages[i] = slot], code) <=> Known(x, code)
    BY <1>1, <1>3, <2>1, ReplacingKeepsGood
  <2> QED
    BY <1>4, <2>2
<1>6. y.languages = [x.languages EXCEPT ![i] = slot]
  BY <1>4 DEF Good, ContextLike
<1>7. IndexOf(y, code) \in DOMAIN y.languages /\ y.languages[IndexOf(y, code)].code = code
  BY <1>5, IndexIsFound
<1>8. DOMAIN y.languages = DOMAIN x.languages /\ y.languages[i] = slot
  BY <1>1, <1>2, <1>6
<1>9. IndexOf(y, code) = i
  BY <1>1, <1>3, <1>5, <1>7, <1>8 DEF Good, UniqueIn
<1> QED
  BY <1>3, <1>5, <1>8, <1>9 DEF LanguageOf

(* Deselecting touches neither slots nor statistics, and what it leaves    *)
(* selected was selected.                                                  *)
LEMMA DeselectingKeepsGood ==
    ASSUME NEW x, Good(x), NEW code
    PROVE  /\ Good(Deselect(x, code))
           /\ Deselect(x, code).languages = x.languages
           /\ Sound(x) => Sound(Deselect(x, code))
           /\ code # TheCurrent => \A selected \in {Deselect(x, code).current, Deselect(x, code).fallback} :
                                     selected = Blank \/ selected # code
<1> DEFINE y == IF x.current = Str(x, code) THEN [x EXCEPT !.current = Blank] ELSE x
           z == IF y.fallback = Str(y, code) THEN [y EXCEPT !.fallback = Blank] ELSE y
<1>1. /\ Good(y) /\ y.languages = x.languages /\ y.fallback = x.fallback
      /\ y.current = IF x.current = Str(x, code) THEN Blank ELSE x.current
  BY DEF Good, ContextLike, AnyCode
<1>2. /\ Good(z) /\ z.languages = x.languages /\ z.current = y.current
      /\ z.fallback = IF x.fallback = Str(y, code) THEN Blank ELSE x.fallback
  <2> HIDE DEF y
  <2> QED
    BY <1>1 DEF Good, ContextLike, AnyCode
<1>3. z = Deselect(x, code)
  BY DEF Deselect
<1>4. Sound(x) => Sound(z)
  <2> HIDE DEF y, z
  <2> QED
    BY <1>1, <1>2 DEF Sound, Known
<1>5. code # TheCurrent => Str(x, code) = code /\ Str(y, code) = code
  BY DEF Str
<1> HIDE DEF y, z
<1> QED
  BY <1>1, <1>2, <1>3, <1>4, <1>5

(* Moving the last language into the hole keeps every other one, once.     *)
LEMMA DroppingKeepsGood ==
    ASSUME NEW x, Good(x), NEW hole \in DOMAIN x.languages
    PROVE  LET y == [x EXCEPT !.languages = WithoutSlot(@, hole)]
           IN  /\ Good(y)
               /\ Sound(x) /\ (\A selected \in {x.current, x.fallback} :
                                 selected = Blank \/ selected # x.languages[hole].code) => Sound(y)
<1> DEFINE ls == x.languages
           n == Len(x.languages)
           rest == WithoutSlot(x.languages, hole)
           from(j) == IF j = hole THEN n ELSE j
           y == [x EXCEPT !.languages = WithoutSlot(@, hole)]
<1>1. ls \in Seq(SlotLike) /\ n \in Nat /\ DOMAIN ls = 1 .. n /\ n # 0
  BY DEF Good, ContextLike
<1>2. \A j \in 1 .. (n - 1) : from(j) \in DOMAIN ls /\ rest[j] = ls[from(j)]
  BY <1>1 DEF WithoutSlot
<1>3. rest \in [1 .. (n - 1) -> SlotLike]
  BY <1>1 DEF WithoutSlot
<1>4. rest \in Seq(SlotLike) /\ Len(rest) = n - 1 /\ DOMAIN rest = 1 .. (n - 1)
  BY <1>1, <1>3
<1>5. /\ y \in ContextLike /\ y.languages = rest
      /\ y.current = x.current /\ y.fallback = x.fallback /\ y.load_stats = x.load_stats
  BY <1>4 DEF Good, ContextLike
<1>6. \A i, j \in 1 .. (n - 1) : from(i) = from(j) => i = j
  BY <1>1
<1>7. UniqueIn(rest)
  BY <1>2, <1>4, <1>6 DEF Good, UniqueIn
<1>8. WholeIn(rest)
  BY <1>2, <1>4 DEF Good, WholeIn
<1>9. Len(rest) <= MaxLanguages
  BY <1>1, <1>4, CatalogAssumption DEF Good
<1>10. Good(y)
  BY <1>5, <1>7, <1>8, <1>9 DEF Good
<1>11. ASSUME NEW code, Known(x, code), code # ls[hole].code
       PROVE  Known(y, code)
  <2>1. PICK i \in DOMAIN ls : ls[i].code = code /\ i # hole
    BY <1>11 DEF Known
  <2>2. CASE i = n
    <3>1. hole \in 1 .. (n - 1) /\ rest[hole] = ls[n]
      BY <1>1, <1>2, <2>1, <2>2
    <3> QED
      BY <1>4, <1>5, <2>1, <2>2, <3>1 DEF Known
  <2>3. CASE i # n
    <3>1. i \in 1 .. (n - 1) /\ rest[i] = ls[i]
      BY <1>1, <1>2, <2>1, <2>3
    <3> QED
      BY <1>4, <1>5, <2>1, <3>1 DEF Known
  <2> QED
    BY <2>2, <2>3
<1>12. ASSUME Sound(x), \A selected \in {x.current, x.fallback} :
                           selected = Blank \/ selected # ls[hole].code
       PROVE  Sound(y)
  <2>1. \A j \in DOMAIN y.languages : y.languages[j].code \in Codes
    BY <1>2, <1>4, <1>5, <1>12 DEF Sound
  <2> QED
    BY <2>1, <1>5, <1>11, <1>12 DEF Sound
<1> QED
  BY <1>10, <1>12

(***************************************************************************)
(* Statistics.                                                             *)
(***************************************************************************)
LEMMA CountingKeepsBalance ==
    ASSUME NEW st \in StatsLike, Balanced(st)
    PROVE  /\ Tallied(st, "lines_skipped") \in StatsLike /\ Balanced(Tallied(st, "lines_skipped"))
           /\ Tallied(st, "entries_loaded") \in StatsLike /\ Balanced(Tallied(st, "entries_loaded"))
           /\ Dropped(st) \in StatsLike /\ Balanced(Dropped(st))
           /\ \A n \in Nat : Cut(st, n) \in StatsLike /\ Balanced(Cut(st, n))
<1>0. ASSUME NEW field \in {"entries_loaded", "lines_skipped", "lines_malformed"}
      PROVE  /\ Tallied(st, field) \in StatsLike
             /\ Tallied(st, field).lines_read = st.lines_read + 1
             /\ \A other \in {"entries_loaded", "lines_skipped", "lines_malformed"} :
                   Tallied(st, field)[other] = IF other = field THEN st[other] + 1 ELSE st[other]
             /\ Tallied(st, field).first_malformed_line = st.first_malformed_line
  <2> DEFINE read == [st EXCEPT !.lines_read = @ + 1]
  <2>1. /\ read \in StatsLike
        /\ read.lines_read = st.lines_read + 1
        /\ \A other \in {"entries_loaded", "lines_skipped", "lines_malformed"} : read[other] = st[other]
        /\ read.first_malformed_line = st.first_malformed_line
    BY DEF StatsLike
  <2>2. Tallied(st, field) = [read EXCEPT ![field] = @ + 1]
    BY DEF Tallied
  <2> HIDE DEF read
  <2>3. CASE field = "entries_loaded"
    BY <2>1, <2>2, <2>3 DEF StatsLike
  <2>4. CASE field = "lines_skipped"
    BY <2>1, <2>2, <2>4 DEF StatsLike
  <2>5. CASE field = "lines_malformed"
    BY <2>1, <2>2, <2>5 DEF StatsLike
  <2> QED
    BY <2>3, <2>4, <2>5
<1>1. Tallied(st, "lines_skipped") \in StatsLike /\ Balanced(Tallied(st, "lines_skipped"))
  BY <1>0 DEF StatsLike, Balanced
<1>2. Tallied(st, "entries_loaded") \in StatsLike /\ Balanced(Tallied(st, "entries_loaded"))
  BY <1>0 DEF StatsLike, Balanced
<1>3. Dropped(st) \in StatsLike /\ Balanced(Dropped(st))
  <2> DEFINE tally == Tallied(st, "lines_malformed")
             first == IF st.first_malformed_line = 0 THEN st.lines_read + 1 ELSE st.first_malformed_line
  <2>1. /\ tally \in StatsLike
        /\ tally.lines_read = st.lines_read + 1
        /\ tally.entries_loaded = st.entries_loaded /\ tally.lines_skipped = st.lines_skipped
        /\ tally.lines_malformed = st.lines_malformed + 1
        /\ tally.first_malformed_line = st.first_malformed_line
    BY <1>0
  <2>2. Dropped(st) = [tally EXCEPT !.first_malformed_line = first]
    BY <2>1 DEF Dropped
  <2>3. first \in 1 .. st.lines_read + 1
    BY DEF StatsLike, Balanced
  <2> HIDE DEF tally, first
  <2>4. /\ Dropped(st) \in StatsLike
        /\ Dropped(st).lines_read = tally.lines_read
        /\ Dropped(st).entries_loaded = tally.entries_loaded
        /\ Dropped(st).lines_skipped = tally.lines_skipped
        /\ Dropped(st).lines_malformed = tally.lines_malformed
        /\ Dropped(st).first_malformed_line = first
    BY <2>1, <2>2, <2>3 DEF StatsLike
  <2> QED
    BY <2>1, <2>3, <2>4 DEF StatsLike, Balanced
<1>4. \A n \in Nat : Cut(st, n) \in StatsLike /\ Balanced(Cut(st, n))
  BY DEF Cut, StatsLike, Balanced
<1> QED
  BY <1>1, <1>2, <1>3, <1>4

LEMMA NoStatsBalanced == NoStats \in StatsLike /\ Balanced(NoStats)
BY DEF NoStats, StatsLike, Balanced

LEMMA ReckoningKeepsGood ==
    ASSUME NEW x, Good(x), NEW st \in StatsLike, Balanced(st)
    PROVE  /\ Good([x EXCEPT !.load_stats = st])
           /\ Sound(x) => Sound([x EXCEPT !.load_stats = st])
           /\ [x EXCEPT !.load_stats = st].languages = x.languages
BY DEF Good, ContextLike, Sound, Known

LEMMA ResetIsGood ==
    Good(Reset) /\ Sound(Reset) /\ Good(Fresh) /\ Sound(Fresh)
<1>1. << >> \in Seq(SlotLike) /\ Len(<< >>) = 0 /\ DOMAIN << >> = {}
  OBVIOUS
<1>2. Good(Reset) /\ Sound(Reset)
  BY <1>1, NoStatsBalanced, CatalogAssumption
  DEF Reset, Good, Sound, ContextLike, AnyCode, Errors, UniqueIn, WholeIn
<1>3. Good(Fresh) /\ Sound(Fresh)
  <2>1. /\ Reset \in ContextLike /\ Fresh = [Reset EXCEPT !.initialized = TRUE]
        /\ Reset.languages = << >> /\ Reset.current = Blank /\ Reset.fallback = Blank
        /\ Reset.load_stats = NoStats
    BY <1>2 DEF Fresh, Reset, Good
  <2>2. /\ Fresh \in ContextLike
        /\ Fresh.languages = << >> /\ Fresh.current = Blank /\ Fresh.fallback = Blank
        /\ Fresh.load_stats = NoStats
    BY <2>1 DEF ContextLike
  <2> QED
    BY <1>1, <2>2, NoStatsBalanced, CatalogAssumption DEF Good, Sound, UniqueIn, WholeIn
<1> QED
  BY <1>2, <1>3

(***************************************************************************)
(* How calls return.                                                       *)
(***************************************************************************)
LEMMA ContextsAreContexts ==
    ASSUME Inv, NEW c \in Catalogs
    PROVE  /\ Good(ctx[c]) /\ ctx[c] \in ContextLike
           /\ AllSound => Sound(ctx[c])
BY DEF Inv, AllSound

(* A call that leaves its catalogue good keeps all. *)
LEMMA OneChanges ==
    ASSUME Inv, NEW c \in Catalogs, NEW x, Good(x), AllSound /\ Plain => Sound(x),
           ctx' = [ctx EXCEPT ![c] = x], loading = NoLoad, loading' = NoLoad
    PROVE  Kept
<1>1. x \in ContextLike /\ ctx' \in [Catalogs -> ContextLike]
  BY DEF Inv, Good
<1>2. \A d \in Catalogs : ctx'[d] = IF d = c THEN x ELSE ctx[d]
  BY DEF Inv
<1>3. Inv'
  BY <1>1, <1>2 DEF Inv, LoadInv
<1>4. Plain /\ AllSound => AllSound'
  BY <1>2 DEF AllSound
<1> QED
  BY <1>3, <1>4 DEF Kept

LEMMA ReturnKeeps ==
    ASSUME Inv, NEW c \in Catalogs, NEW op, NEW args, NEW x, NEW error \in Errors, NEW ok, NEW value,
           Return(c, op, args, x, error, ok, value),
           Good(x), AllSound /\ Plain => Sound(x)
    PROVE  Kept
<1> DEFINE y == [x EXCEPT !.last_error = error]
<1>1. ctx' = [ctx EXCEPT ![c] = y] /\ loading = NoLoad /\ loading' = NoLoad
  BY DEF Return, Callable
<1>2. Good(y) /\ (AllSound /\ Plain => Sound(y))
  BY ErrorKeepsGood
<1> HIDE DEF y
<1> QED
  BY <1>1, <1>2, OneChanges

LEMMA ErrorsExist ==
    /\ {"OK", "NOT_INITIALIZED", "INVALID_ARGUMENT", "CODE_TOO_LONG", "FILE_NOT_FOUND",
        "OUT_OF_MEMORY", "TOO_MANY_LANGUAGES", "TOO_MANY_KEYS", "LANGUAGE_NOT_FOUND",
        "KEY_NOT_FOUND", "PARSE", "READ_ONLY"} \subseteq Errors
    /\ \A map, k : StoreErrors(map, k) \subseteq Errors
BY DEF Errors, StoreErrors

LEMMA AnswerKeeps ==
    ASSUME Inv, NEW c \in Catalogs, NEW op, NEW args, NEW x, NEW value,
           Return(c, op, args, x, "OK", TRUE, value),
           Good(x), AllSound /\ Plain => Sound(x)
    PROVE  Kept
BY ErrorsExist, ReturnKeeps

LEMMA FailKeeps ==
    ASSUME Inv, NEW c \in Catalogs, NEW op, NEW args, NEW error \in Errors, Fail(c, op, args, error)
    PROVE  Kept
BY ReturnKeeps, ContextsAreContexts DEF Fail

LEMMA RefuseKeeps ==
    ASSUME Inv, NEW c \in Catalogs, NEW op, NEW args, NEW needed,
           \/ Refuse(c, op, args, needed)
           \/ RefuseToCreate(c, op, args, needed)
           \/ RefuseUnknown(c, op, args, needed)
    PROVE  Kept
BY FailKeeps, ErrorsExist DEF Refuse, RefuseToCreate, RefuseUnknown

LEMMA SucceedKeeps ==
    ASSUME Inv, NEW c \in Catalogs, NEW op, NEW args, NEW x, Succeed(c, op, args, x),
           Good(x), AllSound /\ Plain => Sound(x)
    PROVE  Kept
BY ReturnKeeps, ErrorsExist DEF Succeed

(* The code an argument denotes, once the call has not refused it. *)
LEMMA CodesDenoted ==
    ASSUME Inv, NEW c \in Catalogs, NEW code \in CodeArgs, NEW k, NEW needed,
           code \in needed, Creatable(c, Args(Str(ctx[c], code), k), needed)
    PROVE  /\ Str(ctx[c], code) \in AnyCode
           /\ Plain => Str(ctx[c], code) = code /\ code \in Codes
<1>1. ctx[c].current \in AnyCode
  BY ContextsAreContexts DEF ContextLike
<1>2. Str(ctx[c], code) # TooLong /\ code # NoText
  BY DEF Creatable, Ready, Args
<1> QED
  BY <1>1, <1>2, CatalogAssumption DEF Str, Plain, AnyCode

(***************************************************************************)
(* The calls.                                                              *)
(***************************************************************************)
LEMMA SetKeeps ==
    ASSUME Inv, NEW c \in Catalogs, NEW code \in CodeArgs, NEW k \in KeyArgs \cup Nulls,
           NEW v \in Values \cup Nulls, Set(c, code, k, v)
    PROVE  Kept
<1> DEFINE str == Str(ctx[c], code)
           args == Args(str, k)
           needed == {code, k, v}
           x == WithLanguage(ctx[c], str)
           map == LanguageOf(x, str).map
<1>0. args.code = str
  BY DEF Args
<1>1. CASE RefuseToCreate(c, "set", args, needed)
  BY <1>1, RefuseKeeps
<1>2. CASE \E error \in {"TOO_MANY_LANGUAGES", "READ_ONLY"} : Fail(c, "set", args, error)
  BY <1>2, FailKeeps, ErrorsExist
<1>3. ASSUME Creatable(c, args, needed), ~ NoSlot(ctx[c], str), ~ ReadOnly(ctx[c], str)
      PROVE  /\ k \in KeyArgs /\ v \in Values
             /\ Good(x) /\ (AllSound /\ Plain => Sound(x))
             /\ Known(x, str) /\ ~ LanguageOf(x, str).compiled
             /\ map \in Maps
  <2>1. k \in KeyArgs /\ v \in Values
    BY <1>3, CatalogAssumption DEF Creatable, Ready
  <2>2. str \in AnyCode /\ (Plain => str = code /\ code \in Codes)
    BY <1>3, CodesDenoted
  <2>3. /\ Good(x) /\ Known(x, str) /\ ~ LanguageOf(x, str).compiled
        /\ AllSound /\ Plain => Sound(x)
    BY <1>3, <2>2, ContextsAreContexts, CreatingKeepsGood
  <2>4. map \in Maps
    BY <2>3, LanguagesAreSlots
  <2> QED
    BY <2>1, <2>3, <2>4
<1>4. CASE /\ Creatable(c, args, needed) /\ ~ NoSlot(ctx[c], str) /\ ~ ReadOnly(ctx[c], str)
           /\ Return(c, "set", args, WithMap(x, str, Put(map, Clamped[k], v)), "OK", TRUE, v)
  <2>1. Clamped[k] \in Keys
    BY <1>3, <1>4 DEF Keys
  <2>2. Put(map, Clamped[k], v) \in Maps
    BY <1>3, <1>4, <2>1, PutIsAMap
  <2> DEFINE stored == WithMap(x, str, Put(map, Clamped[k], v))
  <2>3. Good(stored) /\ (AllSound /\ Plain => Sound(stored))
    BY <1>3, <1>4, <2>2, StoringKeepsGood
  <2>4. Return(c, "set", args, stored, "OK", TRUE, v)
    BY <1>4
  <2> HIDE DEF stored, args
  <2> QED
    BY <2>3, <2>4, AnswerKeeps
<1>5. CASE /\ Creatable(c, args, needed) /\ ~ NoSlot(ctx[c], str) /\ ~ ReadOnly(ctx[c], str)
           /\ \E error \in StoreErrors(map, Clamped[k]) :
                 Return(c, "set", args, x, error, FALSE, NoText)
  BY <1>3, <1>5, ReturnKeeps, ErrorsExist
<1> QED
  BY <1>0, <1>1, <1>2, <1>4, <1>5 DEF Set

LEMMA RemoveKeeps ==
    ASSUME Inv, NEW c \in Catalogs, NEW code \in CodeArgs, NEW k, Remove(c, code, k)
    PROVE  Kept
<1> DEFINE str == Str(ctx[c], code)
           args == Args(str, k)
           map == LanguageOf(ctx[c], str).map
           x == WithMap(ctx[c], str, Without(map, k))
<1>0. args.code = str
  BY DEF Args
<1>1. CASE RefuseUnknown(c, "remove", args, {code, k})
  BY <1>1, RefuseKeeps
<1>2. CASE \E error \in {"READ_ONLY", "KEY_NOT_FOUND"} : Fail(c, "remove", args, error)
  BY <1>2, FailKeeps, ErrorsExist
<1>3. CASE Known(ctx[c], str) /\ ~ ReadOnly(ctx[c], str) /\ Succeed(c, "remove", args, x)
  <2>1. ~ LanguageOf(ctx[c], str).compiled
    BY <1>3 DEF ReadOnly
  <2>2. map \in Maps
    BY <1>3, ContextsAreContexts, LanguagesAreSlots
  <2>3. Without(map, k) \in Maps
    BY <2>2, WithoutIsAMap
  <2>4. Good(x) /\ (AllSound => Sound(x))
    BY <1>3, <2>1, <2>3, ContextsAreContexts, StoringKeepsGood
  <2> QED
    BY <1>3, <2>4, SucceedKeeps
<1> QED
  BY <1>0, <1>1, <1>2, <1>3 DEF Remove, Present

LEMMA ClearKeeps ==
    ASSUME Inv, NEW c \in Catalogs, NEW code \in CodeArgs, Clear(c, code)
    PROVE  Kept
<1> DEFINE str == Str(ctx[c], code)
           args == Args(str, NoText)
           y == Deselect(ctx[c], code)
           x == WithMap(y, str, EmptyMap)
<1>0. args.code = str
  BY DEF Args
<1>1. CASE RefuseUnknown(c, "clear", args, {code})
  BY <1>1, RefuseKeeps
<1>2. CASE Fail(c, "clear", args, "READ_ONLY")
  BY <1>2, FailKeeps, ErrorsExist
<1>3. CASE Known(ctx[c], str) /\ ~ ReadOnly(ctx[c], str) /\ Succeed(c, "clear", args, x)
  <2>1. /\ Good(y) /\ y.languages = ctx[c].languages
        /\ AllSound => Sound(y)
    BY ContextsAreContexts, DeselectingKeepsGood
  <2>2. Known(y, str) /\ ~ LanguageOf(y, str).compiled
    BY <1>3, <2>1 DEF ReadOnly, Known, LanguageOf, IndexOf
  <2>3. Good(x) /\ (AllSound => Sound(x))
    BY <2>1, <2>2, EmptyMapIsAMap, StoringKeepsGood
  <2> QED
    BY <1>3, <2>3, SucceedKeeps
<1> QED
  BY <1>0, <1>1, <1>2, <1>3 DEF Clear, Present

LEMMA RemoveLanguageKeeps ==
    ASSUME Inv, NEW c \in Catalogs, NEW code \in CodeArgs, RemoveLanguage(c, code)
    PROVE  Kept
<1> DEFINE str == Str(ctx[c], code)
           args == Args(str, NoText)
           hole == IndexOf(ctx[c], str)
           y == Deselect(ctx[c], code)
           x == [y EXCEPT !.languages = WithoutSlot(@, hole)]
<1>0. args.code = str
  BY DEF Args
<1>1. CASE RefuseUnknown(c, "remove_language", args, {code})
  BY <1>1, RefuseKeeps
<1>2. CASE Known(ctx[c], str) /\ Succeed(c, "remove_language", args, x)
  <2>1. /\ Good(y) /\ y.languages = ctx[c].languages
        /\ AllSound => Sound(y)
        /\ code # TheCurrent => \A selected \in {y.current, y.fallback} :
                                  selected = Blank \/ selected # code
    BY ContextsAreContexts, DeselectingKeepsGood
  <2>2. hole \in DOMAIN y.languages /\ y.languages[hole].code = str
    BY <1>2, <2>1, ContextsAreContexts, IndexIsFound
  <2>3. Plain => str = code /\ code # TheCurrent
    BY DEF Plain, Str
  <2>4. Good(x) /\ (AllSound /\ Plain => Sound(x))
    <3> HIDE DEF y, hole
    <3>1. /\ Good(x)
          /\ Sound(y) /\ (\A selected \in {y.current, y.fallback} :
                            selected = Blank \/ selected # y.languages[hole].code) => Sound(x)
      BY <2>1, <2>2, DroppingKeepsGood
    <3> QED
      BY <2>1, <2>2, <2>3, <3>1
  <2> QED
    BY <1>2, <2>4, SucceedKeeps
<1> QED
  BY <1>0, <1>1, <1>2 DEF RemoveLanguage, Present

LEMMA UseCompiledKeeps ==
    ASSUME Inv, NEW c \in Catalogs, NEW code \in CodeArgs, NEW image \in Images \cup Nulls,
           NEW format_ok, UseCompiled(c, code, image, format_ok)
    PROVE  Kept
<1> DEFINE str == Str(ctx[c], code)
           args == Args(str, NoText)
           y == WithLanguage(ctx[c], str)
           slot == [code |-> str, compiled |-> TRUE, map |-> image]
           x == [y EXCEPT !.languages[IndexOf(y, str)] = slot]
<1>0. args.code = str
  BY DEF Args
<1>1. CASE RefuseToCreate(c, "use_compiled", args, {code, image})
  BY <1>1, RefuseKeeps
<1>2. CASE \E error \in {"PARSE", "TOO_MANY_LANGUAGES"} : Fail(c, "use_compiled", args, error)
  BY <1>2, FailKeeps, ErrorsExist
<1>3. CASE /\ Creatable(c, args, {code, image}) /\ ~ NoSlot(ctx[c], str)
           /\ Succeed(c, "use_compiled", args, x)
  <2>1. str \in AnyCode /\ (Plain => str = code /\ code \in Codes)
    BY <1>3, CodesDenoted
  <2>2. Good(y) /\ Known(y, str) /\ (AllSound /\ Plain => Sound(y))
    BY <1>3, <2>1, ContextsAreContexts, CreatingKeepsGood
  <2>3. IndexOf(y, str) \in DOMAIN y.languages /\ y.languages[IndexOf(y, str)].code = str
    BY <2>2, IndexIsFound
  <2>4. slot \in SlotLike /\ image \in Images
    BY <1>3, <2>1, CatalogAssumption DEF SlotLike, Creatable, Ready
  <2>5. Good(x) /\ (AllSound /\ Plain => Sound(x))
    <3> HIDE DEF y
    <3> QED
      BY <2>2, <2>3, <2>4, ReplacingKeepsGood
  <2> QED
    BY <1>3, <2>5, SucceedKeeps
<1> QED
  BY <1>0, <1>1, <1>2, <1>3 DEF UseCompiled

LEMMA SelectKeeps ==
    ASSUME Inv, NEW c \in Catalogs, NEW code \in CodeArgs,
           SetCurrent(c, code) \/ SetFallback(c, code)
    PROVE  Kept
<1> DEFINE str == Str(ctx[c], code)
           args == Args(str, NoText)
<1>0. args.code = str
  BY DEF Args
<1>1. CASE \E op : RefuseUnknown(c, op, args, {code})
  BY <1>1, RefuseKeeps
<1>2. ASSUME Known(ctx[c], str)
      PROVE  /\ Good([ctx[c] EXCEPT !.current = str]) /\ Good([ctx[c] EXCEPT !.fallback = str])
             /\ AllSound => /\ Sound([ctx[c] EXCEPT !.current = str])
                            /\ Sound([ctx[c] EXCEPT !.fallback = str])
  <2>1. str \in AnyCode
    <3>1. LanguageOf(ctx[c], str) \in SlotLike
      BY <1>2, ContextsAreContexts, LanguagesAreSlots
    <3>2. LanguageOf(ctx[c], str).code = str
      BY <1>2, ContextsAreContexts, IndexIsFound DEF LanguageOf
    <3> QED
      BY <3>1, <3>2 DEF SlotLike
  <2> QED
    BY <1>2, <2>1, ContextsAreContexts, SelectingKeepsGood
<1>3. CASE Known(ctx[c], str) /\ Succeed(c, "set_current", args, [ctx[c] EXCEPT !.current = str])
  BY <1>2, <1>3, SucceedKeeps
<1>4. CASE Known(ctx[c], str) /\ Succeed(c, "set_fallback", args, [ctx[c] EXCEPT !.fallback = str])
  BY <1>2, <1>4, SucceedKeeps
<1> QED
  BY <1>0, <1>1, <1>3, <1>4 DEF SetCurrent, SetFallback, Present

LEMMA SelectBestKeeps ==
    ASSUME Inv, NEW c \in Catalogs, NEW code, SetCurrentBest(c, code)
    PROVE  Kept
<1> DEFINE locale == Str(ctx[c], code)
           args == Args(locale, NoText)
<1>1. CASE Refuse(c, "set_current_best", args, {})
  BY <1>1, RefuseKeeps
<1>2. CASE \E error \in {"CODE_TOO_LONG", "LANGUAGE_NOT_FOUND"} : Fail(c, "set_current_best", args, error)
  BY <1>2, FailKeeps, ErrorsExist
<1>3. ASSUME NEW best \in Codes, Serves(ctx[c], locale, best),
             Succeed(c, "set_current_best", args, [ctx[c] EXCEPT !.current = best])
      PROVE  Kept
  <2> DEFINE x == [ctx[c] EXCEPT !.current = best]
  <2>1. Known(ctx[c], best) /\ best \in AnyCode
    BY <1>3 DEF Serves, AnyCode
  <2>2. Good(x) /\ (AllSound => Sound(x))
    BY <2>1, ContextsAreContexts, SelectingKeepsGood
  <2> HIDE DEF args
  <2> QED
    BY <1>3, <2>2, SucceedKeeps
<1> QED
  BY <1>1, <1>2, <1>3 DEF SetCurrentBest

(* Detecting the locale writes two catalogues, or one of them twice. *)
LEMMA DetectKeeps ==
    ASSUME Inv, NEW c \in Catalogs, NEW locale, SetCurrentDetected(c, locale)
    PROVE  Kept
<1> DEFINE reported == [ctx EXCEPT ![Default].last_error = "OK"]
<1>1. PICK error \in Errors, current \in AnyCode, ok \in BOOLEAN :
        /\ current = ctx[c].current \/ Known(ctx[c], current)
        /\ ctx' = [reported EXCEPT ![c].last_error = error, ![c].current = current]
        /\ Leave(c, "set_current_best", Args(locale, NoText), ok, NoText)
        /\ loading = NoLoad /\ loading' = NoLoad
  BY ContextsAreContexts, ErrorsExist DEF SetCurrentDetected, Serves, Callable, AnyCode, ContextLike
<1>2. Default \in Catalogs
  BY CatalogAssumption
<1> DEFINE y == [ctx[Default] EXCEPT !.last_error = "OK"]
<1>3. /\ Good(y) /\ y.languages = ctx[Default].languages /\ y.current = ctx[Default].current
      /\ AllSound => Sound(y)
  <2>1. Good(y) /\ (AllSound => Sound(y))
    BY <1>2, ContextsAreContexts, ErrorKeepsGood, ErrorsExist
  <2>2. y.languages = ctx[Default].languages /\ y.current = ctx[Default].current
    BY <1>2, ContextsAreContexts DEF ContextLike
  <2> QED
    BY <2>1, <2>2
<1>4. /\ reported \in [Catalogs -> ContextLike]
      /\ \A d \in Catalogs : reported[d] = IF d = Default THEN y ELSE ctx[d]
  <2>1. reported = [ctx EXCEPT ![Default] = y]
    OBVIOUS
  <2> HIDE DEF y
  <2> QED
    BY <1>2, <1>3, <2>1 DEF Inv, Good
<1> HIDE DEF reported, y
<1>5. ASSUME NEW d \in Catalogs
      PROVE  /\ Good(reported[d]) /\ reported[d].languages = ctx[d].languages
             /\ reported[d].current = ctx[d].current
             /\ AllSound => Sound(reported[d])
  <2>1. CASE d = Default
    <3>1. reported[d] = y
      BY <1>4, <2>1
    <3> QED
      BY <1>3, <2>1, <3>1
  <2>2. CASE d # Default
    <3>1. reported[d] = ctx[d]
      BY <1>4, <2>2
    <3> QED
      BY <3>1, ContextsAreContexts
  <2> QED
    BY <2>1, <2>2
<1> DEFINE r == reported[c]
           blamed == [r EXCEPT !.last_error = error]
           x == [blamed EXCEPT !.current = current]
<1>6. Good(r) /\ r.languages = ctx[c].languages /\ r.current = ctx[c].current /\ (AllSound => Sound(r))
  BY <1>5
<1> HIDE DEF r
<1>7. /\ Good(blamed) /\ (AllSound => Sound(blamed))
      /\ blamed.languages = r.languages /\ blamed.current = r.current
  <2>1. Good(blamed) /\ (Sound(r) => Sound(blamed))
    BY <1>6, ErrorKeepsGood
  <2>2. blamed.languages = r.languages /\ blamed.current = r.current
    BY <1>6 DEF Good, ContextLike
  <2> QED
    BY <1>6, <2>1, <2>2
<1> HIDE DEF blamed
<1>8. Good(x) /\ (AllSound => Sound(x))
  <2>1. CASE Known(ctx[c], current)
    <3>1. Known(blamed, current)
      BY <2>1, <1>6, <1>7 DEF Known
    <3> QED
      BY <1>7, <3>1, SelectingKeepsGood
  <2>2. CASE current = ctx[c].current
    <3>1. blamed \in ContextLike /\ blamed.current = current
      BY <2>2, <1>6, <1>7 DEF Good
    <3>2. x = blamed
      BY <3>1 DEF ContextLike
    <3> QED
      BY <1>7, <3>2
  <2> QED
    BY <1>1, <2>1, <2>2
<1>9. ctx' = [reported EXCEPT ![c] = x]
  BY <1>1, <1>4 DEF r, blamed
<1> HIDE DEF x
<1>10. ctx' \in [Catalogs -> ContextLike] /\ \A d \in Catalogs : ctx'[d] = IF d = c THEN x ELSE reported[d]
  BY <1>4, <1>8, <1>9 DEF Good
<1>12. ASSUME NEW d \in Catalogs
       PROVE  Good(ctx'[d]) /\ (AllSound => Sound(ctx'[d]))
  <2>1. CASE d = c
    <3>1. ctx'[d] = x
      BY <1>10, <2>1
    <3> QED
      BY <1>8, <3>1
  <2>2. CASE d # c
    <3>1. ctx'[d] = reported[d]
      BY <1>10, <2>2
    <3> QED
      BY <1>5, <3>1
  <2> QED
    BY <2>1, <2>2
<1>13. Inv'
  BY <1>1, <1>10, <1>12 DEF Inv, LoadInv
<1>14. AllSound => AllSound'
  <2> SUFFICES ASSUME AllSound
               PROVE  AllSound'
    OBVIOUS
  <2>1. \A d \in Catalogs : Sound(ctx'[d])
    BY <1>12
  <2> QED
    BY <1>1, <2>1 DEF AllSound
<1> QED
  BY <1>13, <1>14 DEF Kept

LEMMA AskKeeps ==
    ASSUME Inv, NEW c \in Catalogs, NEW code, NEW k,
           Get(c, k) \/ Has(c, k) \/ Count(c, code) \/ GetLanguages(c) \/ \E fn : ForEach(c, code, fn)
    PROVE  Kept
<1>1. ASSUME NEW op, NEW args, NEW needed,
             Refuse(c, op, args, needed) \/ RefuseUnknown(c, op, args, needed)
      PROVE  Kept
  BY <1>1, RefuseKeeps
<1>2. ASSUME NEW op, NEW args, NEW error, error = "KEY_NOT_FOUND" \/ error = ctx[c].last_error,
             Fail(c, op, args, error)
      PROVE  Kept
  BY <1>2, FailKeeps, ErrorsExist, ContextsAreContexts DEF ContextLike
<1>3. ASSUME NEW op, NEW args, NEW value, Return(c, op, args, ctx[c], "OK", TRUE, value)
      PROVE  Kept
  BY <1>3, ReturnKeeps, ErrorsExist, ContextsAreContexts
<1>4. CASE Get(c, k)
  BY <1>1, <1>2, <1>3, <1>4 DEF Get
<1>5. CASE Has(c, k)
  BY <1>1, <1>2, <1>3, <1>5 DEF Has, Succeed
<1>6. CASE Count(c, code)
  BY <1>1, <1>3, <1>6 DEF Count
<1>7. CASE GetLanguages(c)
  BY <1>1, <1>3, <1>7 DEF GetLanguages
<1>8. CASE \E fn : ForEach(c, code, fn)
  BY <1>1, <1>3, <1>8 DEF ForEach
<1> QED
  BY <1>4, <1>5, <1>6, <1>7, <1>8

LEMMA WholeKeeps ==
    ASSUME Inv, NEW c \in Catalogs, Create(c) \/ Destroy(c) \/ InitDefault \/ FreeDefault
    PROVE  Kept
<1>1. ASSUME NEW d \in Catalogs, NEW op, NEW x, NEW ok, Good(x), AllSound => Sound(x), Whole(d, op, x, ok)
      PROVE  Kept
  BY <1>1, OneChanges DEF Whole
<1>2. Default \in Catalogs
  BY CatalogAssumption
<1>3. CASE Create(c)
  BY <1>1, <1>3, ResetIsGood, ContextsAreContexts DEF Create
<1>4. CASE Destroy(c)
  BY <1>1, <1>4, ResetIsGood DEF Destroy
<1>5. CASE InitDefault
  BY <1>1, <1>2, <1>5, ResetIsGood, ContextsAreContexts DEF InitDefault
<1>6. CASE FreeDefault
  BY <1>1, <1>2, <1>6, ResetIsGood, ContextsAreContexts DEF FreeDefault
<1> QED
  BY <1>3, <1>4, <1>5, <1>6

(***************************************************************************)
(* Loads: from its beginning to its end a load has a language of its own   *)
(* to store into, which is not a compiled one.                             *)
(***************************************************************************)
LEMMA BeginLoadKeeps ==
    ASSUME Inv, NEW c \in Catalogs, NEW code \in CodeArgs, NEW source, NEW openable, BeginLoad(c, code, source, openable)
    PROVE  Kept
<1> DEFINE str == Str(ctx[c], code)
           args == Args(str, NoText)
           x == WithLanguage(ctx[c], str)
           y == Started(x)
<1>0. args.code = str
  BY DEF Args
<1>1. CASE RefuseToCreate(c, "load", args, {code, source})
  BY <1>1, RefuseKeeps
<1>2. CASE \E error \in {"FILE_NOT_FOUND", "TOO_MANY_LANGUAGES", "READ_ONLY"} : Fail(c, "load", args, error)
  BY <1>2, FailKeeps, ErrorsExist
<1>3. ASSUME Creatable(c, args, {code, source}), ~ NoSlot(ctx[c], str), ~ ReadOnly(ctx[c], str)
      PROVE  /\ Good(x) /\ (AllSound /\ Plain => Sound(x))
             /\ Known(x, str) /\ ~ LanguageOf(x, str).compiled
             /\ str \in AnyCode /\ (Plain => str \in Codes)
  <2>1. str \in AnyCode /\ (Plain => str = code /\ code \in Codes)
    BY <1>3, CodesDenoted
  <2> QED
    BY <1>3, <2>1, ContextsAreContexts, CreatingKeepsGood
<1>4. CASE /\ Creatable(c, args, {code, source}) /\ ~ NoSlot(ctx[c], str) /\ ~ ReadOnly(ctx[c], str)
           /\ Return(c, "load", args, x, "OUT_OF_MEMORY", FALSE, NoText)
  BY <1>3, <1>4, ReturnKeeps, ErrorsExist
<1>5. CASE /\ Creatable(c, args, {code, source}) /\ ~ NoSlot(ctx[c], str) /\ ~ ReadOnly(ctx[c], str)
           /\ ctx' = [ctx EXCEPT ![c] = y]
           /\ loading' = [cat |-> c, code |-> str]
           /\ last' = NoCall
  <2>1. Good(y) /\ (AllSound /\ Plain => Sound(y)) /\ y.languages = x.languages
    BY <1>3, <1>5, NoStatsBalanced, ReckoningKeepsGood DEF Started
  <2>2. Known(y, str) /\ ~ LanguageOf(y, str).compiled
    BY <1>3, <1>5, <2>1 DEF Known, LanguageOf, IndexOf
  <2> HIDE DEF y
  <2>3. ctx' \in [Catalogs -> ContextLike] /\ ctx'[c] = y /\ \A d \in Catalogs \ {c} : ctx'[d] = ctx[d]
    BY <1>5, <2>1 DEF Inv, Good
  <2>4. loading'.cat = c /\ loading'.code = str /\ loading' \in [cat : Catalogs, code : AnyCode]
    BY <1>3, <1>5
  <2>5. \A d \in Catalogs : Good(ctx'[d])
    BY <2>1, <2>3, ContextsAreContexts
  <2>6. LoadInv'
    BY <1>5, <2>2, <2>3, <2>4 DEF LoadInv
  <2>8. Plain /\ AllSound => AllSound'
    <3> SUFFICES ASSUME Plain, AllSound
                 PROVE  AllSound'
      OBVIOUS
    <3>1. \A d \in Catalogs : Sound(ctx'[d])
      BY <2>1, <2>3, ContextsAreContexts
    <3> QED
      BY <1>3, <1>5, <2>4, <3>1 DEF AllSound
  <2> QED
    BY <2>3, <2>5, <2>6, <2>8 DEF Kept, Inv
<1> QED
  BY <1>0, <1>1, <1>2, <1>4, <1>5 DEF BeginLoad

LEMMA LoadHasItsLanguage ==
    ASSUME Inv, Loading
    PROVE  /\ loading.cat \in Catalogs /\ Good(Filled)
           /\ Known(Filled, loading.code) /\ ~ LanguageOf(Filled, loading.code).compiled
           /\ LanguageOf(Filled, loading.code).map \in Maps
           /\ AllSound => Sound(Filled)
           /\ last = NoCall
<1>1. /\ loading.cat \in Catalogs
      /\ Known(Filled, loading.code) /\ ~ LanguageOf(Filled, loading.code).compiled
      /\ last = NoCall
  BY DEF Inv, LoadInv, Loading, Filled
<1>2. Good(Filled) /\ (AllSound => Sound(Filled))
  BY <1>1, ContextsAreContexts DEF Filled
<1> QED
  BY <1>1, <1>2, LanguagesAreSlots

(* A line changes no code and nothing of a compiled language. *)
LEMMA NextLineKeeps ==
    ASSUME Inv, Loading, NEW x, NEW st \in StatsLike, Balanced(st), Good(x), AllSound => Sound(x),
           Known(x, loading.code), ~ LanguageOf(x, loading.code).compiled,
           NEW cuts \in Nat, NEW dropped, NextLine(x, st, cuts, dropped)
    PROVE  Kept
<1> DEFINE y == [x EXCEPT !.load_stats = Cut(st, cuts)]
           c == loading.cat
<1>0. Cut(st, cuts) \in StatsLike /\ Balanced(Cut(st, cuts))
  BY CountingKeepsBalance
<1>1. Good(y) /\ (AllSound => Sound(y)) /\ y.languages = x.languages
  BY <1>0, ReckoningKeepsGood
<1>2. Known(y, loading.code) /\ ~ LanguageOf(y, loading.code).compiled
  BY <1>1 DEF Known, LanguageOf, IndexOf
<1>3. ctx' = [ctx EXCEPT ![c] = y] /\ loading' = loading /\ last' = last
  BY DEF NextLine
<1>4. c \in Catalogs /\ last = NoCall
  BY LoadHasItsLanguage
<1> HIDE DEF y
<1>5. ctx' \in [Catalogs -> ContextLike] /\ ctx'[c] = y /\ \A d \in Catalogs \ {c} : ctx'[d] = ctx[d]
  BY <1>1, <1>3, <1>4 DEF Inv, Good
<1>6. \A d \in Catalogs : Good(ctx'[d])
  BY <1>1, <1>5, ContextsAreContexts
<1>7. LoadInv'
  BY <1>2, <1>3, <1>4, <1>5 DEF Inv, LoadInv
<1>9. Plain /\ AllSound => AllSound'
  <2> SUFFICES ASSUME Plain, AllSound
               PROVE  AllSound'
    OBVIOUS
  <2>1. \A d \in Catalogs : Sound(ctx'[d])
    BY <1>1, <1>5, ContextsAreContexts
  <2> QED
    BY <1>3, <2>1 DEF AllSound
<1> QED
  BY <1>5, <1>6, <1>7, <1>9 DEF Kept, Inv

(* What a line may come to, however much of it was cut. *)
LineOf(cuts) ==
    LET st == Filled.load_stats
        map == LanguageOf(Filled, loading.code).map
    IN \/ NextLine(Filled, Tallied(st, "lines_skipped"), cuts, FALSE)
       \/ NextLine(Filled, Dropped(st), cuts, TRUE)
       \/ \E k \in KeyArgs, v \in Values :
            NextLine(WithMap(Filled, loading.code, Put(map, Clamped[k], v)),
                     Tallied(st, "entries_loaded"), cuts, FALSE)
       \/ \E error \in Errors :
            NextLine([Filled EXCEPT !.last_error = error], Dropped(st), cuts, TRUE)

LEMMA LinesAreCases ==
    ASSUME LoadLine
    PROVE  \E cuts \in Nat : LineOf(cuts)
<1> DEFINE st == Filled.load_stats
           map == LanguageOf(Filled, loading.code).map
<1>1. PICK line_cut \in {0, 1}, value_cut \in {0, 1} :
        \/ NextLine(Filled, Tallied(st, "lines_skipped"), line_cut, FALSE)
        \/ NextLine(Filled, Dropped(st), line_cut, TRUE)
        \/ \E k \in KeyArgs, v \in Values :
            \/ NextLine(WithMap(Filled, loading.code, Put(map, Clamped[k], v)),
                        Tallied(st, "entries_loaded"), line_cut + value_cut + KeyCuts(k), FALSE)
            \/ \E error \in StoreErrors(map, Clamped[k]) :
                NextLine([Filled EXCEPT !.last_error = error], Dropped(st),
                         line_cut + value_cut + KeyCuts(k), TRUE)
  BY DEF LoadLine
<1>2. line_cut \in Nat /\ \A k : line_cut + value_cut + KeyCuts(k) \in Nat
  BY DEF KeyCuts
<1>3. \A k : StoreErrors(map, k) \subseteq Errors
  BY ErrorsExist
<1> QED
  BY <1>1, <1>2, <1>3 DEF LineOf

LEMMA LoadLineKeeps ==
    ASSUME Inv, LoadLine
    PROVE  Kept
<1> DEFINE st == Filled.load_stats
           map == LanguageOf(Filled, loading.code).map
<1>1. Loading /\ st \in StatsLike /\ Balanced(st)
  BY LoadHasItsLanguage DEF LoadLine, Good, ContextLike
<1>2. ASSUME NEW new \in StatsLike, Balanced(new), NEW cuts \in Nat, NEW dropped,
             NextLine(Filled, new, cuts, dropped)
      PROVE  Kept
  BY <1>1, <1>2, LoadHasItsLanguage, NextLineKeeps
<1>3. ASSUME NEW error \in Errors, NEW new \in StatsLike, Balanced(new), NEW cuts \in Nat, NEW dropped,
             NextLine([Filled EXCEPT !.last_error = error], new, cuts, dropped)
      PROVE  Kept
  <2> DEFINE x == [Filled EXCEPT !.last_error = error]
  <2>1. Good(x) /\ (AllSound => Sound(x)) /\ x.languages = Filled.languages
    <3>1. Good(x) /\ (Sound(Filled) => Sound(x))
      BY <1>1, LoadHasItsLanguage, ErrorKeepsGood
    <3>2. x.languages = Filled.languages
      BY <1>1, LoadHasItsLanguage DEF Good, ContextLike
    <3> QED
      BY <1>1, <3>1, <3>2, LoadHasItsLanguage
  <2>2. Known(x, loading.code) /\ ~ LanguageOf(x, loading.code).compiled
    BY <1>1, <2>1, LoadHasItsLanguage DEF Known, LanguageOf, IndexOf
  <2> HIDE DEF x
  <2> QED
    BY <1>1, <1>3, <2>1, <2>2, NextLineKeeps DEF x
<1>4. ASSUME NEW k \in KeyArgs, NEW v \in Values, NEW new \in StatsLike, Balanced(new),
             NEW cuts \in Nat, NEW dropped,
             NextLine(WithMap(Filled, loading.code, Put(map, Clamped[k], v)), new, cuts, dropped)
      PROVE  Kept
  <2> DEFINE x == WithMap(Filled, loading.code, Put(map, Clamped[k], v))
  <2>1. Put(map, Clamped[k], v) \in Maps
    <3>1. Clamped[k] \in Keys
      BY DEF Keys
    <3> QED
      BY <1>1, <3>1, LoadHasItsLanguage, PutIsAMap
  <2>2. /\ Good(x) /\ (AllSound => Sound(x))
        /\ Known(x, loading.code) /\ ~ LanguageOf(x, loading.code).compiled
    BY <1>1, <2>1, LoadHasItsLanguage, StoringKeepsGood
  <2> HIDE DEF x
  <2> QED
    BY <1>1, <1>4, <2>2, NextLineKeeps DEF x
<1>5. PICK cuts \in Nat : LineOf(cuts)
  BY LinesAreCases
<1>6. CASE NextLine(Filled, Tallied(st, "lines_skipped"), cuts, FALSE)
  BY <1>1, <1>2, <1>6, CountingKeepsBalance
<1>7. CASE NextLine(Filled, Dropped(st), cuts, TRUE)
  BY <1>1, <1>2, <1>7, CountingKeepsBalance
<1>8. ASSUME NEW k \in KeyArgs, NEW v \in Values,
             NextLine(WithMap(Filled, loading.code, Put(map, Clamped[k], v)),
                      Tallied(st, "entries_loaded"), cuts, FALSE)
      PROVE  Kept
  BY <1>1, <1>4, <1>8, CountingKeepsBalance
<1>9. ASSUME NEW error \in Errors,
             NextLine([Filled EXCEPT !.last_error = error], Dropped(st), cuts, TRUE)
      PROVE  Kept
  BY <1>1, <1>3, <1>9, CountingKeepsBalance
<1> QED
  BY <1>5, <1>6, <1>7, <1>8, <1>9 DEF LineOf

LEMMA EndLoadKeeps ==
    ASSUME Inv, EndLoad
    PROVE  Kept
<1> DEFINE c == loading.cat
           error == IF Incomplete(Filled.load_stats) THEN "PARSE" ELSE "OK"
           x == [Filled EXCEPT !.last_error = error]
<1>1. Loading /\ c \in Catalogs /\ Good(Filled) /\ (AllSound => Sound(Filled))
  BY LoadHasItsLanguage DEF EndLoad
<1>2. ctx' = [ctx EXCEPT ![c] = x] /\ loading' = NoLoad
  BY DEF EndLoad, Filled
<1>3. error \in Errors
  BY ErrorsExist
<1>4. Good(x) /\ (Sound(Filled) => Sound(x))
  <2> HIDE DEF error
  <2> QED
    BY <1>1, <1>3, ErrorKeepsGood
<1> HIDE DEF x
<1>6. ctx' \in [Catalogs -> ContextLike] /\ ctx'[c] = x /\ \A d \in Catalogs \ {c} : ctx'[d] = ctx[d]
  BY <1>1, <1>2, <1>4 DEF Inv, Good
<1>7. \A d \in Catalogs : Good(ctx'[d])
  BY <1>4, <1>6, ContextsAreContexts
<1>9. AllSound => AllSound'
  <2> SUFFICES ASSUME AllSound
               PROVE  AllSound'
    OBVIOUS
  <2>1. \A d \in Catalogs : Sound(ctx'[d])
    BY <1>1, <1>4, <1>6, ContextsAreContexts
  <2> QED
    BY <1>2, <2>1 DEF AllSound
<1> QED
  BY <1>2, <1>6, <1>7, <1>9 DEF Kept, Inv, LoadInv

(***************************************************************************)
(* The theorems.                                                           *)
(***************************************************************************)
LEMMA InvInit == Init => Inv /\ AllSound
<1> SUFFICES ASSUME Init
             PROVE  Inv /\ AllSound
  OBVIOUS
<1>1. \A c \in Catalogs : ctx[c] = Reset
  BY DEF Init
<1>2. ctx \in [Catalogs -> ContextLike]
  BY ResetIsGood DEF Init, Good
<1>3. loading = NoLoad
  BY DEF Init
<1> QED
  BY <1>1, <1>2, <1>3, ResetIsGood DEF Inv, AllSound, LoadInv

LEMMA StepKeeps ==
    ASSUME Inv, [Next]_vars
    PROVE  Kept
<1>1. CASE UNCHANGED vars
  <2>1. Inv'
    BY <1>1 DEF vars, Inv, LoadInv
  <2>2. AllSound => AllSound'
    BY <1>1 DEF vars, AllSound
  <2> QED
    BY <2>1, <2>2 DEF Kept
<1>2. ASSUME NEW c \in Catalogs, Call(c)
      PROVE  Kept
  <2>1. ASSUME NEW code \in CodeArgs, NEW k \in KeyArgs \cup Nulls, NEW v \in Values \cup Nulls,
               Set(c, code, k, v) \/ Remove(c, code, k)
        PROVE  Kept
    BY <2>1, SetKeeps, RemoveKeeps
  <2>2. ASSUME NEW code \in CodeArgs, NEW image \in Images \cup Nulls, NEW bool \in BOOLEAN,
               \/ Clear(c, code) \/ RemoveLanguage(c, code) \/ UseCompiled(c, code, image, bool)
               \/ SetCurrent(c, code) \/ SetFallback(c, code) \/ SetCurrentBest(c, code)
        PROVE  Kept
    BY <2>2, ClearKeeps, RemoveLanguageKeeps, UseCompiledKeeps, SelectKeeps, SelectBestKeeps
  <2>3. ASSUME NEW code \in CodeArgs, NEW source, NEW bool \in BOOLEAN,
               \/ Clear(c, code) \/ RemoveLanguage(c, code) \/ BeginLoad(c, code, source, bool)
               \/ SetCurrent(c, code) \/ SetFallback(c, code) \/ SetCurrentBest(c, code)
        PROVE  Kept
    BY <2>3, ClearKeeps, RemoveLanguageKeeps, SelectKeeps, SelectBestKeeps, BeginLoadKeeps
  <2>4. ASSUME NEW code, NEW k,
               \/ Get(c, k) \/ Has(c, k) \/ Count(c, code) \/ GetLanguages(c)
               \/ \E fn : ForEach(c, code, fn)
        PROVE  Kept
    BY <2>4, AskKeeps
  <2>5. ASSUME NEW locale, SetCurrentDetected(c, locale)
        PROVE  Kept
    BY <2>5, DetectKeeps
  <2>6. ASSUME Create(c) \/ Destroy(c)
        PROVE  Kept
    BY <2>6, WholeKeeps
  <2>7. ASSUME NEW code \in CodeArgs, NEW k \in KeyArgs \cup Nulls, Remove(c, code, k)
        PROVE  Kept
    BY <2>7, RemoveKeeps
  <2> QED
    BY <1>2, <2>1, <2>2, <2>3, <2>4, <2>5, <2>6, <2>7 DEF Call
<1>3. ASSUME InitDefault \/ FreeDefault
      PROVE  Kept
  BY <1>3, WholeKeeps, CatalogAssumption
<1> QED
  BY <1>1, <1>2, <1>3, LoadLineKeeps, EndLoadKeeps DEF Next

LEMMA InvHolds == Spec => []Inv
<1>1. Init => Inv
  BY InvInit
<1>2. Inv /\ [Next]_vars => Inv'
  BY StepKeeps DEF Kept
<1> QED
  BY <1>1, <1>2, PTL DEF Spec

(* A code names one slot, whatever is created, moved, replaced or removed, *)
(* and whatever pointers are passed (ci18n_get_or_create_language(),       *)
(* ci18n_remove_language()).                                               *)
THEOREM CodesStayUnique == Spec => []CodesUnique
<1>1. Inv => CodesUnique
  BY DEF Inv, Good, UniqueIn, CodesUnique
<1> QED
  BY <1>1, InvHolds, PTL

(* No call of any sequence stores into a compiled language                 *)
(* (ci18n_writable()).                                                     *)
THEOREM CompiledLanguagesStayWhole == Spec => []CompiledStaysWhole
<1>1. Inv => CompiledStaysWhole
  BY DEF Inv, Good, WholeIn, CompiledStaysWhole
<1> QED
  BY <1>1, InvHolds, PTL

(* The statistics of a load account for every line of it, of any length,   *)
(* at every line (ci18n_record_line()).                                    *)
THEOREM StatisticsAddUp == Spec => []StatsAddUp
<1>1. Inv => StatsAddUp
  BY DEF Inv, Good, Balanced, StatsAddUp
<1> QED
  BY <1>1, InvHolds, PTL

LEMMA SoundHolds ==
    ASSUME Plain
    PROVE  Spec => [](Inv /\ AllSound)
<1>1. Init => Inv /\ AllSound
  BY InvInit
<1>2. (Inv /\ AllSound) /\ [Next]_vars => (Inv /\ AllSound)'
  BY StepKeeps DEF Kept
<1> QED
  BY <1>1, <1>2, PTL DEF Spec

(* Where no caller passes the catalogue's own array back, the current and  *)
(* the fallback language exist or are not set (ci18n_remove_language(),    *)
(* ci18n_clear_language()).  The run catalog_alias shows what else may     *)
(* happen.                                                                 *)
THEOREM SelectionsExist ==
    ASSUME Plain
    PROVE  Spec => []SelectionExists
<1>1. Inv /\ AllSound => SelectionExists
  BY DEF AllSound, Sound, SelectionExists
<1> QED
  BY <1>1, SoundHolds, PTL

(***************************************************************************)
(* What a load reports.  While it runs, the statistics are those of the    *)
(* lines seen since it began, and of no others.                            *)
(***************************************************************************)
LineLike == [dropped : BOOLEAN, cut : BOOLEAN]

FirstLost(first, lines) ==
    IF Lost(lines) = {} THEN first = 0
                        ELSE first \in Lost(lines) /\ \A i \in Lost(lines) : first <= i

Tells(st, lines) ==
    /\ st.lines_read = Len(lines)
    /\ (st.truncated > 0) <=> \E i \in DOMAIN lines : lines[i].cut
    /\ FirstLost(st.first_malformed_line, lines)

SeenInv ==
    /\ seen \in Seq(LineLike)
    /\ Loading => Tells(Filled.load_stats, seen)

(* The first line lost stays it when others follow. *)
LEMMA FirstLostStays ==
    ASSUME NEW lines \in Seq(LineLike), NEW line \in LineLike, NEW first \in Nat, FirstLost(first, lines)
    PROVE  FirstLost(IF first = 0 /\ line.dropped THEN Len(lines) + 1 ELSE first, Append(lines, line))
<1> DEFINE n == Len(lines)
           more == Append(lines, line)
<1>1. /\ n \in Nat /\ DOMAIN lines = 1 .. n /\ DOMAIN more = 1 .. n + 1
      /\ more[n + 1] = line /\ \A i \in 1 .. n : more[i] = lines[i]
  OBVIOUS
<1> HIDE DEF n, more
<1>2. \A i : i \in Lost(more) <=> i \in Lost(lines) \/ (i = n + 1 /\ line.dropped)
  BY <1>1 DEF Lost
<1>3. Lost(lines) \subseteq 1 .. n
  BY <1>1 DEF Lost
<1>4. CASE Lost(lines) = {} /\ ~ line.dropped
  <2>1. Lost(more) = {}
    BY <1>2, <1>4
  <2> QED
    BY <1>4, <2>1 DEF FirstLost, more
<1>5. CASE Lost(lines) = {} /\ line.dropped
  <2>1. Lost(more) = {n + 1}
    BY <1>2, <1>5
  <2>2. first = 0
    BY <1>5 DEF FirstLost
  <2> QED
    BY <1>1, <1>5, <2>1, <2>2 DEF FirstLost, more, n
<1>6. CASE Lost(lines) # {}
  <2>1. first \in Lost(lines) /\ \A i \in Lost(lines) : first <= i
    BY <1>6 DEF FirstLost
  <2>2. first \in 1 .. n /\ first # 0
    BY <1>1, <1>3, <2>1
  <2>3. first \in Lost(more) /\ \A i \in Lost(more) : first <= i
    BY <1>1, <1>2, <2>1, <2>2
  <2> QED
    BY <2>2, <2>3 DEF FirstLost, more
<1> QED
  BY <1>4, <1>5, <1>6

(* One more line, of which the statistics tell what the history does. *)
LEMMA NextLineTells ==
    ASSUME NEW st \in StatsLike, NEW lines \in Seq(LineLike), Tells(st, lines),
           NEW new \in StatsLike, NEW cuts \in Nat, NEW dropped \in BOOLEAN,
           new.lines_read = st.lines_read + 1, new.truncated = st.truncated,
           new.first_malformed_line = IF st.first_malformed_line = 0 /\ dropped
                                        THEN st.lines_read + 1 ELSE st.first_malformed_line
    PROVE  LET line == [dropped |-> dropped, cut |-> cuts > 0]
           IN  line \in LineLike /\ Tells(Cut(new, cuts), Append(lines, line))
<1> DEFINE line == [dropped |-> dropped, cut |-> cuts > 0]
           n == Len(lines)
           more == Append(lines, line)
           after == Cut(new, cuts)
<1>1. line \in LineLike /\ line.dropped = dropped /\ line.cut = (cuts > 0)
  BY DEF LineLike
<1> HIDE DEF line
<1>2. /\ n \in Nat /\ DOMAIN lines = 1 .. n /\ DOMAIN more = 1 .. n + 1 /\ Len(more) = n + 1
      /\ more[n + 1] = line /\ \A i \in 1 .. n : more[i] = lines[i]
  BY <1>1
<1>3. /\ after.lines_read = new.lines_read /\ after.truncated = new.truncated + cuts
      /\ after.first_malformed_line = new.first_malformed_line
  BY DEF Cut, StatsLike
<1>4. FirstLost(after.first_malformed_line, more)
  <2>1. st.first_malformed_line \in Nat /\ FirstLost(st.first_malformed_line, lines) /\ st.lines_read = n
    BY DEF StatsLike, Tells
  <2> QED
    BY <1>1, <1>3, <2>1, FirstLostStays
<1> HIDE DEF more, after
<1>5. (after.truncated > 0) <=> \E i \in DOMAIN more : more[i].cut
  <2>1. st.truncated \in Nat /\ ((st.truncated > 0) <=> \E i \in DOMAIN lines : lines[i].cut)
    BY DEF StatsLike, Tells
  <2>2. (after.truncated > 0) <=> st.truncated > 0 \/ cuts > 0
    BY <1>3, <2>1
  <2>3. (\E i \in DOMAIN more : more[i].cut) <=> (\E i \in DOMAIN lines : lines[i].cut) \/ line.cut
    <3>1. DOMAIN more = DOMAIN lines \cup {n + 1} /\ \A i \in DOMAIN lines : more[i] = lines[i]
      BY <1>2
    <3> QED
      BY <1>2, <3>1
  <2> QED
    BY <1>1, <2>1, <2>2, <2>3
<1>6. after.lines_read = Len(more)
  BY <1>2, <1>3 DEF Tells, StatsLike
<1>7. Tells(after, more)
  BY <1>4, <1>5, <1>6 DEF Tells
<1> QED
  BY <1>1, <1>7 DEF line, more, after

LEMMA CountedOnce ==
    ASSUME NEW st \in StatsLike
    PROVE  /\ \A field \in {"lines_skipped", "entries_loaded"} :
                /\ Tallied(st, field).lines_read = st.lines_read + 1
                /\ Tallied(st, field).truncated = st.truncated
                /\ Tallied(st, field).first_malformed_line = st.first_malformed_line
           /\ Dropped(st).lines_read = st.lines_read + 1
           /\ Dropped(st).truncated = st.truncated
           /\ Dropped(st).first_malformed_line = IF st.first_malformed_line = 0
                                                   THEN st.lines_read + 1 ELSE st.first_malformed_line
<1>1. ASSUME NEW field \in {"lines_skipped", "entries_loaded", "lines_malformed"}
      PROVE  /\ Tallied(st, field).lines_read = st.lines_read + 1
             /\ Tallied(st, field).truncated = st.truncated
             /\ Tallied(st, field).first_malformed_line = st.first_malformed_line
             /\ DOMAIN Tallied(st, field) = DOMAIN st
  BY DEF Tallied, StatsLike
<1>2. "first_malformed_line" \in DOMAIN st
  BY DEF StatsLike
<1> QED
  BY <1>1, <1>2 DEF Dropped

LEMMA LoadLineSeen ==
    ASSUME Inv, SeenInv, LoadLine
    PROVE  SeenInv' /\ Loading'
<1> DEFINE st == Filled.load_stats
           map == LanguageOf(Filled, loading.code).map
<1>1. /\ Loading /\ loading.cat \in Catalogs /\ Good(Filled) /\ st \in StatsLike /\ Balanced(st)
      /\ Known(Filled, loading.code) /\ map \in Maps
      /\ ~ LanguageOf(Filled, loading.code).compiled
  BY LoadHasItsLanguage DEF LoadLine, Good, ContextLike
<1>2. seen \in Seq(LineLike) /\ Tells(st, seen)
  BY <1>1 DEF SeenInv
<1>3. ASSUME NEW x, Good(x), NEW new \in StatsLike, NEW cuts \in Nat, NEW dropped \in BOOLEAN,
             new.lines_read = st.lines_read + 1, new.truncated = st.truncated,
             new.first_malformed_line = IF st.first_malformed_line = 0 /\ dropped
                                          THEN st.lines_read + 1 ELSE st.first_malformed_line,
             NextLine(x, new, cuts, dropped)
      PROVE  SeenInv' /\ Loading'
  <2> DEFINE line == [dropped |-> dropped, cut |-> cuts > 0]
             y == [x EXCEPT !.load_stats = Cut(new, cuts)]
  <2>1. line \in LineLike /\ Tells(Cut(new, cuts), Append(seen, line))
    BY <1>1, <1>2, <1>3, NextLineTells
  <2>2. y.load_stats = Cut(new, cuts)
    BY <1>3 DEF Good, ContextLike
  <2>3. ctx' = [ctx EXCEPT ![loading.cat] = y] /\ seen' = Append(seen, line) /\ loading' = loading
    BY <1>3 DEF NextLine
  <2> HIDE DEF line, y
  <2>4. Filled' = y
    BY <1>1, <2>3 DEF Filled, Inv
  <2>5. seen' \in Seq(LineLike)
    BY <1>2, <2>1, <2>3
  <2> QED
    BY <1>1, <2>1, <2>2, <2>3, <2>4, <2>5 DEF SeenInv, Loading
<1>4. PICK cuts \in Nat : LineOf(cuts)
  BY LinesAreCases
<1>5. /\ Tallied(st, "lines_skipped") \in StatsLike /\ Tallied(st, "entries_loaded") \in StatsLike
      /\ Dropped(st) \in StatsLike
  BY <1>1, CountingKeepsBalance
<1> HIDE DEF st, map
<1>6. CASE NextLine(Filled, Tallied(st, "lines_skipped"), cuts, FALSE)
  BY <1>1, <1>3, <1>5, <1>6, CountedOnce
<1>7. CASE NextLine(Filled, Dropped(st), cuts, TRUE)
  BY <1>1, <1>3, <1>5, <1>7, CountedOnce
<1>8. ASSUME NEW k \in KeyArgs, NEW v \in Values,
             NextLine(WithMap(Filled, loading.code, Put(map, Clamped[k], v)),
                      Tallied(st, "entries_loaded"), cuts, FALSE)
      PROVE  SeenInv' /\ Loading'
  <2>1. Put(map, Clamped[k], v) \in Maps
    <3>1. Clamped[k] \in Keys
      BY DEF Keys
    <3> QED
      BY <1>1, <3>1, PutIsAMap
  <2>2. Good(WithMap(Filled, loading.code, Put(map, Clamped[k], v)))
    BY <1>1, <2>1, StoringKeepsGood
  <2> QED
    BY <1>1, <1>3, <1>5, <1>8, <2>2, CountedOnce
<1>9. ASSUME NEW error \in Errors,
             NextLine([Filled EXCEPT !.last_error = error], Dropped(st), cuts, TRUE)
      PROVE  SeenInv' /\ Loading'
  <2>1. Good([Filled EXCEPT !.last_error = error])
    BY <1>1, ErrorKeepsGood
  <2> QED
    BY <1>1, <1>3, <1>5, <1>9, <2>1, CountedOnce
<1> QED
  BY <1>4, <1>6, <1>7, <1>8, <1>9 DEF LineOf, st, map

(* A call that is no load leaves none under way. *)
Quiet == ~ Loading /\ ~ Loading' /\ seen' = seen

LEMMA ReturnIsQuiet ==
    ASSUME NEW c, NEW op, NEW args, NEW needed, NEW x, NEW error, NEW ok, NEW value,
           \/ Return(c, op, args, x, error, ok, value) \/ Whole(c, op, x, ok)
           \/ Refuse(c, op, args, needed) \/ RefuseToCreate(c, op, args, needed)
           \/ RefuseUnknown(c, op, args, needed)
           \/ Fail(c, op, args, error) \/ Succeed(c, op, args, x)
    PROVE  Quiet
<1>1. ASSUME NEW o, NEW a, NEW y, NEW e, NEW k, NEW v, Return(c, o, a, y, e, k, v)
      PROVE  Quiet
  BY <1>1 DEF Return, Callable, Quiet, Loading
<1>2. CASE Whole(c, op, x, ok)
  BY <1>2 DEF Whole, Quiet, Loading
<1> QED
  BY <1>1, <1>2 DEF Refuse, RefuseToCreate, RefuseUnknown, Fail, Succeed

(* A load that begins has clean statistics, whatever the one before left. *)
Begins ==
    /\ ~ Loading /\ Loading' /\ seen' = <<>>
    /\ Filled'.load_stats = NoStats

LEMMA BeginLoadBegins ==
    ASSUME Inv, NEW c \in Catalogs, NEW code \in CodeArgs, NEW source, NEW openable,
           BeginLoad(c, code, source, openable)
    PROVE  Quiet \/ Begins
<1> DEFINE str == Str(ctx[c], code)
           args == Args(str, NoText)
           x == WithLanguage(ctx[c], str)
<1>0. args.code = str
  BY DEF Args
<1>1. CASE \/ RefuseToCreate(c, "load", args, {code, source}) \/ \E error : Fail(c, "load", args, error)
           \/ Return(c, "load", args, x, "OUT_OF_MEMORY", FALSE, NoText)
  BY <1>1, ReturnIsQuiet
<1>2. CASE /\ Creatable(c, args, {code, source}) /\ ~ NoSlot(ctx[c], str) /\ Callable(c)
           /\ ctx' = [ctx EXCEPT ![c] = Started(x)]
           /\ loading' = [cat |-> c, code |-> str]
           /\ seen' = <<>>
  <2>1. str \in AnyCode
    BY <1>2, CodesDenoted
  <2>2. Loading' /\ ~ Loading /\ loading'.cat = c
    BY <1>2, <2>1, CatalogAssumption DEF Loading, Callable, AnyCode
  <2>3. Good(x)
    BY <1>2, <2>1, ContextsAreContexts, CreatingKeepsGood
  <2>4. Started(x).load_stats = NoStats
    BY <2>3 DEF Started, Good, ContextLike
  <2> HIDE DEF x
  <2>5. Filled' = Started(x)
    BY <1>2, <2>2 DEF Filled, Inv
  <2> QED
    BY <1>2, <2>2, <2>4, <2>5 DEF Begins
<1> QED
  BY <1>0, <1>1, <1>2 DEF BeginLoad

LEMMA CallIsQuiet ==
    ASSUME Inv, NEW c \in Catalogs, Call(c)
    PROVE  Quiet \/ Begins
<1>1. ASSUME NEW code, NEW k, NEW v, Set(c, code, k, v) \/ Remove(c, code, k)
      PROVE  Quiet
  BY <1>1, ReturnIsQuiet DEF Set, Remove
<1>2. ASSUME NEW code, NEW image, NEW format_ok,
             \/ Clear(c, code) \/ RemoveLanguage(c, code) \/ UseCompiled(c, code, image, format_ok)
             \/ SetCurrent(c, code) \/ SetFallback(c, code) \/ SetCurrentBest(c, code)
      PROVE  Quiet
  BY <1>2, ReturnIsQuiet DEF Clear, RemoveLanguage, UseCompiled, SetCurrent, SetFallback, SetCurrentBest
<1>3. ASSUME NEW code, NEW k, NEW fn,
             Get(c, k) \/ Has(c, k) \/ Count(c, code) \/ ForEach(c, code, fn) \/ GetLanguages(c)
      PROVE  Quiet
  BY <1>3, ReturnIsQuiet DEF Get, Has, Count, ForEach, GetLanguages
<1>4. ASSUME NEW locale, SetCurrentDetected(c, locale)
      PROVE  Quiet
  BY <1>4 DEF SetCurrentDetected, Callable, Quiet, Loading
<1>5. CASE Create(c) \/ Destroy(c)
  BY <1>5, ReturnIsQuiet DEF Create, Destroy
<1> QED
  BY <1>1, <1>2, <1>3, <1>4, <1>5, BeginLoadBegins DEF Call

LEMMA NothingLost == <<>> \in Seq(LineLike) /\ Tells(NoStats, <<>>)
BY DEF Tells, NoStats, FirstLost, Lost

(* What any step does to the lines seen, and that only a load's own steps  *)
(* are taken while it runs.                                                *)
LEMMA SeenKept ==
    ASSUME Inv, SeenInv, [Next]_vars
    PROVE  /\ SeenInv'
           /\ Loading /\ ~ Loading' => EndLoad
<1>1. CASE UNCHANGED vars
  BY <1>1 DEF vars, SeenInv, Loading, Filled
<1>2. CASE Quiet
  BY <1>2 DEF Quiet, SeenInv
<1>3. CASE Begins
  <2>1. Tells(Filled'.load_stats, seen') /\ seen' \in Seq(LineLike)
    BY <1>3, NothingLost DEF Begins
  <2> QED
    BY <1>3, <2>1 DEF Begins, SeenInv
<1>4. CASE EndLoad
  BY <1>4, NothingLost DEF EndLoad, SeenInv, Loading
<1>5. CASE InitDefault \/ FreeDefault
  BY <1>2, <1>5, ReturnIsQuiet DEF InitDefault, FreeDefault
<1> QED
  BY <1>1, <1>2, <1>3, <1>4, <1>5, LoadLineSeen, CallIsQuiet DEF Next

LEMMA SeenHolds == Spec => [](Inv /\ SeenInv)
<1>1. Init => Inv /\ SeenInv
  BY InvInit, NothingLost DEF Init, SeenInv, Loading
<1>2. (Inv /\ SeenInv) /\ [Next]_vars => (Inv /\ SeenInv)'
  BY StepKeeps, SeenKept DEF Kept
<1> QED
  BY <1>1, <1>2, PTL DEF Spec

(* A load ends with a parse error exactly when a line of that very load    *)
(* was dropped or cut, counts its lines and names the first one dropped,   *)
(* however many lines it had, whatever failed in storing them and whatever *)
(* loads there were before (ci18n_reset_load_stats(),                      *)
(* ci18n_record_line(), ci18n_finish_load()).                              *)
THEOREM LoadsReportTheirLosses == Spec => LoadReportsItsLosses
<1>1. (Inv /\ SeenInv) /\ [Next]_vars => (Loading /\ ~ Loading' => Reported(ctx'[loading.cat], seen))
  <2> SUFFICES ASSUME Inv, SeenInv, [Next]_vars, Loading, ~ Loading'
               PROVE  Reported(ctx'[loading.cat], seen)
    OBVIOUS
  <2> DEFINE c == loading.cat
             st == Filled.load_stats
             error == IF Incomplete(st) THEN "PARSE" ELSE "OK"
             x == [Filled EXCEPT !.last_error = error]
  <2>1. EndLoad
    BY SeenKept
  <2>2. c \in Catalogs /\ Filled \in ContextLike /\ st \in StatsLike /\ Balanced(st) /\ Tells(st, seen)
    BY LoadHasItsLanguage DEF Good, ContextLike, SeenInv
  <2>3. ctx'[c] = x
    BY <2>1, <2>2 DEF EndLoad, Filled, Inv
  <2>4. x.last_error = error /\ x.load_stats = st
    BY <2>2 DEF ContextLike
  <2>5. st.lines_malformed > 0 <=> Lost(seen) # {}
    <3>1. st.lines_malformed \in Nat /\ st.first_malformed_line \in Nat
      BY <2>2 DEF StatsLike
    <3>2. (st.first_malformed_line = 0) = (st.lines_malformed = 0)
      BY <2>2 DEF Balanced
    <3>3. FirstLost(st.first_malformed_line, seen)
      BY <2>2 DEF Tells
    <3>4. 0 \notin Lost(seen)
      BY DEF Lost, SeenInv
    <3> QED
      BY <3>1, <3>2, <3>3, <3>4 DEF FirstLost
  <2>6. Incomplete(st) <=> \E i \in DOMAIN seen : seen[i].dropped \/ seen[i].cut
    BY <2>2, <2>5 DEF Incomplete, Lost, Tells
  <2> HIDE DEF x, error, st
  <2>7. x.last_error = IF \E i \in DOMAIN seen : seen[i].dropped \/ seen[i].cut THEN "PARSE" ELSE "OK"
    BY <2>4, <2>6 DEF error
  <2>8. /\ x.load_stats.lines_read = Len(seen)
        /\ FirstLost(x.load_stats.first_malformed_line, seen)
    BY <2>2, <2>4 DEF Tells
  <2> QED
    BY <2>3, <2>7, <2>8 DEF Reported, FirstLost
<1> QED
  BY <1>1, SeenHolds, PTL DEF Spec, LoadReportsItsLosses

(* Under the same condition every variable keeps its type: no language has *)
(* the code of no language, and there are never more than the limit.       *)
THEOREM CatalogTyped ==
    ASSUME Plain
    PROVE  Spec => []TypeOK
<1>1. (Inv /\ AllSound) /\ (Inv /\ SeenInv) => TypeOK
  <2> SUFFICES ASSUME Inv, AllSound, SeenInv
               PROVE  TypeOK
    OBVIOUS
  <2>1. ASSUME NEW c \in Catalogs
        PROVE  ctx[c] \in Context /\ Len(ctx[c].languages) <= MaxLanguages
    <3> DEFINE x == ctx[c]
    <3>1. Good(x) /\ Sound(x) /\ x \in ContextLike
      BY ContextsAreContexts
    <3>2. x.languages \in Seq(SlotLike) /\ \A i \in DOMAIN x.languages : x.languages[i].code \in Codes
      BY <3>1 DEF ContextLike, Sound
    <3>3. ASSUME NEW i \in 1 .. Len(x.languages)
          PROVE  x.languages[i] \in Slot
      <4>1. x.languages[i] \in SlotLike /\ i \in DOMAIN x.languages
        BY <3>2
      <4>2. x.languages[i].code \in Codes
        BY <3>2, <4>1
      <4> QED
        BY <4>1, <4>2 DEF SlotLike, Slot
    <3>4. x.languages \in Seq(Slot)
      BY <3>2, <3>3
    <3>5. x.load_stats \in Stats
      <4>1. x.load_stats \in StatsLike
        BY <3>1 DEF ContextLike
      <4>2. DOMAIN NoStats = {"lines_read", "entries_loaded", "lines_skipped", "lines_malformed",
                              "first_malformed_line", "truncated"}
        BY DEF NoStats
      <4> QED
        BY <4>1, <4>2 DEF StatsLike, Stats
    <3> QED
      BY <3>1, <3>4, <3>5 DEF ContextLike, Context, Good, AnyCode
  <2>2. ctx \in [Catalogs -> Context]
    BY <2>1 DEF Inv
  <2>3. loading \in [cat : Catalogs, code : Codes] \cup {NoLoad}
    BY DEF Inv, LoadInv, AllSound
  <2> QED
    BY <2>1, <2>2, <2>3 DEF TypeOK, SeenInv, LineLike
<1> QED
  BY <1>1, SoundHolds, SeenHolds, PTL

(***************************************************************************)
(* Catalogues apart: a call writes the one it is for, and `last` or        *)
(* `loading` names it.                                                     *)
(***************************************************************************)
Apart ==
    \A c \in Catalogs \ {Busy} :
        \/ ctx'[c] = ctx[c]
        \/ /\ c = Default /\ last'.op = "set_current_best"
           /\ ctx'[c] = [ctx[c] EXCEPT !.last_error = "OK"]

LEMMA OneWritten ==
    ASSUME Inv, NEW c \in Catalogs, NEW x, ctx' = [ctx EXCEPT ![c] = x], Busy = c
    PROVE  Apart
BY DEF Inv, Apart

LEMMA ReturnIsApart ==
    ASSUME Inv, NEW c \in Catalogs, NEW op, NEW args, NEW x, NEW error, NEW ok, NEW value,
           Return(c, op, args, x, error, ok, value)
    PROVE  Apart
<1>1. Busy = c
  BY DEF Return, Leave, Callable, Busy, Loading
<1>2. PICK y : ctx' = [ctx EXCEPT ![c] = y]
  BY DEF Return
<1> QED
  BY <1>1, <1>2, OneWritten

LEMMA AnyReturnIsApart ==
    ASSUME Inv, NEW c \in Catalogs, NEW op, NEW args, NEW needed, NEW x, NEW error,
           \/ Refuse(c, op, args, needed) \/ RefuseToCreate(c, op, args, needed)
           \/ RefuseUnknown(c, op, args, needed)
           \/ Fail(c, op, args, error) \/ Succeed(c, op, args, x)
    PROVE  Apart
BY ReturnIsApart DEF Refuse, RefuseToCreate, RefuseUnknown, Fail, Succeed

LEMMA DetectIsApart ==
    ASSUME Inv, NEW c \in Catalogs, NEW locale, SetCurrentDetected(c, locale)
    PROVE  Apart
<1> DEFINE reported == [ctx EXCEPT ![Default].last_error = "OK"]
<1>1. PICK error, current, ok :
        /\ ctx' = [reported EXCEPT ![c].last_error = error, ![c].current = current]
        /\ Leave(c, "set_current_best", Args(locale, NoText), ok, NoText)
        /\ loading = NoLoad /\ loading' = NoLoad
  BY DEF SetCurrentDetected, Callable
<1>2. Busy = c /\ last'.op = "set_current_best"
  BY <1>1 DEF Leave, Busy, Loading
<1>3. Default \in Catalogs /\ DOMAIN ctx = Catalogs
  BY CatalogAssumption DEF Inv
<1>4. \A d \in Catalogs : reported[d] = IF d = Default THEN [ctx[d] EXCEPT !.last_error = "OK"] ELSE ctx[d]
  BY <1>3
<1>5. DOMAIN reported = Catalogs
  BY <1>3
<1> DEFINE blamed == [reported EXCEPT ![c].last_error = error]
<1> HIDE DEF reported
<1>6. DOMAIN blamed = Catalogs /\ \A d \in Catalogs \ {c} : blamed[d] = reported[d]
  BY <1>5
<1>7. ctx' = [blamed EXCEPT ![c].current = current]
  BY <1>1 DEF blamed
<1> HIDE DEF blamed
<1>8. \A d \in Catalogs \ {c} : ctx'[d] = reported[d]
  BY <1>6, <1>7
<1> QED
  BY <1>2, <1>4, <1>8 DEF Apart

LEMMA BeginLoadIsApart ==
    ASSUME Inv, NEW c \in Catalogs, NEW code \in CodeArgs, NEW source, NEW openable, BeginLoad(c, code, source, openable)
    PROVE  Apart
<1> DEFINE str == Str(ctx[c], code)
           args == Args(str, NoText)
           x == WithLanguage(ctx[c], str)
<1>0. args.code = str
  BY DEF Args
<1>1. CASE RefuseToCreate(c, "load", args, {code, source}) \/ \E error : Fail(c, "load", args, error)
  BY <1>1, AnyReturnIsApart
<1>2. CASE Return(c, "load", args, x, "OUT_OF_MEMORY", FALSE, NoText)
  BY <1>2, ReturnIsApart
<1>3. CASE /\ Creatable(c, args, {code, source}) /\ Callable(c)
           /\ ctx' = [ctx EXCEPT ![c] = Started(x)]
           /\ loading' = [cat |-> c, code |-> str]
  <2>1. str \in AnyCode
    BY <1>3, CodesDenoted
  <2>2. Loading' /\ ~ Loading /\ loading'.cat = c
    BY <1>3, <2>1, CatalogAssumption DEF Loading, Callable, AnyCode
  <2>3. Busy = c
    BY <2>2 DEF Busy
  <2> QED
    BY <1>3, <2>3, OneWritten
<1> QED
  BY <1>0, <1>1, <1>2, <1>3 DEF BeginLoad

LEMMA LoadingIsApart ==
    ASSUME Inv, LoadLine \/ EndLoad
    PROVE  Apart
<1>1. Loading /\ loading.cat \in Catalogs
  BY LoadHasItsLanguage DEF LoadLine, EndLoad
<1>2. Busy = loading.cat
  BY <1>1 DEF Busy
<1>3. \E x : ctx' = [ctx EXCEPT ![loading.cat] = x]
  BY DEF LoadLine, EndLoad, NextLine
<1> QED
  BY <1>1, <1>2, <1>3, OneWritten

LEMMA WholeIsApart ==
    ASSUME Inv, NEW c \in Catalogs, NEW op, NEW x, NEW ok, Whole(c, op, x, ok)
    PROVE  Apart
<1>1. Busy = c /\ ctx' = [ctx EXCEPT ![c] = x]
  BY DEF Whole, Leave, Busy, Loading
<1> QED
  BY <1>1, OneWritten

LEMMA StepIsApart ==
    ASSUME Inv, [Next]_vars
    PROVE  Apart
<1>1. CASE UNCHANGED vars
  BY <1>1 DEF vars, Apart
<1>2. ASSUME NEW c \in Catalogs, Call(c)
      PROVE  Apart
  <2>1. ASSUME NEW code, NEW k, NEW v, Set(c, code, k, v) \/ Remove(c, code, k)
        PROVE  Apart
    BY <2>1, AnyReturnIsApart, ReturnIsApart DEF Set, Remove
  <2>2. ASSUME NEW code, NEW image, NEW format_ok,
               \/ Clear(c, code) \/ RemoveLanguage(c, code) \/ UseCompiled(c, code, image, format_ok)
               \/ SetCurrent(c, code) \/ SetFallback(c, code) \/ SetCurrentBest(c, code)
        PROVE  Apart
    BY <2>2, AnyReturnIsApart DEF Clear, RemoveLanguage, UseCompiled, SetCurrent, SetFallback, SetCurrentBest
  <2>3. ASSUME NEW code, NEW k, NEW fn,
               Get(c, k) \/ Has(c, k) \/ Count(c, code) \/ ForEach(c, code, fn) \/ GetLanguages(c)
        PROVE  Apart
    BY <2>3, AnyReturnIsApart, ReturnIsApart DEF Get, Has, Count, ForEach, GetLanguages
  <2>4. CASE Create(c) \/ Destroy(c)
    BY <2>4, WholeIsApart DEF Create, Destroy
  <2> QED
    BY <1>2, <2>1, <2>2, <2>3, <2>4, BeginLoadIsApart, DetectIsApart DEF Call
<1>3. CASE InitDefault \/ FreeDefault
  BY <1>3, WholeIsApart, CatalogAssumption DEF InitDefault, FreeDefault
<1> QED
  BY <1>1, <1>2, <1>3, LoadingIsApart DEF Next

(* A call on one catalogue, or a line of its load, changes nothing of any  *)
(* other, but that detecting a locale reports in the default one, with any *)
(* number of catalogues (ci18n_create() and every *_in() function).        *)
THEOREM CallsStayApart == Spec => CatalogsApart
<1>1. Inv /\ [Next]_vars => [Apart]_vars
  BY StepIsApart
<1> QED
  BY <1>1, InvHolds, PTL DEF Spec, CatalogsApart, Apart
-----------------------------------------------------------------------------
(***************************************************************************)
(* That Catalog implements CatalogPromise, as long as nobody passes the    *)
(* catalogue's own array back to it.  What the slots show is StateOf (in   *)
(* Catalog): each change of the slots is shown to be the change of the     *)
(* languages by code that the promise allows, and each call to be one of   *)
(* its calls.                                                              *)
(***************************************************************************)

(***************************************************************************)
(* What slots show.                                                        *)
(***************************************************************************)
LEMMA KnownIsNamed == \A x, code : Known(x, code) <=> code \in Names(x)
BY DEF Known, Names

LEMMA SlotNamed ==
    ASSUME NEW x, Good(x), NEW i \in DOMAIN x.languages
    PROVE  LanguageOf(x, x.languages[i].code) = x.languages[i]
<1>1. Known(x, x.languages[i].code)
  BY DEF Known
<1>2. /\ IndexOf(x, x.languages[i].code) \in DOMAIN x.languages
      /\ x.languages[IndexOf(x, x.languages[i].code)].code = x.languages[i].code
  BY <1>1, IndexIsFound
<1>3. IndexOf(x, x.languages[i].code) = i
  BY <1>2 DEF Good, UniqueIn
<1> QED
  BY <1>3 DEF LanguageOf

LEMMA SlotsDecide ==
    ASSUME NEW x, NEW y, x.languages = y.languages
    PROVE  StoreOf(x) = StoreOf(y)
BY DEF StoreOf, Names, LanguageOf, IndexOf

(* A store is what a function that has the same codes shows of each slot.  *)
LEMMA StoreIs ==
    ASSUME NEW x, Good(x), NEW S, NEW f, f = [code \in S |-> f[code]], S = Names(x),
           \A i \in DOMAIN x.languages : f[x.languages[i].code] = Offered(x.languages[i])
    PROVE  StoreOf(x) = f
<1>1. ASSUME NEW code \in S
      PROVE  f[code] = Offered(LanguageOf(x, code))
  <2>1. PICK i \in DOMAIN x.languages : x.languages[i].code = code
    BY DEF Names
  <2> QED
    BY <2>1, SlotNamed
<1> QED
  BY <1>1 DEF StoreOf

LEMMA CreatingShows ==
    ASSUME NEW x, Good(x), NEW code \in AnyCode, ~ NoSlot(x, code)
    PROVE  /\ StoreOf(WithLanguage(x, code)) = Promise!Opened(StoreOf(x), code)
           /\ StateOf(WithLanguage(x, code)) = [StateOf(x) EXCEPT !.store = Promise!Opened(@, code)]
<1> DEFINE y == WithLanguage(x, code)
           new == [map |-> EmptyMap, fixed |-> FALSE]
           f == Promise!With(StoreOf(x), code, new)
<1>0. DOMAIN StoreOf(x) = Names(x)
  BY DEF StoreOf
<1>1. CASE Known(x, code)
  <2>1. y = x /\ Promise!Opened(StoreOf(x), code) = StoreOf(x)
    BY <1>0, <1>1, KnownIsNamed DEF WithLanguage, Promise!Opened
  <2> QED
    BY <2>1 DEF StateOf
<1>2. CASE ~ Known(x, code)
  <2>1. Good(y)
    BY CreatingKeepsGood
  <2>2. y = [x EXCEPT !.languages = Append(@, Language(code))]
    BY <1>2 DEF WithLanguage
  <2>3. x.languages \in Seq(SlotLike) /\ Language(code) \in SlotLike /\ x \in ContextLike
    BY EmptyMapIsAMap DEF Good, ContextLike, Language, SlotLike
  <2>4. /\ y.languages = Append(x.languages, Language(code))
        /\ y.current = x.current /\ y.fallback = x.fallback /\ y.initialized = x.initialized
    BY <2>2, <2>3 DEF ContextLike
  <2>5. /\ DOMAIN y.languages = 1 .. Len(x.languages) + 1
        /\ DOMAIN x.languages = 1 .. Len(x.languages) /\ Len(x.languages) \in Nat
        /\ y.languages[Len(x.languages) + 1] = Language(code)
        /\ \A i \in DOMAIN x.languages : y.languages[i] = x.languages[i]
    BY <2>3, <2>4
  <2>6. Offered(Language(code)) = new /\ Language(code).code = code
    BY DEF Offered, Language
  <2>7. Names(y) = Names(x) \cup {code}
    <3>1. Names(y) \subseteq Names(x) \cup {code}
      BY <2>5, <2>6 DEF Names
    <3>2. code \in Names(y)
      <4>1. Len(x.languages) + 1 \in DOMAIN y.languages
        BY <2>5
      <4> QED
        BY <2>5, <2>6, <4>1 DEF Names
    <3>3. Names(x) \subseteq Names(y)
      BY <2>5 DEF Names
    <3> QED
      BY <3>1, <3>2, <3>3
  <2>8. /\ f = [z \in Names(y) |-> f[z]]
        /\ \A z \in Names(y) : f[z] = IF z = code THEN new ELSE StoreOf(x)[z]
    BY <1>0, <2>7 DEF Promise!With
  <2>9. ASSUME NEW i \in DOMAIN y.languages
        PROVE  f[y.languages[i].code] = Offered(y.languages[i])
    <3>1. y.languages[i].code \in Names(y)
      BY DEF Names
    <3>2. CASE i = Len(x.languages) + 1
      BY <2>5, <2>6, <2>8, <3>1, <3>2
    <3>3. CASE i # Len(x.languages) + 1
      <4>1. i \in DOMAIN x.languages /\ y.languages[i] = x.languages[i]
        BY <2>5, <3>3
      <4>2. x.languages[i].code \in Names(x) /\ x.languages[i].code # code
        BY <1>2, <4>1 DEF Names, Known
      <4>3. StoreOf(x)[x.languages[i].code] = Offered(x.languages[i])
        BY <4>1, <4>2, SlotNamed DEF StoreOf
      <4> QED
        BY <2>8, <3>1, <4>1, <4>2, <4>3
    <3> QED
      BY <3>2, <3>3
  <2>10. StoreOf(y) = f
    <3> HIDE DEF y, f
    <3> QED
      BY <2>1, <2>8, <2>9, StoreIs
  <2>11. Promise!Opened(StoreOf(x), code) = f
    BY <1>0, <1>2, KnownIsNamed DEF Promise!Opened, Promise!EmptyMap, EmptyMap
  <2> HIDE DEF y, f
  <2> QED
    BY <2>4, <2>10, <2>11 DEF StateOf, y
<1> QED
  BY <1>1, <1>2

LEMMA ReplacingShows ==
    ASSUME NEW x, Good(x), NEW i \in DOMAIN x.languages, NEW slot \in SlotLike,
           slot.code = x.languages[i].code, slot.compiled => slot.map \in Images
    PROVE  StateOf([x EXCEPT !.languages[i] = slot])
             = [StateOf(x) EXCEPT !.store[slot.code] = Offered(slot)]
<1> DEFINE y == [x EXCEPT !.languages[i] = slot]
           f == [StoreOf(x) EXCEPT ![slot.code] = Offered(slot)]
<1>1. Good(y)
  BY ReplacingKeepsGood
<1>2. /\ y.languages = [x.languages EXCEPT ![i] = slot]
      /\ y.current = x.current /\ y.fallback = x.fallback /\ y.initialized = x.initialized
  BY DEF Good, ContextLike
<1>3. /\ DOMAIN y.languages = DOMAIN x.languages
      /\ \A j \in DOMAIN x.languages : y.languages[j] = IF j = i THEN slot ELSE x.languages[j]
  BY <1>2 DEF Good, ContextLike
<1>4. Names(y) = Names(x)
  BY <1>3 DEF Names
<1>5. DOMAIN StoreOf(x) = Names(x) /\ slot.code \in Names(x)
  BY DEF StoreOf, Names
<1>6. f = [z \in Names(y) |-> f[z]] /\ \A z \in Names(y) : f[z] = IF z = slot.code THEN Offered(slot) ELSE StoreOf(x)[z]
  BY <1>4, <1>5
<1>7. ASSUME NEW j \in DOMAIN y.languages
      PROVE  f[y.languages[j].code] = Offered(y.languages[j])
  <2>1. y.languages[j].code \in Names(y) /\ j \in DOMAIN x.languages
    BY <1>3 DEF Names
  <2>2. CASE j = i
    BY <1>3, <1>6, <2>1, <2>2
  <2>3. CASE j # i
    <3>1. y.languages[j] = x.languages[j] /\ x.languages[j].code # slot.code
      BY <1>3, <2>1, <2>3 DEF Good, UniqueIn
    <3>2. StoreOf(x)[x.languages[j].code] = Offered(x.languages[j])
      BY <2>1, SlotNamed DEF StoreOf, Names
    <3> QED
      BY <1>6, <2>1, <3>1, <3>2
  <2> QED
    BY <2>2, <2>3
<1>8. StoreOf(y) = f
  <2> HIDE DEF y, f
  <2> QED
    BY <1>1, <1>6, <1>7, StoreIs
<1> QED
  BY <1>2, <1>8 DEF StateOf

LEMMA StoringShows ==
    ASSUME NEW x, Good(x), NEW code, Known(x, code), ~ LanguageOf(x, code).compiled, NEW map \in Maps
    PROVE  StateOf(WithMap(x, code, map)) = [StateOf(x) EXCEPT !.store[code].map = map]
<1> DEFINE i == IndexOf(x, code)
           slot == [x.languages[i] EXCEPT !.map = map]
<1>1. i \in DOMAIN x.languages /\ x.languages[i].code = code
  BY IndexIsFound
<1>2. x.languages[i] \in SlotLike
  BY <1>1 DEF Good, ContextLike
<1>3. /\ slot \in SlotLike /\ slot.code = code /\ ~ slot.compiled /\ slot.map = map
      /\ slot.compiled = x.languages[i].compiled
  BY <1>1, <1>2 DEF SlotLike, LanguageOf
<1>4. WithMap(x, code, map) = [x EXCEPT !.languages[i] = slot]
  BY DEF WithMap
<1>5. StateOf([x EXCEPT !.languages[i] = slot]) = [StateOf(x) EXCEPT !.store[code] = Offered(slot)]
  <2> HIDE DEF i, slot
  <2> QED
    BY <1>1, <1>3, ReplacingShows
<1>6. code \in Names(x) /\ StoreOf(x)[code] = Offered(x.languages[i])
  BY KnownIsNamed DEF StoreOf, LanguageOf
<1>7. Offered(slot) = [StoreOf(x)[code] EXCEPT !.map = map]
  BY <1>3, <1>6 DEF Offered
<1>8. StateOf(x).store = StoreOf(x) /\ DOMAIN StoreOf(x) = Names(x)
  BY DEF StateOf, StoreOf
<1> HIDE DEF i, slot
<1> QED
  BY <1>4, <1>5, <1>7, <1>8

(* The last language in the hole, or in its old slot, is found by its code.*)
LEMMA DroppingShows ==
    ASSUME NEW x, Good(x), NEW hole \in DOMAIN x.languages
    PROVE  StateOf([x EXCEPT !.languages = WithoutSlot(@, hole)])
             = [StateOf(x) EXCEPT !.store = Promise!Without(@, x.languages[hole].code)]
<1> DEFINE ls == x.languages
           n == Len(x.languages)
           gone == x.languages[hole].code
           rest == WithoutSlot(x.languages, hole)
           from(j) == IF j = hole THEN n ELSE j
           y == [x EXCEPT !.languages = WithoutSlot(@, hole)]
           f == Promise!Without(StoreOf(x), gone)
<1>1. ls \in Seq(SlotLike) /\ n \in Nat /\ DOMAIN ls = 1 .. n /\ n # 0
  BY DEF Good, ContextLike
<1>2. \A j \in 1 .. (n - 1) : from(j) \in DOMAIN ls /\ from(j) # hole /\ rest[j] = ls[from(j)]
  BY <1>1 DEF WithoutSlot
<1>3. DOMAIN rest = 1 .. (n - 1)
  BY <1>1 DEF WithoutSlot
<1>4. /\ y.languages = rest
      /\ y.current = x.current /\ y.fallback = x.fallback /\ y.initialized = x.initialized
  BY DEF Good, ContextLike
<1>5. Good(y)
  BY DroppingKeepsGood
<1>6. Names(y) = Names(x) \ {gone}
  <2>1. ASSUME NEW j \in DOMAIN rest
        PROVE  rest[j].code \in Names(x) \ {gone}
    <3>1. from(j) \in DOMAIN ls /\ from(j) # hole /\ rest[j] = ls[from(j)]
      BY <1>2, <1>3
    <3>2. ls[from(j)].code # gone
      BY <3>1 DEF Good, UniqueIn
    <3> HIDE DEF from
    <3> QED
      BY <3>1, <3>2 DEF Names
  <2>2. ASSUME NEW i \in DOMAIN ls, ls[i].code # gone
        PROVE  \E j \in DOMAIN rest : rest[j] = ls[i]
    <3>1. CASE i = n
      BY <1>1, <1>2, <1>3, <2>2, <3>1
    <3>2. CASE i # n
      BY <1>1, <1>2, <1>3, <2>2, <3>2
    <3> QED
      BY <3>1, <3>2
  <2> HIDE DEF rest
  <2> QED
    BY <1>4, <2>1, <2>2 DEF Names
<1>7. f = [z \in Names(y) |-> f[z]] /\ \A z \in Names(y) : f[z] = StoreOf(x)[z]
  BY <1>6 DEF Promise!Without, StoreOf
<1>8. ASSUME NEW j \in DOMAIN y.languages
      PROVE  f[y.languages[j].code] = Offered(y.languages[j])
  <2>1. from(j) \in DOMAIN ls /\ y.languages[j] = ls[from(j)]
    BY <1>2, <1>3, <1>4
  <2>2. y.languages[j].code \in Names(y)
    BY DEF Names
  <2> HIDE DEF from, y, f
  <2>3. StoreOf(x)[ls[from(j)].code] = Offered(ls[from(j)])
    BY <2>1, SlotNamed DEF StoreOf, Names
  <2> QED
    BY <1>7, <2>1, <2>2, <2>3
<1>9. StoreOf(y) = f
  <2> HIDE DEF y, f
  <2> QED
    BY <1>5, <1>7, <1>8, StoreIs
<1> QED
  BY <1>4, <1>9 DEF StateOf

LEMMA DeselectingShows ==
    ASSUME NEW x, Good(x), NEW code, code # TheCurrent
    PROVE  StateOf(Deselect(x, code)) = Promise!Deselected(StateOf(x), code)
<1> DEFINE y == IF x.current = code THEN [x EXCEPT !.current = Blank] ELSE x
           z == IF y.fallback = code THEN [y EXCEPT !.fallback = Blank] ELSE y
<1>1. z = Deselect(x, code)
  BY DEF Deselect, Str
<1>2. /\ y \in ContextLike /\ y.languages = x.languages /\ y.fallback = x.fallback
      /\ y.initialized = x.initialized
      /\ y.current = IF x.current = code THEN Blank ELSE x.current
  BY DEF Good, ContextLike, AnyCode
<1>3. /\ z.languages = x.languages /\ z.current = y.current /\ z.initialized = x.initialized
      /\ z.fallback = IF x.fallback = code THEN Blank ELSE x.fallback
  <2> HIDE DEF y
  <2> QED
    BY <1>2 DEF ContextLike
<1>4. StoreOf(z) = StoreOf(x)
  BY <1>3, SlotsDecide
<1> DEFINE s == [ready |-> x.initialized, store |-> StoreOf(x),
                 current |-> IF x.current = code THEN Blank ELSE x.current,
                 fallback |-> IF x.fallback = code THEN Blank ELSE x.fallback]
<1>5. Promise!Deselected(StateOf(x), code) = s
  <2> DEFINE state == [ready |-> x.initialized, store |-> StoreOf(x),
                       current |-> x.current, fallback |-> x.fallback]
             half == [state EXCEPT !.current = IF x.current = code THEN Blank ELSE x.current]
  <2>1. StateOf(x) = state /\ state.current = x.current /\ state.fallback = x.fallback
    BY DEF StateOf
  <2>2. half.fallback = x.fallback
    OBVIOUS
  <2>3. Promise!Deselected(state, code)
          = [half EXCEPT !.fallback = IF x.fallback = code THEN Blank ELSE x.fallback]
    BY <2>1, <2>2 DEF Promise!Deselected
  <2> QED
    BY <2>1, <2>3
<1> HIDE DEF y, z
<1>6. StateOf(z) = s
  BY <1>2, <1>3, <1>4 DEF StateOf
<1> QED
  BY <1>1, <1>5, <1>6

(* Neither the error nor the statistics show. *)
LEMMA DiagnosticsDoNotShow ==
    ASSUME NEW x, Good(x), NEW value
    PROVE  /\ StateOf([x EXCEPT !.last_error = value]) = StateOf(x)
           /\ StateOf([x EXCEPT !.load_stats = value]) = StateOf(x)
<1>1. /\ [x EXCEPT !.last_error = value].languages = x.languages
      /\ [x EXCEPT !.load_stats = value].languages = x.languages
  BY DEF Good, ContextLike
<1>2. /\ StoreOf([x EXCEPT !.last_error = value]) = StoreOf(x)
      /\ StoreOf([x EXCEPT !.load_stats = value]) = StoreOf(x)
  BY <1>1, SlotsDecide
<1> QED
  BY <1>2 DEF StateOf, Good, ContextLike

LEMMA LookupShows ==
    ASSUME NEW x, Good(x), Sound(x), NEW k
    PROVE  Lookup(x, k) = Promise!Lookup(StateOf(x), k)
<1>1. \A code : Holds(x, code, k) <=> code \in DOMAIN StoreOf(x) /\ k \in DOMAIN StoreOf(x)[code].map
  BY KnownIsNamed DEF Holds, StoreOf, Offered
<1>2. \A code \in DOMAIN StoreOf(x) : LanguageOf(x, code).map = StoreOf(x)[code].map /\ code # Blank
  BY CatalogAssumption DEF StoreOf, Offered, Sound, Names
<1>3. /\ StateOf(x).store = StoreOf(x)
      /\ StateOf(x).current = x.current /\ StateOf(x).fallback = x.fallback
  BY DEF StateOf
<1> QED
  BY <1>1, <1>2, <1>3 DEF Lookup, Promise!Lookup

(***************************************************************************)
(* A step of one catalogue.                                                *)
(***************************************************************************)
LEMMA OneShows ==
    ASSUME Inv, NEW c \in Catalogs, NEW y, ctx' = [ctx EXCEPT ![c] = y]
    PROVE  promised' = [promised EXCEPT ![c] = StateOf(y)]
BY DEF Inv, promised

LEMMA NothingShows ==
    ASSUME Inv, NEW c \in Catalogs, NEW y, ctx' = [ctx EXCEPT ![c] = y], StateOf(y) = StateOf(ctx[c])
    PROVE  promised' = promised
BY OneShows DEF promised

(* A call that returns what its catalogue has become. *)
LEMMA ReturnShows ==
    ASSUME Inv, NEW c \in Catalogs, NEW op, NEW args, NEW x, Good(x), NEW error, NEW ok, NEW value,
           Return(c, op, args, x, error, ok, value)
    PROVE  /\ promised' = [promised EXCEPT ![c] = StateOf(x)]
           /\ Promise!Returned(c, op, args.code, args.key, ok, value)
           /\ last'.op = op /\ last'.code = args.code /\ last'.key = args.key
           /\ loading = NoLoad /\ UNCHANGED loading
<1>1. StateOf([x EXCEPT !.last_error = error]) = StateOf(x)
  BY DiagnosticsDoNotShow
<1> QED
  BY <1>1, OneShows DEF Return, Leave, Callable, Promise!Returned

LEMMA SucceedShows ==
    ASSUME Inv, NEW c \in Catalogs, NEW op, NEW args, NEW x, Good(x), Succeed(c, op, args, x)
    PROVE  /\ promised' = [promised EXCEPT ![c] = StateOf(x)]
           /\ Promise!Returned(c, op, args.code, args.key, TRUE, NoText)
           /\ last'.op = op /\ last'.code = args.code /\ last'.key = args.key
           /\ loading = NoLoad /\ UNCHANGED loading
BY ReturnShows DEF Succeed

Failing == Promise!Selectors \cup Promise!Writers \cup {"get_languages", "create"}

LEMMA FailIsPromised ==
    ASSUME Inv, NEW c \in Catalogs, NEW op \in Failing, NEW args, NEW error, Fail(c, op, args, error)
    PROVE  Promise!Next
<1>1. /\ promised' = [promised EXCEPT ![c] = StateOf(ctx[c])]
      /\ Promise!Returned(c, op, args.code, args.key, FALSE, NoText)
      /\ last'.op = op /\ last'.code = args.code /\ last'.key = args.key
      /\ loading = NoLoad /\ UNCHANGED loading
  BY ReturnShows, ContextsAreContexts DEF Fail
<1>2. promised' = promised
  BY <1>1 DEF promised
<1>3. Promise!AnyFailure(c)
  BY <1>1, <1>2 DEF Promise!AnyFailure, Promise!Fail, Failing
<1> QED
  BY <1>1, <1>3 DEF Promise!Next

LEMMA RefusalIsPromised ==
    ASSUME Inv, NEW c \in Catalogs, NEW op \in Failing, NEW args, NEW needed,
           \/ Refuse(c, op, args, needed)
           \/ RefuseToCreate(c, op, args, needed)
           \/ RefuseUnknown(c, op, args, needed)
    PROVE  Promise!Next
BY FailIsPromised DEF Refuse, RefuseToCreate, RefuseUnknown

(* A call that fails once it has created the language. *)
LEMMA CreatedOnlyIsPromised ==
    ASSUME Inv, NEW c \in Catalogs, NEW op \in {"set", "load"}, NEW args, NEW error,
           args.code \in AnyCode, ~ NoSlot(ctx[c], args.code), ctx[c].initialized,
           Return(c, op, args, WithLanguage(ctx[c], args.code), error, FALSE, NoText)
    PROVE  Promise!Next
<1> DEFINE x == WithLanguage(ctx[c], args.code)
<1>1. /\ Good(x)
      /\ StateOf(x) = [StateOf(ctx[c]) EXCEPT !.store = Promise!Opened(@, args.code)]
  BY ContextsAreContexts, CreatingKeepsGood, CreatingShows
<1>2. /\ promised' = [promised EXCEPT ![c] = StateOf(x)]
      /\ Promise!Returned(c, op, args.code, args.key, FALSE, NoText)
      /\ last'.op = op /\ last'.code = args.code /\ last'.key = args.key
      /\ loading = NoLoad /\ UNCHANGED loading
  BY <1>1, ReturnShows
<1>3. promised[c] = StateOf(ctx[c]) /\ promised[c].ready
  BY DEF promised, StateOf
<1>4. promised' = [promised EXCEPT ![c].store = Promise!Opened(@, args.code)]
  BY <1>1, <1>2, <1>3
<1>5. Promise!AnyFailure(c)
  BY <1>2, <1>3, <1>4 DEF Promise!AnyFailure, Promise!Fail, Promise!Writers
<1> QED
  BY <1>2, <1>5 DEF Promise!Next

LEMMA PromisedIs ==
    ASSUME Inv, NEW c \in Catalogs
    PROVE  /\ promised[c] = StateOf(ctx[c])
           /\ promised[c].ready = ctx[c].initialized
           /\ promised[c].store = StoreOf(ctx[c]) /\ DOMAIN StoreOf(ctx[c]) = Names(ctx[c])
           /\ promised[c].current = ctx[c].current /\ promised[c].fallback = ctx[c].fallback
           /\ DOMAIN promised = Catalogs
BY DEF promised, StateOf, StoreOf

LEMMA WritableShows ==
    ASSUME Inv, NEW c \in Catalogs, NEW code, ~ ReadOnly(ctx[c], code)
    PROVE  Promise!Writable(c, code)
<1>1. CASE ~ Known(ctx[c], code)
  BY <1>1, PromisedIs, KnownIsNamed DEF Promise!Writable
<1>2. CASE Known(ctx[c], code)
  <2>1. StoreOf(ctx[c])[code] = Offered(LanguageOf(ctx[c], code))
    BY <1>2, KnownIsNamed DEF StoreOf
  <2> QED
    BY <1>2, <2>1, PromisedIs DEF Promise!Writable, ReadOnly, Offered
<1> QED
  BY <1>1, <1>2

(* A call that changes the languages or the selection is the call of the   *)
(* promise that changes them so.                                           *)
LEMMA CodesPlain ==
    ASSUME Inv, AllSound, Plain, NEW c \in Catalogs, NEW code \in CodeArgs
    PROVE  /\ Str(ctx[c], code) = code /\ code # TheCurrent
           /\ Known(ctx[c], code) => code \in Codes
<1>1. Str(ctx[c], code) = code /\ code # TheCurrent
  BY DEF Plain, Str
<1> QED
  BY <1>1, ContextsAreContexts DEF Sound, Known

(***************************************************************************)
(* The calls.                                                              *)
(***************************************************************************)
LEMMA EntryShows ==
    ASSUME NEW z, Good(z), NEW code \in AnyCode, ~ NoSlot(z, code), ~ ReadOnly(z, code),
           NEW k \in KeyArgs, NEW v \in Values
    PROVE  LET x == WithLanguage(z, code)
               y == WithMap(x, code, Put(LanguageOf(x, code).map, Clamped[k], v))
           IN  /\ Good(y)
               /\ StateOf(y) = [StateOf(z) EXCEPT !.store = Promise!Stored(@, code, k, v)]
<1> DEFINE x == WithLanguage(z, code)
           map == LanguageOf(x, code).map
           y == WithMap(x, code, Put(map, Clamped[k], v))
           opened == Promise!Opened(StoreOf(z), code)
<1>1. Good(x) /\ Known(x, code) /\ ~ LanguageOf(x, code).compiled
  BY CreatingKeepsGood
<1>2. StoreOf(x) = opened /\ StateOf(x) = [StateOf(z) EXCEPT !.store = Promise!Opened(@, code)]
  BY CreatingShows
<1>3. Put(map, Clamped[k], v) \in Maps
  <2>1. Clamped[k] \in Keys /\ map \in Maps
    BY <1>1, LanguagesAreSlots DEF Keys
  <2> QED
    BY <2>1, PutIsAMap
<1>4. Good(y) /\ StateOf(y) = [StateOf(x) EXCEPT !.store[code].map = Put(map, Clamped[k], v)]
  <2> HIDE DEF x, map
  <2> QED
    BY <1>1, <1>3, StoringKeepsGood, StoringShows
<1>5. code \in DOMAIN opened /\ opened[code].map = map
  BY <1>1, <1>2, KnownIsNamed DEF StoreOf, Offered
<1>6. [opened EXCEPT ![code].map = Put(map, Clamped[k], v)] = Promise!Stored(StoreOf(z), code, k, v)
  <2> HIDE DEF opened, map
  <2>1. Promise!With(map, Clamped[k], v) = Put(map, Clamped[k], v)
    BY DEF Promise!With, Put
  <2>2. Promise!Stored(StoreOf(z), code, k, v)
          = Promise!With(opened, code, [opened[code] EXCEPT !.map = Put(map, Clamped[k], v)])
    BY <1>5, <2>1 DEF Promise!Stored, opened
  <2>3. opened = [name \in DOMAIN opened |-> opened[name]]
    BY <1>2 DEF StoreOf
  <2> QED
    BY <1>5, <2>2, <2>3 DEF Promise!With
<1>7. StateOf(z).store = StoreOf(z) /\ StateOf(x).store = opened
  BY <1>2 DEF StateOf
<1>8. StateOf(y) = [StateOf(z) EXCEPT !.store = Promise!Stored(@, code, k, v)]
  <2> HIDE DEF x, y, opened, map
  <2>1. StateOf(y) = [StateOf(x) EXCEPT !.store = [opened EXCEPT ![code].map = Put(map, Clamped[k], v)]]
    BY <1>4, <1>7
  <2> QED
    BY <1>2, <1>6, <1>7, <2>1 DEF StateOf
<1> QED
  BY <1>4, <1>8

LEMMA SetIsPromised ==
    ASSUME Inv, AllSound, Plain, NEW c \in Catalogs, NEW code \in CodeArgs, NEW k \in KeyArgs \cup Nulls,
           NEW v \in Values \cup Nulls, Set(c, code, k, v)
    PROVE  Promise!Next
<1> DEFINE args == Args(code, k)
           needed == {code, k, v}
           x == WithLanguage(ctx[c], code)
           map == LanguageOf(x, code).map
           y == WithMap(x, code, Put(map, Clamped[k], v))
<1>0. /\ Str(ctx[c], code) = code /\ args.code = code /\ args.key = k
      /\ "set" \in Failing
  BY CodesPlain DEF Args, Failing, Promise!Writers
<1>1. CASE RefuseToCreate(c, "set", args, needed)
  BY <1>0, <1>1, RefusalIsPromised
<1>2. CASE \E error : Fail(c, "set", args, error)
  BY <1>0, <1>2, FailIsPromised
<1>3. ASSUME Creatable(c, args, needed), ~ NoSlot(ctx[c], code), ~ ReadOnly(ctx[c], code)
      PROVE  ctx[c].initialized /\ code \in Codes /\ code \in AnyCode /\ k \in KeyArgs /\ v \in Values
  BY <1>0, <1>3, CodesDenoted, CatalogAssumption DEF Creatable, Ready, AnyCode
<1>4. CASE /\ Creatable(c, args, needed) /\ ~ NoSlot(ctx[c], code) /\ ~ ReadOnly(ctx[c], code)
           /\ Return(c, "set", args, y, "OK", TRUE, v)
  <2>1. Good(y) /\ StateOf(y) = [StateOf(ctx[c]) EXCEPT !.store = Promise!Stored(@, code, k, v)]
    BY <1>3, <1>4, ContextsAreContexts, EntryShows
  <2> HIDE DEF y, args
  <2>2. /\ promised' = [promised EXCEPT ![c] = StateOf(y)]
        /\ Promise!Returned(c, "set", code, k, TRUE, v)
        /\ last'.op = "set" /\ loading = NoLoad /\ UNCHANGED loading
    BY <1>0, <1>4, <2>1, ReturnShows
  <2>3. Promise!Set(c, code, k, v)
    BY <1>3, <1>4, <2>1, <2>2, PromisedIs, WritableShows DEF Promise!Set
  <2> QED
    BY <1>3, <1>4, <2>2, <2>3 DEF Promise!Next
<1>5. CASE /\ Creatable(c, args, needed) /\ ~ NoSlot(ctx[c], code) /\ ~ ReadOnly(ctx[c], code)
           /\ \E error : Return(c, "set", args, x, error, FALSE, NoText)
  BY <1>0, <1>3, <1>5, CreatedOnlyIsPromised
<1> QED
  BY <1>0, <1>1, <1>2, <1>4, <1>5 DEF Set

LEMMA RemoveIsPromised ==
    ASSUME Inv, AllSound, Plain, NEW c \in Catalogs, NEW code \in CodeArgs, NEW k \in KeyArgs \cup Nulls,
           Remove(c, code, k)
    PROVE  Promise!Next
<1> DEFINE args == Args(code, k)
           map == LanguageOf(ctx[c], code).map
           x == WithMap(ctx[c], code, Without(map, k))
<1>0. /\ Str(ctx[c], code) = code /\ args.code = code /\ args.key = k
      /\ "remove" \in Failing
  BY CodesPlain DEF Args, Failing, Promise!Writers
<1>1. CASE RefuseUnknown(c, "remove", args, {code, k})
  BY <1>0, <1>1, RefusalIsPromised
<1>2. CASE \E error : Fail(c, "remove", args, error)
  BY <1>0, <1>2, FailIsPromised
<1>3. CASE /\ Ready(c, {code, k}) /\ Known(ctx[c], code) /\ ~ ReadOnly(ctx[c], code) /\ k \in DOMAIN map
           /\ Succeed(c, "remove", args, x)
  <2>1. ctx[c].initialized /\ k \in KeyArgs /\ code \in Codes /\ ~ LanguageOf(ctx[c], code).compiled
    BY <1>3, CodesPlain, CatalogAssumption DEF Ready, ReadOnly
  <2>2. map \in Maps /\ Without(map, k) \in Maps
    BY <1>3, ContextsAreContexts, LanguagesAreSlots, WithoutIsAMap
  <2>3. Good(x) /\ StateOf(x) = [StateOf(ctx[c]) EXCEPT !.store[code].map = Without(map, k)]
    <3> HIDE DEF map
    <3> QED
      BY <1>3, <2>1, <2>2, ContextsAreContexts, StoringKeepsGood, StoringShows
  <2>4. code \in Names(ctx[c]) /\ StoreOf(ctx[c])[code].map = map
    BY <1>3, KnownIsNamed DEF StoreOf, Offered
  <2> HIDE DEF x, args, map
  <2>5. /\ promised' = [promised EXCEPT ![c] = StateOf(x)]
        /\ Promise!Returned(c, "remove", code, k, TRUE, NoText)
        /\ last'.op = "remove" /\ loading = NoLoad /\ UNCHANGED loading
    <3>1. Succeed(c, "remove", args, x) /\ Good(x)
      BY <1>3, <2>3
    <3> QED
      BY <1>0, <3>1, SucceedShows
  <2>6. promised' = [promised EXCEPT ![c].store[code].map = Promise!Without(@, k)]
    BY <2>3, <2>4, <2>5, PromisedIs DEF Promise!Without, Without
  <2>7. Promise!Remove(c, code, k)
    BY <1>3, <2>1, <2>4, <2>5, <2>6, PromisedIs, WritableShows DEF Promise!Remove, map
  <2> QED
    BY <2>1, <2>5, <2>7 DEF Promise!Next
<1> QED
  BY <1>0, <1>1, <1>2, <1>3 DEF Remove, Present

LEMMA ClearIsPromised ==
    ASSUME Inv, AllSound, Plain, NEW c \in Catalogs, NEW code \in CodeArgs, Clear(c, code)
    PROVE  Promise!Next
<1> DEFINE args == Args(code, NoText)
           y == Deselect(ctx[c], code)
           x == WithMap(y, code, EmptyMap)
<1>0. /\ Str(ctx[c], code) = code /\ code # TheCurrent /\ args.code = code /\ args.key = NoText
      /\ "clear" \in Failing
  BY CodesPlain DEF Args, Failing, Promise!Writers
<1>1. CASE RefuseUnknown(c, "clear", args, {code})
  BY <1>0, <1>1, RefusalIsPromised
<1>2. CASE \E error : Fail(c, "clear", args, error)
  BY <1>0, <1>2, FailIsPromised
<1>3. CASE /\ Ready(c, {code}) /\ Known(ctx[c], code) /\ ~ ReadOnly(ctx[c], code)
           /\ Succeed(c, "clear", args, x)
  <2>1. ctx[c].initialized /\ code \in Codes
    BY <1>3, CodesPlain DEF Ready
  <2>2. /\ Good(y) /\ y.languages = ctx[c].languages
        /\ StateOf(y) = Promise!Deselected(StateOf(ctx[c]), code)
    BY <1>0, ContextsAreContexts, DeselectingKeepsGood, DeselectingShows
  <2> HIDE DEF y
  <2>3. Known(y, code) /\ ~ LanguageOf(y, code).compiled
    BY <1>3, <2>2 DEF ReadOnly, Known, LanguageOf, IndexOf
  <2>4. Good(x) /\ StateOf(x) = [StateOf(y) EXCEPT !.store[code].map = EmptyMap]
    BY <2>2, <2>3, EmptyMapIsAMap, StoringKeepsGood, StoringShows
  <2> HIDE DEF x, args
  <2>5. /\ promised' = [promised EXCEPT ![c] = StateOf(x)]
        /\ Promise!Returned(c, "clear", code, NoText, TRUE, NoText)
        /\ last'.op = "clear" /\ loading = NoLoad /\ UNCHANGED loading
    BY <1>0, <1>3, <2>4, SucceedShows
  <2>6. Promise!EmptyMap = EmptyMap
    BY DEF Promise!EmptyMap, EmptyMap
  <2>7. Promise!Clear(c, code)
    BY <1>3, <2>1, <2>2, <2>4, <2>5, <2>6, PromisedIs, WritableShows, KnownIsNamed DEF Promise!Clear
  <2> QED
    BY <2>1, <2>5, <2>7 DEF Promise!Next
<1> QED
  BY <1>0, <1>1, <1>2, <1>3 DEF Clear, Present

LEMMA RemoveLanguageIsPromised ==
    ASSUME Inv, AllSound, Plain, NEW c \in Catalogs, NEW code \in CodeArgs, RemoveLanguage(c, code)
    PROVE  Promise!Next
<1> DEFINE args == Args(code, NoText)
           hole == IndexOf(ctx[c], code)
           y == Deselect(ctx[c], code)
           x == [y EXCEPT !.languages = WithoutSlot(@, hole)]
<1>0. /\ Str(ctx[c], code) = code /\ code # TheCurrent /\ args.code = code /\ args.key = NoText
      /\ "remove_language" \in Failing
  BY CodesPlain DEF Args, Failing, Promise!Writers
<1>1. CASE RefuseUnknown(c, "remove_language", args, {code})
  BY <1>0, <1>1, RefusalIsPromised
<1>2. CASE Ready(c, {code}) /\ Known(ctx[c], code) /\ Succeed(c, "remove_language", args, x)
  <2>1. ctx[c].initialized /\ code \in Codes
    BY <1>2, CodesPlain DEF Ready
  <2>2. /\ Good(y) /\ y.languages = ctx[c].languages
        /\ StateOf(y) = Promise!Deselected(StateOf(ctx[c]), code)
    BY <1>0, ContextsAreContexts, DeselectingKeepsGood, DeselectingShows
  <2>3. hole \in DOMAIN y.languages /\ y.languages[hole].code = code
    BY <1>2, <2>2, ContextsAreContexts, IndexIsFound
  <2> HIDE DEF y, hole
  <2>4. Good(x) /\ StateOf(x) = [StateOf(y) EXCEPT !.store = Promise!Without(@, code)]
    BY <2>2, <2>3, DroppingKeepsGood, DroppingShows
  <2> HIDE DEF x, args
  <2>5. /\ promised' = [promised EXCEPT ![c] = StateOf(x)]
        /\ Promise!Returned(c, "remove_language", code, NoText, TRUE, NoText)
        /\ last'.op = "remove_language" /\ loading = NoLoad /\ UNCHANGED loading
    BY <1>0, <1>2, <2>4, SucceedShows
  <2>6. promised' = [promised EXCEPT ![c] = [Promise!Deselected(@, code) EXCEPT
                                              !.store = Promise!Without(promised[c].store, code)]]
    <3>1. Promise!Deselected(promised[c], code) = StateOf(y)
      BY <2>2, PromisedIs
    <3>2. StateOf(y).store = promised[c].store
      BY <2>2, PromisedIs, SlotsDecide DEF StateOf
    <3> QED
      BY <2>4, <2>5, <3>1, <3>2
  <2>7. code \in DOMAIN promised[c].store
    BY <1>2, PromisedIs, KnownIsNamed
  <2>8. Promise!RemoveLanguage(c, code)
    BY <2>1, <2>5, <2>6, <2>7, PromisedIs DEF Promise!RemoveLanguage
  <2> QED
    BY <2>1, <2>5, <2>8 DEF Promise!Next
<1> QED
  BY <1>0, <1>1, <1>2 DEF RemoveLanguage, Present

LEMMA UseCompiledIsPromised ==
    ASSUME Inv, AllSound, Plain, NEW c \in Catalogs, NEW code \in CodeArgs, NEW image \in Images \cup Nulls,
           NEW format_ok \in BOOLEAN, UseCompiled(c, code, image, format_ok)
    PROVE  Promise!Next
<1> DEFINE args == Args(code, NoText)
           x == WithLanguage(ctx[c], code)
           slot == [code |-> code, compiled |-> TRUE, map |-> image]
           i == IndexOf(x, code)
           y == [x EXCEPT !.languages[i] = slot]
           language == [map |-> image, fixed |-> TRUE]
           opened == Promise!Opened(StoreOf(ctx[c]), code)
<1>0. /\ Str(ctx[c], code) = code /\ args.code = code /\ args.key = NoText
      /\ "use_compiled" \in Failing
  BY CodesPlain DEF Args, Failing, Promise!Writers
<1>1. CASE RefuseToCreate(c, "use_compiled", args, {code, image})
  BY <1>0, <1>1, RefusalIsPromised
<1>2. CASE \E error : Fail(c, "use_compiled", args, error)
  BY <1>0, <1>2, FailIsPromised
<1>3. CASE Creatable(c, args, {code, image}) /\ ~ NoSlot(ctx[c], code) /\ Succeed(c, "use_compiled", args, y)
  <2>1. ctx[c].initialized /\ code \in Codes /\ code \in AnyCode
    BY <1>0, <1>3, CodesDenoted, CatalogAssumption DEF Creatable, Ready, AnyCode
  <2>2. /\ Good(x) /\ Known(x, code)
        /\ StoreOf(x) = opened /\ StateOf(x) = [StateOf(ctx[c]) EXCEPT !.store = Promise!Opened(@, code)]
    BY <1>3, <2>1, ContextsAreContexts, CreatingKeepsGood, CreatingShows
  <2>3. /\ image \in Maps /\ slot \in SlotLike /\ slot.code = code
        /\ slot.compiled => slot.map \in Images
    BY <1>3, <2>1, CatalogAssumption DEF SlotLike, Creatable, Ready
  <2>4. i \in DOMAIN x.languages /\ slot.code = x.languages[i].code
    BY <2>2, IndexIsFound
  <2>5. Good(y) /\ StateOf(y) = [StateOf(x) EXCEPT !.store[slot.code] = Offered(slot)]
    <3> HIDE DEF x, slot, i
    <3>1. /\ Good(x) /\ i \in DOMAIN x.languages /\ slot \in SlotLike /\ slot.code = x.languages[i].code
          /\ slot.compiled => slot.map \in Images
      BY <2>2, <2>3, <2>4
    <3>2. Good(y)
      BY <3>1, ReplacingKeepsGood
    <3>3. StateOf(y) = [StateOf(x) EXCEPT !.store[slot.code] = Offered(slot)]
      BY <3>1, ReplacingShows
    <3> QED
      BY <3>2, <3>3
  <2>6. Offered(slot) = language
    BY DEF Offered
  <2>7. [opened EXCEPT ![code] = language] = Promise!With(StoreOf(ctx[c]), code, language)
    BY DEF Promise!Opened, Promise!With, StoreOf
  <2>8. StateOf(y) = [StateOf(ctx[c]) EXCEPT !.store = Promise!With(@, code, language)]
    <3> HIDE DEF x, y, slot, opened, language
    <3>1. StateOf(x).store = opened /\ StateOf(ctx[c]).store = StoreOf(ctx[c])
      BY <2>2 DEF StateOf
    <3>2. StateOf(y) = [StateOf(x) EXCEPT !.store = [opened EXCEPT ![code] = language]]
      BY <2>3, <2>5, <2>6, <3>1
    <3> QED
      BY <2>2, <2>7, <3>1, <3>2 DEF StateOf, opened
  <2> HIDE DEF y, args
  <2>9. /\ promised' = [promised EXCEPT ![c] = StateOf(y)]
        /\ Promise!Returned(c, "use_compiled", code, NoText, TRUE, NoText)
        /\ loading = NoLoad /\ UNCHANGED loading
    BY <1>0, <1>3, <2>5, SucceedShows
  <2>10. promised' = [promised EXCEPT ![c].store = Promise!With(@, code, language)]
    BY <2>8, <2>9, PromisedIs
  <2>11. language \in Promise!Language /\ language.fixed
    BY <2>3 DEF Promise!Language, Promise!Keys, Keys, Maps
  <2> HIDE DEF language
  <2>12. Promise!UseCompiled(c, code)
    BY <2>1, <2>9, <2>10, <2>11, PromisedIs DEF Promise!UseCompiled
  <2> QED
    BY <2>1, <2>9, <2>12 DEF Promise!Next
<1> QED
  BY <1>0, <1>1, <1>2, <1>3 DEF UseCompiled

LEMMA SelectingShows ==
    ASSUME NEW x, Good(x), NEW code
    PROVE  /\ StateOf([x EXCEPT !.current = code]) = [StateOf(x) EXCEPT !.current = code]
           /\ StateOf([x EXCEPT !.fallback = code]) = [StateOf(x) EXCEPT !.fallback = code]
<1>1. /\ [x EXCEPT !.current = code].languages = x.languages
      /\ [x EXCEPT !.fallback = code].languages = x.languages
  BY DEF Good, ContextLike
<1>2. /\ StoreOf([x EXCEPT !.current = code]) = StoreOf(x)
      /\ StoreOf([x EXCEPT !.fallback = code]) = StoreOf(x)
  BY <1>1, SlotsDecide
<1> QED
  BY <1>2 DEF StateOf, Good, ContextLike

LEMMA SelectIsPromised ==
    ASSUME Inv, AllSound, Plain, NEW c \in Catalogs, NEW code \in CodeArgs,
           SetCurrent(c, code) \/ SetFallback(c, code)
    PROVE  Promise!Next
<1> DEFINE args == Args(code, NoText)
           x == [ctx[c] EXCEPT !.current = code]
           y == [ctx[c] EXCEPT !.fallback = code]
<1>0. /\ Str(ctx[c], code) = code /\ args.code = code /\ args.key = NoText
      /\ {"set_current", "set_fallback"} \subseteq Failing
  BY CodesPlain DEF Args, Failing, Promise!Selectors
<1>1. CASE \E op \in Failing : RefuseUnknown(c, op, args, {code})
  BY <1>0, <1>1, RefusalIsPromised
<1>2. ASSUME Present(c, args, {code})
      PROVE  /\ ctx[c].initialized /\ code \in Codes /\ code \in AnyCode /\ Known(ctx[c], code)
             /\ code \in DOMAIN promised[c].store /\ promised[c].ready
             /\ Good(x) /\ Good(y)
             /\ StateOf(x) = [promised[c] EXCEPT !.current = code]
             /\ StateOf(y) = [promised[c] EXCEPT !.fallback = code]
  <2>1. ctx[c].initialized /\ code \in Codes /\ code \in AnyCode /\ Known(ctx[c], code)
    BY <1>0, <1>2, CodesPlain DEF Present, Ready, AnyCode
  <2>2. Good(x) /\ Good(y)
    BY <2>1, ContextsAreContexts, SelectingKeepsGood
  <2>3. StateOf(x) = [StateOf(ctx[c]) EXCEPT !.current = code] /\ StateOf(y) = [StateOf(ctx[c]) EXCEPT !.fallback = code]
    BY ContextsAreContexts, SelectingShows
  <2> HIDE DEF x, y
  <2> QED
    BY <2>1, <2>2, <2>3, PromisedIs, KnownIsNamed
<1> HIDE DEF x, y, args
<1>3. CASE Present(c, args, {code}) /\ Succeed(c, "set_current", args, x)
  <2>1. /\ promised' = [promised EXCEPT ![c] = StateOf(x)]
        /\ Promise!Returned(c, "set_current", code, NoText, TRUE, NoText)
        /\ loading = NoLoad /\ UNCHANGED loading
    <3>1. Succeed(c, "set_current", args, x) /\ Good(x)
      BY <1>2, <1>3
    <3> QED
      BY <1>0, <3>1, SucceedShows
  <2>2. promised' = [promised EXCEPT ![c] = [@ EXCEPT !.current = code]]
    BY <1>2, <1>3, <2>1
  <2>3. Promise!Select(c, "set_current", code)
    BY <1>2, <1>3, <2>1, <2>2 DEF Promise!Select
  <2> QED
    BY <1>2, <1>3, <2>1, <2>3 DEF Promise!Next, Promise!Selectors
<1>4. CASE Present(c, args, {code}) /\ Succeed(c, "set_fallback", args, y)
  <2>1. /\ promised' = [promised EXCEPT ![c] = StateOf(y)]
        /\ Promise!Returned(c, "set_fallback", code, NoText, TRUE, NoText)
        /\ loading = NoLoad /\ UNCHANGED loading
    <3>1. Succeed(c, "set_fallback", args, y) /\ Good(y)
      BY <1>2, <1>4
    <3> QED
      BY <1>0, <3>1, SucceedShows
  <2>2. promised' = [promised EXCEPT ![c] = [@ EXCEPT !.fallback = code]]
    BY <1>2, <1>4, <2>1
  <2>3. Promise!Select(c, "set_fallback", code)
    BY <1>2, <1>4, <2>1, <2>2 DEF Promise!Select
  <2> QED
    BY <1>2, <1>4, <2>1, <2>3 DEF Promise!Next, Promise!Selectors
<1> QED
  BY <1>0, <1>1, <1>3, <1>4 DEF SetCurrent, SetFallback, args, x, y

(* The first code of the trail that has a slot is the best that is there.  *)
LEMMA BestIsPromised ==
    ASSUME Inv, NEW c \in Catalogs, NEW locale \in Codes, NEW best \in Codes, Serves(ctx[c], locale, best),
           ctx[c].initialized, promised' = [promised EXCEPT ![c].current = best],
           Promise!Returned(c, "set_current_best", locale, NoText, TRUE, NoText),
           loading = NoLoad, UNCHANGED loading
    PROVE  Promise!Next
<1>1. DOMAIN promised[c].store = Names(ctx[c]) /\ promised[c].ready
  BY PromisedIs
<1>2. best \in Names(ctx[c]) /\ Promise!Best(Names(ctx[c]), locale, best)
  BY KnownIsNamed DEF Serves, Promise!Best
<1>3. Promise!Select(c, "set_current_best", locale)
  BY <1>1, <1>2 DEF Promise!Select
<1> QED
  BY <1>3 DEF Promise!Next, Promise!Selectors

LEMMA SelectBestIsPromised ==
    ASSUME Inv, AllSound, Plain, NEW c \in Catalogs, NEW code \in CodeArgs, SetCurrentBest(c, code)
    PROVE  Promise!Next
<1> DEFINE args == Args(code, NoText)
<1>0. /\ Str(ctx[c], code) = code /\ args.code = code /\ args.key = NoText
      /\ "set_current_best" \in Failing
  BY CodesPlain DEF Args, Failing, Promise!Selectors
<1> HIDE DEF args
<1>1. CASE Refuse(c, "set_current_best", args, {})
  BY <1>0, <1>1, RefusalIsPromised
<1>2. CASE \E error : Fail(c, "set_current_best", args, error)
  BY <1>0, <1>2, FailIsPromised
<1>3. ASSUME ctx[c].initialized, code \in Codes, NEW best \in Codes, Serves(ctx[c], code, best),
             Succeed(c, "set_current_best", args, [ctx[c] EXCEPT !.current = best])
      PROVE  Promise!Next
  <2> DEFINE x == [ctx[c] EXCEPT !.current = best]
  <2>1. Good(x)
    BY <1>3, ContextsAreContexts, SelectingKeepsGood DEF Serves, AnyCode
  <2>2. StateOf(x) = [promised[c] EXCEPT !.current = best]
    <3>1. StateOf(x) = [StateOf(ctx[c]) EXCEPT !.current = best]
      BY ContextsAreContexts, SelectingShows
    <3> QED
      BY <3>1, PromisedIs
  <2> HIDE DEF x
  <2>3. /\ promised' = [promised EXCEPT ![c] = StateOf(x)]
        /\ Promise!Returned(c, "set_current_best", code, NoText, TRUE, NoText)
        /\ loading = NoLoad /\ UNCHANGED loading
    BY <1>0, <1>3, <2>1, SucceedShows DEF x
  <2> QED
    BY <1>3, <2>2, <2>3, BestIsPromised
<1> QED
  BY <1>0, <1>1, <1>2, <1>3 DEF SetCurrentBest, args

(* Detecting a locale writes an error that does not show, twice. *)
LEMMA DetectingShows ==
    ASSUME Inv, NEW c \in Catalogs, NEW error, NEW current,
           ctx' = [[ctx EXCEPT ![Default].last_error = "OK"] EXCEPT ![c].last_error = error,
                                                                    ![c].current = current]
    PROVE  promised' = [promised EXCEPT ![c].current = current]
<1> DEFINE y == [ctx[Default] EXCEPT !.last_error = "OK"]
           reported == [ctx EXCEPT ![Default].last_error = "OK"]
           r == reported[c]
           x == [[r EXCEPT !.last_error = error] EXCEPT !.current = current]
<1>1. Default \in Catalogs /\ DOMAIN ctx = Catalogs
  BY CatalogAssumption DEF Inv
<1>2. /\ reported = [ctx EXCEPT ![Default] = y]
      /\ ctx' = [reported EXCEPT ![c] = x]
  BY <1>1
<1>3. Good(y) /\ StateOf(y) = StateOf(ctx[Default])
  <2>1. StateOf(y) = StateOf(ctx[Default])
    BY <1>1, ContextsAreContexts, DiagnosticsDoNotShow
  <2>2. Good(y)
    BY <1>1, ContextsAreContexts, ErrorKeepsGood, ErrorsExist
  <2> QED
    BY <2>1, <2>2
<1> HIDE DEF y, x, reported
<1>4. \A d \in Catalogs : reported[d] = IF d = Default THEN y ELSE ctx[d]
  BY <1>1, <1>2
<1>5. Good(r) /\ StateOf(r) = StateOf(ctx[c])
  BY <1>3, <1>4, ContextsAreContexts
<1>6. StateOf(x) = [StateOf(ctx[c]) EXCEPT !.current = current]
  <2> HIDE DEF r
  <2>1. r \in ContextLike
    BY <1>5 DEF Good
  <2>2. /\ x.languages = r.languages /\ x.initialized = r.initialized
        /\ x.fallback = r.fallback /\ x.current = current
    BY <2>1 DEF x, ContextLike
  <2>3. StoreOf(x) = StoreOf(r)
    BY <2>2, SlotsDecide
  <2> QED
    BY <1>5, <2>2, <2>3 DEF StateOf
<1>7. \A d \in Catalogs : ctx'[d] = IF d = c THEN x ELSE reported[d]
  BY <1>1, <1>2
<1>8. ASSUME NEW d \in Catalogs
      PROVE  StateOf(ctx'[d]) = IF d = c THEN [StateOf(ctx[c]) EXCEPT !.current = current] ELSE StateOf(ctx[d])
  <2>1. CASE d = c
    BY <1>6, <1>7, <2>1
  <2>2. CASE d # c
    <3>1. ctx'[d] = IF d = Default THEN y ELSE ctx[d]
      BY <1>4, <1>7, <2>2
    <3>2. StateOf(ctx'[d]) = StateOf(ctx[d])
      BY <1>3, <3>1
    <3> QED
      BY <2>2, <3>2
  <2> QED
    BY <2>1, <2>2
<1> QED
  BY <1>8 DEF promised

LEMMA DetectIsPromised ==
    ASSUME Inv, NEW c \in Catalogs, NEW locale, SetCurrentDetected(c, locale)
    PROVE  Promise!Next
<1>1. ASSUME NEW error, NEW current, NEW ok,
             ctx' = [[ctx EXCEPT ![Default].last_error = "OK"] EXCEPT ![c].last_error = error,
                                                                      ![c].current = current],
             Leave(c, "set_current_best", Args(locale, NoText), ok, NoText)
      PROVE  /\ promised' = [promised EXCEPT ![c].current = current]
             /\ Promise!Returned(c, "set_current_best", locale, NoText, ok, NoText)
  BY <1>1, DetectingShows DEF Leave, Args, Promise!Returned
<1>2. ctx[c].initialized /\ loading = NoLoad /\ UNCHANGED loading
  BY DEF SetCurrentDetected, Callable
<1>3. ASSUME promised' = [promised EXCEPT ![c].current = ctx[c].current],
             Promise!Returned(c, "set_current_best", locale, NoText, FALSE, NoText)
      PROVE  Promise!Next
  <2>1. promised' = promised
    <3>1. [promised[c] EXCEPT !.current = ctx[c].current] = promised[c]
      <4>1. [StateOf(ctx[c]) EXCEPT !.current = ctx[c].current] = StateOf(ctx[c])
        BY DEF StateOf
      <4> QED
        BY <4>1, PromisedIs
    <3>2. promised' = [promised EXCEPT ![c] = promised[c]]
      BY <1>3, <3>1
    <3> QED
      BY <3>2 DEF promised
  <2>2. /\ last'.op = "set_current_best" /\ last'.code = locale /\ last'.key = NoText
    BY <1>3 DEF Promise!Returned
  <2>3. Promise!AnyFailure(c)
    BY <1>2, <1>3, <2>1, <2>2 DEF Promise!AnyFailure, Promise!Fail, Promise!Selectors
  <2> QED
    BY <1>2, <2>3 DEF Promise!Next
<1>4. ASSUME locale \in Codes, NEW best \in Codes, Serves(ctx[c], locale, best),
             promised' = [promised EXCEPT ![c].current = best],
             Promise!Returned(c, "set_current_best", locale, NoText, TRUE, NoText)
      PROVE  Promise!Next
  BY <1>2, <1>4, BestIsPromised
<1> QED
  BY <1>1, <1>3, <1>4 DEF SetCurrentDetected

(* Asking. *)
LEMMA NothingFound ==
    ASSUME NEW x, Good(x), Sound(x)
    PROVE  Promise!Lookup(StateOf(x), NoText) = NoText
<1>1. ASSUME NEW code, Known(x, code)
      PROVE  NoText \notin DOMAIN LanguageOf(x, code).map
  <2>1. LanguageOf(x, code).map \in Maps
    BY <1>1, LanguagesAreSlots
  <2> QED
    BY <2>1, CatalogAssumption DEF Maps
<1>2. Lookup(x, NoText) = NoText
  BY <1>1 DEF Lookup, Holds
<1> QED
  BY <1>2, LookupShows

LEMMA AnswersShow ==
    ASSUME Inv, NEW c \in Catalogs, NEW op, NEW args, NEW error, NEW ok, NEW value,
           Return(c, op, args, ctx[c], error, ok, value)
    PROVE  /\ promised' = promised
           /\ Promise!Returned(c, op, args.code, args.key, ok, value)
           /\ last'.op = op /\ last'.code = args.code /\ last'.key = args.key
           /\ loading = NoLoad /\ UNCHANGED loading
<1>1. /\ promised' = [promised EXCEPT ![c] = StateOf(ctx[c])]
      /\ Promise!Returned(c, op, args.code, args.key, ok, value)
      /\ last'.op = op /\ last'.code = args.code /\ last'.key = args.key
      /\ loading = NoLoad /\ UNCHANGED loading
  BY ContextsAreContexts, ReturnShows
<1> QED
  BY <1>1 DEF promised

LEMMA MissIsPromised ==
    ASSUME Inv, NEW c \in Catalogs, NEW op \in {"get", "has"}, NEW k, NEW error,
           Fail(c, op, Args(NoText, k), error),
           ctx[c].initialized => Promise!Lookup(StateOf(ctx[c]), k) = NoText
    PROVE  Promise!Next
<1>1. /\ promised' = promised
      /\ Promise!Returned(c, op, NoText, k, FALSE, NoText)
      /\ last'.op = op /\ last'.key = k
      /\ loading = NoLoad /\ UNCHANGED loading
  <2>1. Args(NoText, k).code = NoText /\ Args(NoText, k).key = k
    BY DEF Args
  <2> QED
    BY <2>1, AnswersShow DEF Fail
<1>2. Promise!Miss(c, op, k)
  BY <1>1, PromisedIs DEF Promise!Miss
<1> QED
  BY <1>1, <1>2 DEF Promise!Next

LEMMA HitIsPromised ==
    ASSUME Inv, AllSound, NEW c \in Catalogs, NEW op \in {"get", "has"}, NEW k \in KeyArgs,
           ctx[c].initialized, Lookup(ctx[c], k) # NoText,
           Return(c, op, Args(NoText, k), ctx[c], "OK", TRUE, IF op = "get" THEN Lookup(ctx[c], k) ELSE NoText)
    PROVE  Promise!Next
<1> DEFINE found == Lookup(ctx[c], k)
           value == IF op = "get" THEN found ELSE NoText
<1>1. /\ promised' = promised
      /\ Promise!Returned(c, op, NoText, k, TRUE, value)
      /\ last'.op = op
      /\ loading = NoLoad /\ UNCHANGED loading
  <2> DEFINE args == Args(NoText, k)
  <2>1. args.code = NoText /\ args.key = k
    BY DEF Args
  <2>2. Return(c, op, args, ctx[c], "OK", TRUE, value)
    OBVIOUS
  <2> HIDE DEF value, args
  <2> QED
    BY <2>1, <2>2, AnswersShow
<1>2. found = Promise!Lookup(promised[c], k) /\ promised[c].ready
  BY ContextsAreContexts, LookupShows, PromisedIs
<1>3. Promise!Get(c, op, k)
  BY <1>1, <1>2 DEF Promise!Get
<1> QED
  BY <1>1, <1>3 DEF Promise!Next

LEMMA LookingUpIsPromised ==
    ASSUME Inv, AllSound, NEW c \in Catalogs, NEW k \in KeyArgs \cup Nulls, Get(c, k) \/ Has(c, k)
    PROVE  Promise!Next
<1>1. \A op, args, error : ctx[c].initialized /\ Fail(c, op, args, error) => Good(ctx[c]) /\ Sound(ctx[c])
  BY ContextsAreContexts
<1>2. ASSUME NEW op \in {"get", "has"}, Refuse(c, op, Args(NoText, k), {k})
      PROVE  Promise!Next
  BY <1>2, ContextsAreContexts, NothingFound, MissIsPromised DEF Refuse
<1>3. ASSUME NEW op \in {"get", "has"}, NEW error, Lookup(ctx[c], k) = NoText, Fail(c, op, Args(NoText, k), error)
      PROVE  Promise!Next
  <2>1. Promise!Lookup(StateOf(ctx[c]), k) = NoText
    BY <1>3, ContextsAreContexts, LookupShows
  <2> QED
    BY <1>3, <2>1, MissIsPromised
<1>4. ASSUME Ready(c, {k})
      PROVE  ctx[c].initialized /\ k \in KeyArgs
  BY <1>4, CatalogAssumption DEF Ready
<1>5. CASE Ready(c, {k}) /\ Lookup(ctx[c], k) # NoText
           /\ Return(c, "get", Args(NoText, k), ctx[c], "OK", TRUE, Lookup(ctx[c], k))
  BY <1>4, <1>5, HitIsPromised
<1>6. CASE Ready(c, {k}) /\ Lookup(ctx[c], k) # NoText /\ Succeed(c, "has", Args(NoText, k), ctx[c])
  BY <1>4, <1>6, HitIsPromised DEF Succeed
<1> QED
  BY <1>2, <1>3, <1>5, <1>6 DEF Get, Has

LEMMA SizesAgree == \A S : Promise!Cardinality(S) = Cardinality(S)
BY DEF Promise!Cardinality, Cardinality

LEMMA CountIsPromised ==
    ASSUME Inv, AllSound, Plain, NEW c \in Catalogs, NEW code \in CodeArgs, Count(c, code)
    PROVE  Promise!Next
<1> DEFINE args == Args(code, NoText)
           number == Cardinality(DOMAIN LanguageOf(ctx[c], code).map)
<1>0. /\ Str(ctx[c], code) = code /\ args.code = code /\ args.key = NoText
      /\ "count" \in Failing
  BY CodesPlain DEF Args, Failing, Promise!Writers
<1>1. CASE RefuseUnknown(c, "count", args, {code})
  BY <1>0, <1>1, RefusalIsPromised
<1>2. CASE Present(c, args, {code}) /\ Return(c, "count", args, ctx[c], "OK", TRUE, number)
  <2>1. ctx[c].initialized /\ code \in Codes /\ Known(ctx[c], code)
    BY <1>0, <1>2, CodesPlain DEF Present, Ready
  <2>2. /\ promised[c].ready /\ code \in DOMAIN promised[c].store
        /\ number = Cardinality(DOMAIN promised[c].store[code].map)
    <3>1. StoreOf(ctx[c])[code] = Offered(LanguageOf(ctx[c], code)) /\ code \in Names(ctx[c])
      BY <2>1, KnownIsNamed DEF StoreOf
    <3>2. StoreOf(ctx[c])[code].map = LanguageOf(ctx[c], code).map
      BY <3>1 DEF Offered
    <3> QED
      BY <2>1, <3>1, <3>2, PromisedIs
  <2> HIDE DEF args, number
  <2>3. /\ promised' = promised
        /\ Promise!Returned(c, "count", code, NoText, TRUE, number)
        /\ last'.op = "count" /\ loading = NoLoad /\ UNCHANGED loading
    BY <1>0, <1>2, AnswersShow
  <2>4. Promise!Count(c, code)
    <3>1. Promise!Returned(c, "count", code, NoText, TRUE, Cardinality(DOMAIN promised[c].store[code].map))
      BY <2>2, <2>3
    <3> QED
      BY <2>2, <2>3, <3>1, SizesAgree DEF Promise!Count
  <2> QED
    BY <2>1, <2>3, <2>4 DEF Promise!Next
<1> QED
  BY <1>0, <1>1, <1>2 DEF Count

LEMMA ForEachIsPromised ==
    ASSUME Inv, AllSound, Plain, NEW c \in Catalogs, NEW code \in CodeArgs, NEW fn, ForEach(c, code, fn)
    PROVE  Promise!Next
<1> DEFINE args == Args(code, NoText)
           entries == Cardinality(DOMAIN LanguageOf(ctx[c], code).map)
<1>0. /\ Str(ctx[c], code) = code /\ args.code = code /\ args.key = NoText
      /\ "foreach" \in Failing
  BY CodesPlain DEF Args, Failing, Promise!Writers
<1>1. CASE RefuseUnknown(c, "foreach", args, {code, fn})
  BY <1>0, <1>1, RefusalIsPromised
<1>2. ASSUME Present(c, args, {code, fn}), NEW shown \in 0 .. entries, shown = 0 => entries = 0,
             Return(c, "foreach", args, ctx[c], "OK", TRUE, shown)
      PROVE  Promise!Next
  <2>1. ctx[c].initialized /\ code \in Codes /\ Known(ctx[c], code)
    BY <1>0, <1>2, CodesPlain DEF Present, Ready
  <2>2. /\ promised[c].ready /\ code \in DOMAIN promised[c].store
        /\ entries = Promise!Cardinality(DOMAIN promised[c].store[code].map)
    <3>1. StoreOf(ctx[c])[code] = Offered(LanguageOf(ctx[c], code)) /\ code \in Names(ctx[c])
      BY <2>1, KnownIsNamed DEF StoreOf
    <3>2. StoreOf(ctx[c])[code].map = LanguageOf(ctx[c], code).map
      BY <3>1 DEF Offered
    <3> QED
      BY <2>1, <3>1, <3>2, PromisedIs, SizesAgree
  <2> HIDE DEF args, entries
  <2>3. /\ promised' = promised
        /\ Promise!Returned(c, "foreach", code, NoText, TRUE, shown)
        /\ last'.op = "foreach" /\ loading = NoLoad /\ UNCHANGED loading
    BY <1>0, <1>2, AnswersShow
  <2>4. Promise!ForEach(c, code)
    BY <1>2, <2>2, <2>3 DEF Promise!ForEach
  <2> QED
    BY <2>1, <2>3, <2>4 DEF Promise!Next
<1> QED
  BY <1>0, <1>1, <1>2 DEF ForEach

LEMMA GetLanguagesIsPromised ==
    ASSUME Inv, NEW c \in Catalogs, GetLanguages(c)
    PROVE  Promise!Next
<1> DEFINE args == Args(NoText, NoText)
<1>0. args.code = NoText /\ args.key = NoText /\ "get_languages" \in Failing
  BY DEF Args, Failing
<1> HIDE DEF args
<1>1. CASE Refuse(c, "get_languages", args, {})
  BY <1>0, <1>1, RefusalIsPromised
<1>2. CASE ctx[c].initialized /\ Return(c, "get_languages", args, ctx[c], "OK", TRUE, Names(ctx[c]))
  <2>1. /\ promised' = promised
        /\ Promise!Returned(c, "get_languages", NoText, NoText, TRUE, Names(ctx[c]))
        /\ last'.op = "get_languages" /\ loading = NoLoad /\ UNCHANGED loading
    <3> DEFINE names == Names(ctx[c])
    <3>1. Return(c, "get_languages", args, ctx[c], "OK", TRUE, names)
      BY <1>2
    <3> HIDE DEF names
    <3>2. Promise!Returned(c, "get_languages", NoText, NoText, TRUE, names)
      BY <1>0, <3>1, AnswersShow
    <3> QED
      BY <1>0, <3>1, <3>2, AnswersShow DEF names
  <2>2. Promise!GetLanguages(c)
    BY <1>2, <2>1, PromisedIs DEF Promise!GetLanguages
  <2> QED
    BY <2>1, <2>2 DEF Promise!Next
<1> QED
  BY <1>1, <1>2 DEF GetLanguages, Names, args

(* Loads. *)
LEMMA BeginLoadIsPromised ==
    ASSUME Inv, AllSound, Plain, NEW c \in Catalogs, NEW code \in CodeArgs, NEW source, NEW openable,
           BeginLoad(c, code, source, openable)
    PROVE  Promise!Next
<1> DEFINE args == Args(code, NoText)
           x == WithLanguage(ctx[c], code)
           y == Started(x)
<1>0. /\ Str(ctx[c], code) = code /\ args.code = code /\ args.key = NoText
      /\ "load" \in Failing
  BY CodesPlain DEF Args, Failing, Promise!Writers
<1>1. CASE RefuseToCreate(c, "load", args, {code, source})
  BY <1>0, <1>1, RefusalIsPromised
<1>2. CASE \E error : Fail(c, "load", args, error)
  BY <1>0, <1>2, FailIsPromised
<1>3. ASSUME Creatable(c, args, {code, source}), ~ NoSlot(ctx[c], code)
      PROVE  /\ ctx[c].initialized /\ code \in Codes /\ code \in AnyCode /\ Good(x)
             /\ StateOf(x) = [StateOf(ctx[c]) EXCEPT !.store = Promise!Opened(@, code)]
  <2>1. ctx[c].initialized /\ code \in Codes /\ code \in AnyCode
    BY <1>0, <1>3, CodesDenoted, CatalogAssumption DEF Creatable, Ready, AnyCode
  <2> QED
    BY <1>3, <2>1, ContextsAreContexts, CreatingKeepsGood, CreatingShows
<1>4. CASE /\ Creatable(c, args, {code, source}) /\ ~ NoSlot(ctx[c], code)
           /\ Return(c, "load", args, x, "OUT_OF_MEMORY", FALSE, NoText)
  BY <1>0, <1>3, <1>4, CreatedOnlyIsPromised
<1>5. CASE /\ Creatable(c, args, {code, source}) /\ ~ NoSlot(ctx[c], code) /\ ~ ReadOnly(ctx[c], code)
           /\ Callable(c)
           /\ ctx' = [ctx EXCEPT ![c] = y]
           /\ loading' = [cat |-> c, code |-> code]
           /\ last' = NoCall
  <2>1. StateOf(y) = StateOf(x)
    BY <1>3, <1>5, DiagnosticsDoNotShow DEF Started
  <2> HIDE DEF x, y
  <2>2. promised' = [promised EXCEPT ![c] = StateOf(y)]
    BY <1>5, OneShows
  <2>3. promised' = [promised EXCEPT ![c].store = Promise!Opened(@, code)]
    BY <1>3, <1>5, <2>1, <2>2, PromisedIs
  <2>4. loading = NoLoad /\ last' = Promise!NoCall
    BY <1>5 DEF Callable, NoCall, Promise!NoCall
  <2>5. Promise!BeginLoad(c, code)
    BY <1>3, <1>5, <2>3, <2>4, PromisedIs, WritableShows DEF Promise!BeginLoad
  <2> QED
    BY <1>3, <1>5, <2>4, <2>5 DEF Promise!Next
<1> QED
  BY <1>0, <1>1, <1>2, <1>4, <1>5 DEF BeginLoad

LEMMA NextLineShows ==
    ASSUME Inv, Loading, NEW x, Good(x), NEW stats, NEW cuts, NEW dropped,
           NextLine(x, stats, cuts, dropped)
    PROVE  /\ promised' = [promised EXCEPT ![loading.cat] = StateOf(x)]
           /\ UNCHANGED <<loading, last>>
<1> DEFINE y == [x EXCEPT !.load_stats = Cut(stats, cuts)]
<1>1. StateOf(y) = StateOf(x)
  BY DiagnosticsDoNotShow
<1>2. loading.cat \in Catalogs /\ ctx' = [ctx EXCEPT ![loading.cat] = y] /\ UNCHANGED <<loading, last>>
  BY LoadHasItsLanguage DEF NextLine
<1> HIDE DEF y
<1>3. promised' = [promised EXCEPT ![loading.cat] = StateOf(y)]
  BY <1>2, OneShows
<1> QED
  BY <1>1, <1>2, <1>3

LEMMA LoadLineIsPromised ==
    ASSUME Inv, LoadLine
    PROVE  [Promise!Next]_(Promise!vars)
<1> DEFINE c == loading.cat
           code == loading.code
           map == LanguageOf(Filled, code).map
<1>1. /\ Loading /\ c \in Catalogs /\ Good(Filled) /\ Filled = ctx[c]
      /\ Known(Filled, code) /\ ~ LanguageOf(Filled, code).compiled
      /\ code \in AnyCode
  BY LoadHasItsLanguage DEF LoadLine, Filled, Inv, LoadInv, Loading
<1>2. ASSUME NEW x, Good(x), StateOf(x) = StateOf(Filled), NEW stats, NEW cuts, NEW dropped,
             NextLine(x, stats, cuts, dropped)
      PROVE  [Promise!Next]_(Promise!vars)
  <2>1. promised' = [promised EXCEPT ![c] = StateOf(x)] /\ UNCHANGED <<loading, last>>
    BY <1>1, <1>2, NextLineShows
  <2>2. promised' = promised
    BY <1>1, <1>2, <2>1 DEF promised
  <2> QED
    BY <2>1, <2>2 DEF Promise!vars
<1>3. ASSUME NEW error \in Errors, NEW stats, NEW cuts, NEW dropped,
             NextLine([Filled EXCEPT !.last_error = error], stats, cuts, dropped)
      PROVE  [Promise!Next]_(Promise!vars)
  <2> DEFINE x == [Filled EXCEPT !.last_error = error]
  <2>1. Good(x) /\ StateOf(x) = StateOf(Filled)
    <3>1. Good(x)
      BY <1>1, <1>3, ErrorKeepsGood
    <3>2. StateOf(x) = StateOf(Filled)
      BY <1>1, DiagnosticsDoNotShow
    <3> QED
      BY <3>1, <3>2
  <2>2. NextLine(x, stats, cuts, dropped)
    BY <1>3
  <2> HIDE DEF x
  <2> QED
    BY <1>2, <2>1, <2>2
<1>4. ASSUME NEW k \in KeyArgs, NEW v \in Values, NEW stats, NEW cuts, NEW dropped,
             NextLine(WithMap(Filled, code, Put(map, Clamped[k], v)), stats, cuts, dropped)
      PROVE  [Promise!Next]_(Promise!vars)
  <2> DEFINE y == WithMap(Filled, code, Put(map, Clamped[k], v))
  <2>1. WithLanguage(Filled, code) = Filled /\ ~ NoSlot(Filled, code) /\ ~ ReadOnly(Filled, code)
    BY <1>1 DEF WithLanguage, NoSlot, ReadOnly
  <2>2. Good(y) /\ StateOf(y) = [StateOf(Filled) EXCEPT !.store = Promise!Stored(@, code, k, v)]
    <3> HIDE DEF code
    <3> QED
      BY <1>1, <2>1, EntryShows
  <2>3. NextLine(y, stats, cuts, dropped)
    BY <1>4
  <2> HIDE DEF y
  <2>4. promised' = [promised EXCEPT ![c] = StateOf(y)] /\ UNCHANGED <<loading, last>>
    BY <1>1, <2>2, <2>3, NextLineShows
  <2>5. promised' = [promised EXCEPT ![c].store = Promise!Stored(@, code, k, v)]
    BY <1>1, <2>2, <2>4, PromisedIs
  <2>6. Promise!LoadEntry
    BY <1>1, <2>4, <2>5 DEF Promise!LoadEntry, Loading
  <2> QED
    BY <2>6 DEF Promise!Next
<1>5. PICK cuts \in Nat : LineOf(cuts)
  BY LinesAreCases
<1> QED
  BY <1>1, <1>2, <1>3, <1>4, <1>5 DEF LineOf

LEMMA EndLoadIsPromised ==
    ASSUME Inv, EndLoad
    PROVE  Promise!Next
<1> DEFINE c == loading.cat
           error == IF Incomplete(Filled.load_stats) THEN "PARSE" ELSE "OK"
           x == [ctx[c] EXCEPT !.last_error = error]
<1>1. Loading /\ c \in Catalogs /\ ctx' = [ctx EXCEPT ![c] = x]
  BY LoadHasItsLanguage DEF EndLoad
<1>2. StateOf(x) = StateOf(ctx[c])
  <2> HIDE DEF error
  <2> QED
    BY <1>1, ContextsAreContexts, DiagnosticsDoNotShow
<1> HIDE DEF x
<1>3. promised' = promised
  BY <1>1, <1>2, NothingShows
<1>4. Promise!EndLoad
  BY <1>1, <1>3 DEF EndLoad, Loading, Leave, Args, Promise!EndLoad, Promise!Returned
<1> QED
  BY <1>4 DEF Promise!Next

(* Making and unmaking catalogues. *)
LEMMA ResetShows ==
    /\ StateOf(Reset) = Promise!Closed
    /\ StateOf(Fresh) = [Promise!Closed EXCEPT !.ready = TRUE]
<1>1. Names(Reset) = {} /\ Names(Fresh) = {}
  BY DEF Names, Reset, Fresh
<1>2. StoreOf(Reset) = [x \in {} |-> NoText] /\ StoreOf(Fresh) = [x \in {} |-> NoText]
  BY <1>1 DEF StoreOf
<1>3. /\ ~ Reset.initialized /\ Reset.current = Blank /\ Reset.fallback = Blank
      /\ Fresh.initialized /\ Fresh.current = Blank /\ Fresh.fallback = Blank
  BY DEF Reset, Fresh
<1>4. /\ Reset.initialized = FALSE /\ Fresh.initialized = TRUE
  BY DEF Reset, Fresh
<1>5. StateOf(Reset) = Promise!Closed
  BY <1>2, <1>3, <1>4 DEF StateOf, Promise!Closed
<1>6. StateOf(Fresh) = [ready |-> TRUE, store |-> [x \in {} |-> NoText],
                        current |-> Blank, fallback |-> Blank]
  BY <1>2, <1>3, <1>4 DEF StateOf
<1>7. StateOf(Fresh) = [Promise!Closed EXCEPT !.ready = TRUE]
  <2> DEFINE none == [x \in {} |-> NoText]
  <2>1. /\ StateOf(Fresh) = [ready |-> TRUE, store |-> none, current |-> Blank, fallback |-> Blank]
        /\ Promise!Closed = [ready |-> FALSE, store |-> none, current |-> Blank, fallback |-> Blank]
    BY <1>6 DEF Promise!Closed
  <2> HIDE DEF none
  <2>2. ASSUME NEW x, x = [ready |-> FALSE, store |-> none, current |-> Blank, fallback |-> Blank], NEW ready
        PROVE  [x EXCEPT !.ready = ready]
                 = [ready |-> ready, store |-> none, current |-> Blank, fallback |-> Blank]
    BY <2>2
  <2> QED
    BY <2>1, <2>2
<1> QED
  BY <1>5, <1>7

LEMMA WholeIsPromised ==
    ASSUME Inv, NEW c \in Catalogs, Create(c) \/ Destroy(c) \/ InitDefault \/ FreeDefault
    PROVE  Promise!Next
<1>1. ASSUME NEW d \in Catalogs, NEW op, NEW x, NEW ok, Whole(d, op, x, ok)
      PROVE  /\ promised' = [promised EXCEPT ![d] = StateOf(x)]
             /\ Promise!Returned(d, op, NoText, NoText, ok, NoText)
             /\ loading = NoLoad /\ UNCHANGED loading
  BY <1>1, OneShows DEF Whole, Leave, Args, Promise!Returned
<1>2. ASSUME NEW d \in Catalogs, NEW op \in {"init", "create"},
             Whole(d, op, IF ctx[d].initialized THEN ctx[d] ELSE Fresh, TRUE)
      PROVE  Promise!Next
  <2> DEFINE x == IF ctx[d].initialized THEN ctx[d] ELSE Fresh
  <2>1. StateOf(x) = IF promised[d].ready THEN promised[d] ELSE [Promise!Closed EXCEPT !.ready = TRUE]
    BY PromisedIs, ResetShows
  <2> HIDE DEF x
  <2>2. /\ promised' = [promised EXCEPT ![d] = StateOf(x)]
        /\ Promise!Returned(d, op, NoText, NoText, TRUE, NoText)
        /\ loading = NoLoad /\ UNCHANGED loading
    BY <1>1, <1>2 DEF x
  <2>3. Promise!Open(d, op)
    BY <2>1, <2>2 DEF Promise!Open
  <2> QED
    BY <1>2, <2>2, <2>3 DEF Promise!Next
<1>3. ASSUME NEW d \in Catalogs, NEW op \in {"free", "destroy"},
             Whole(d, op, IF ctx[d].initialized THEN Reset ELSE ctx[d], TRUE)
      PROVE  Promise!Next
  <2> DEFINE x == IF ctx[d].initialized THEN Reset ELSE ctx[d]
  <2>1. StateOf(x) = IF promised[d].ready THEN Promise!Closed ELSE promised[d]
    BY PromisedIs, ResetShows
  <2> HIDE DEF x
  <2>2. /\ promised' = [promised EXCEPT ![d] = StateOf(x)]
        /\ Promise!Returned(d, op, NoText, NoText, TRUE, NoText)
        /\ loading = NoLoad /\ UNCHANGED loading
    BY <1>1, <1>3 DEF x
  <2>3. Promise!Close(d, op)
    BY <2>1, <2>2 DEF Promise!Close
  <2> QED
    BY <1>3, <2>2, <2>3 DEF Promise!Next
<1>4. ASSUME NEW d \in Catalogs, Whole(d, "create", ctx[d], FALSE)
      PROVE  Promise!Next
  <2>1. /\ promised' = [promised EXCEPT ![d] = StateOf(ctx[d])]
        /\ Promise!Returned(d, "create", NoText, NoText, FALSE, NoText)
        /\ loading = NoLoad /\ UNCHANGED loading
    BY <1>1, <1>4
  <2>2. promised' = promised
    BY <2>1 DEF promised
  <2>3. last'.op = "create" /\ last'.code = NoText /\ last'.key = NoText
    BY <2>1 DEF Promise!Returned
  <2>4. Promise!AnyFailure(d)
    BY <2>1, <2>2, <2>3 DEF Promise!AnyFailure, Promise!Fail
  <2> QED
    BY <2>1, <2>4 DEF Promise!Next
<1>5. Default \in Catalogs
  BY CatalogAssumption
<1> QED
  BY <1>2, <1>3, <1>4, <1>5 DEF Create, Destroy, InitDefault, FreeDefault

(***************************************************************************)
(* The theorem.                                                            *)
(***************************************************************************)
LEMMA InitIsPromised == Init => Promise!Init
BY ResetShows DEF Init, promised, Promise!Init, NoCall, Promise!NoCall

LEMMA StepIsPromised ==
    ASSUME Inv, AllSound, Plain, [Next]_vars
    PROVE  [Promise!Next]_(Promise!vars)
<1>1. CASE UNCHANGED vars
  BY <1>1 DEF vars, promised, StateOf, StoreOf, Promise!vars
<1>2. ASSUME NEW c \in Catalogs, Call(c)
      PROVE  Promise!Next
  <2>1. ASSUME NEW code \in CodeArgs, NEW k \in KeyArgs \cup Nulls, NEW v \in Values \cup Nulls,
               Set(c, code, k, v)
        PROVE  Promise!Next
    BY <2>1, SetIsPromised
  <2>2. ASSUME NEW code \in CodeArgs, NEW k \in KeyArgs \cup Nulls, Remove(c, code, k)
        PROVE  Promise!Next
    BY <2>2, RemoveIsPromised
  <2>3. ASSUME NEW code \in CodeArgs, NEW image \in Images \cup Nulls, NEW format_ok \in BOOLEAN,
               UseCompiled(c, code, image, format_ok)
        PROVE  Promise!Next
    BY <2>3, UseCompiledIsPromised
  <2>4. ASSUME NEW code \in CodeArgs,
               \/ Clear(c, code) \/ RemoveLanguage(c, code)
               \/ SetCurrent(c, code) \/ SetFallback(c, code) \/ Count(c, code)
               \/ SetCurrentBest(c, code)
        PROVE  Promise!Next
    BY <2>4, ClearIsPromised, RemoveLanguageIsPromised, SelectIsPromised, CountIsPromised,
       SelectBestIsPromised
  <2>9. ASSUME NEW code \in CodeArgs, NEW fn, ForEach(c, code, fn)
        PROVE  Promise!Next
    BY <2>9, ForEachIsPromised
  <2>5. ASSUME NEW code \in CodeArgs, NEW source, NEW openable, BeginLoad(c, code, source, openable)
        PROVE  Promise!Next
    BY <2>5, BeginLoadIsPromised
  <2>6. ASSUME NEW locale, SetCurrentDetected(c, locale)
        PROVE  Promise!Next
    BY <2>6, DetectIsPromised
  <2>7. ASSUME NEW k \in KeyArgs \cup Nulls, Get(c, k) \/ Has(c, k)
        PROVE  Promise!Next
    BY <2>7, LookingUpIsPromised
  <2>8. ASSUME GetLanguages(c) \/ Create(c) \/ Destroy(c)
        PROVE  Promise!Next
    BY <2>8, GetLanguagesIsPromised, WholeIsPromised
  <2> QED
    BY <1>2, <2>1, <2>2, <2>3, <2>4, <2>5, <2>6, <2>7, <2>8, <2>9 DEF Call
<1>3. ASSUME InitDefault \/ FreeDefault
      PROVE  Promise!Next
  BY <1>3, WholeIsPromised, CatalogAssumption
<1> QED
  BY <1>1, <1>2, <1>3, LoadLineIsPromised, EndLoadIsPromised DEF Next

(* Where no caller passes the catalogue's own array back, every call of    *)
(* every sequence is one the promise allows: it does what it was asked to  *)
(* the languages by their codes, or leaves every language that was there   *)
(* and the selection alone, whatever slots were taken, moved and freed     *)
(* before (ci18n_get_or_create_language(), ci18n_remove_language()).       *)
THEOREM PromiseIsKept ==
    ASSUME Plain
    PROVE  Spec => KeepsPromise
<1>1. Init => Promise!Init
  BY InitIsPromised
<1>2. Inv /\ AllSound /\ [Next]_vars => [Promise!Next]_(Promise!vars)
  BY StepIsPromised
<1> QED
  BY <1>1, <1>2, SoundHolds, PTL DEF Spec, KeepsPromise, Promise!Spec
=============================================================================
