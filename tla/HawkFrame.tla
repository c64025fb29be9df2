------------------------------- MODULE HawkFrame -------------------------------
(***************************************************************************)
(* The HawkFrame codec of crates/hawk_core: parse_tsv_line, to_tsv_line    *)
(* and the kv bag of hawkframe.rs, Level of severity.rs.                   *)
(*                                                                         *)
(* A text is a sequence of tokens: the characters the codec looks at and   *)
(* words it does not look into.  Words are in lower case (Level::parse     *)
(* ignores case) and none begins another, so that their order is that of   *)
(* the texts they stand for.                                               *)
(***************************************************************************)
EXTENDS Texts

(* RFC 3339 timestamps: the sender's, and those of three later moments. *)
Stamps == <<"00:00", "00:01", "00:02", "00:03">>

(* The separator of a kv bag. *)
SEMI == ";"

(* All tokens, in the order of their bytes. *)
Tokens == <<TAB, NL, SPACE, "#">> \o Stamps
            \o <<"1", "2", SEMI, "=", "a", "b", "desc", "error", "fail",
                 "fatal", "info", "ok", "true", "ttl", "unknown", "warn", "x">>

Text == Seq(Range(Tokens))

Rank(c) == CHOOSE i \in DOMAIN Tokens : Tokens[i] = c

(* The order of BTreeMap<String, _>: at the first difference s has ended or *)
(* has the smaller token.                                                   *)
TextBefore(s, t) ==
    \E i \in DOMAIN t :
        /\ i <= Len(s) + 1
        /\ \A j \in 1 .. i - 1 : s[j] = t[j]
        /\ i <= Len(s) => Rank(s[i]) < Rank(t[i])

-------------------------------------------------------------------------------
(* Level::parse and as_str; a level is named by the word as_str gives it.   *)

LevelWords == [ok   |-> {"ok"},
               info |-> {"info"},
               warn |-> {"warn", "warning"},
               fail |-> {"fail", "error", "fatal"}]

LevelParse(s) ==
    LET fits == {l \in DOMAIN LevelWords : \E w \in LevelWords[l] : Trim(s) = <<w>>}
    IN  IF fits = {} THEN "unknown" ELSE CHOOSE l \in fits : TRUE

as_str(level) == <<level>>

-------------------------------------------------------------------------------
(* The kv bag *)

(* split_once('='): key and value of a part, "true" for a bare flag. *)
Equals(part) == {i \in DOMAIN part : part[i] = "="}
KeyOf(part) ==
    IF Equals(part) = {} THEN part ELSE Trim(SubSeq(part, 1, Min(Equals(part)) - 1))
ValueOf(part) ==
    IF Equals(part) = {} THEN <<"true">>
    ELSE Trim(SubSeq(part, Min(Equals(part)) + 1, Len(part)))

KvParts(s) ==
    LET pieces == Split(s, SEMI)
    IN  [i \in DOMAIN pieces |-> Trim(pieces[i])]

(* Places of the parts with key k; empty parts are skipped. *)
PartsOf(parts, k) == {i \in DOMAIN parts : parts[i] # <<>> /\ KeyOf(parts[i]) = k}

KeysIn(parts) == {KeyOf(parts[i]) : i \in {j \in DOMAIN parts : parts[j] # <<>>}}

(* Mutant: the first of two equal keys wins. *)
parse_kv_bag_first(s) ==
    LET parts == KvParts(s)
    IN  [k \in KeysIn(parts) |-> ValueOf(parts[Min(PartsOf(parts, k))])]

(* The last of two equal keys wins. *)
parse_kv_bag(s) ==
    LET parts == KvParts(s)
    IN  [k \in KeysIn(parts) |-> ValueOf(parts[Max(PartsOf(parts, k))])]

(* BTreeMap::iter *)
SortedKeys(kv) ==
    CHOOSE order \in [1 .. Cardinality(DOMAIN kv) -> DOMAIN kv] :
        \A i, j \in DOMAIN order : i < j => TextBefore(order[i], order[j])

(* Mutant: an empty value is written as a bare flag. *)
serialize_kv_bag_bare(kv) ==
    LET part(k) == IF kv[k] \in {<<>>, <<"true">>} THEN k ELSE k \o <<"=">> \o kv[k]
        keys == SortedKeys(kv)
    IN  Join([i \in DOMAIN keys |-> part(keys[i])], SEMI)

serialize_kv_bag(kv) ==
    LET part(k) == IF kv[k] = <<"true">> THEN k ELSE k \o <<"=">> \o kv[k]
        keys == SortedKeys(kv)
    IN  Join([i \in DOMAIN keys |-> part(keys[i])], SEMI)

-------------------------------------------------------------------------------
(* Lines *)

(* ts is empty (None) or a text of one stamp. *)
ParsedFrame(cols) ==
    [ts |-> Trim(cols[1]), kind |-> Trim(cols[2]), scope |-> Trim(cols[3]),
     id |-> Trim(cols[4]), level |-> LevelParse(cols[5]), msg |-> Trim(cols[6]),
     kv |-> parse_kv_bag(Trim(cols[7]))]

Parsed(result, frames) == [result |-> result, frames |-> frames]

IsTimestamp(s) == \E i \in DOMAIN Stamps : s = <<Stamps[i]>>

(* Mutant: a line of six columns is taken for one without a kv bag. *)
parse_tsv_line_six(line) ==
    LET cols == Split(line, TAB) IN
    CASE Trim(line) = <<>>           -> Parsed("none", <<>>)
      [] Trim(line) # <<>> /\ Trim(line)[1] = "#" -> Parsed("none", <<>>)
      [] Trim(line) # <<>> /\ Trim(line)[1] # "#" ->
            IF Len(cols) < 6 \/ ~(Trim(cols[1]) = <<>> \/ IsTimestamp(Trim(cols[1])))
            THEN Parsed("err", <<>>)
            ELSE Parsed("frame", <<ParsedFrame(Append(cols, <<>>))>>)

(* Ok(None) for blank lines and comments, Err for too few columns and a bad *)
(* timestamp; columns after the seventh are ignored.                        *)
parse_tsv_line(line) ==
    LET cols == Split(line, TAB)
        blank == Trim(line) = <<>>
        skipped == blank \/ Trim(line)[1] = "#"
        bad == \/ Len(cols) < 7
               \/ ~(Trim(cols[1]) = <<>> \/ IsTimestamp(Trim(cols[1])))
    IN  CASE skipped          -> Parsed("none", <<>>)
          [] ~skipped /\ bad  -> Parsed("err", <<>>)
          [] ~skipped /\ ~bad -> Parsed("frame", <<ParsedFrame(cols)>>)

(* A frame without a timestamp is stamped with now. *)
to_tsv_line(f, now) ==
    LET ts == IF f.ts = <<>> THEN <<now>> ELSE f.ts
    IN  Join(<<ts, f.kind, f.scope, f.id, as_str(f.level), f.msg,
               serialize_kv_bag(f.kv)>>, TAB)

(* The kv bag to_tsv_line can express: a flag "true" of the empty key is    *)
(* written as nothing at all.                                               *)
Expressible(kv) ==
    [k \in DOMAIN kv \ {j \in DOMAIN kv : j = <<>> /\ kv[j] = <<"true">>} |-> kv[k]]
===============================================================================
