----------------------------- MODULE MCFrameRelay ------------------------------
(***************************************************************************)
(* FrameRelay for TLC: every kv bag of up to KvLen tokens in a plain line, *)
(* a choice of columns around one bag, and every description of up to      *)
(* DescLen tokens in a frame of the systemd watcher.                       *)
(***************************************************************************)
EXTENDS FrameRelay, SequencesExt

CONSTANTS KvLen, DescLen

PlainLine(kv) ==
    Join(<<<<"00:00">>, <<"x">>, <<"a">>, <<"b">>, <<"fatal">>, <<"x">>, kv>>, TAB)

KvTokens == {"a", "b", "true", "=", ";"}

OddLines ==
    {Join(<<ts, <<"x">>, <<" ", "a", " ">>, <<"b">>, level, msg>> \o rest, TAB) :
        ts \in {<<>>, <<" ">>, <<"00:00">>, <<"x">>, <<" ", "#">>},
        level \in {<<"ok">>, <<" ", "warn">>, <<>>},
        msg \in {<<>>, <<"x", " ", "1">>},
        rest \in {<<>>, <<<<>>>>, <<<<" ", "a", " ", "=", "1", "2", " ", ";", "b">>>>,
                  <<<<"a">>, <<"b", "=", "1">>>>}}
    \cup {<<>>, <<" ">>, <<"#", "x">>}

(* Longer bags: equal keys, "=" in a value, a key that begins another. *)
LongBags == {<<"a", "=", "1", ";", "b", "=", "2", ";", "a", "=", "2">>,
             <<"b", "=", "a", "=", "1", ";", "a", "=", "true">>,
             <<"a", "=", "1", ";", "a", "b", "=", "2", ";", "b">>,
             <<";", ";", "=", "true", ";", "a", ";", "=", "1">>}

MCLines ==
    {PlainLine(kv) : kv \in BoundedSeq(KvTokens, KvLen) \cup LongBags} \cup OddLines

(* The keys are those of emit_snapshot_frame: load, desc, ttl and unit. *)
UnitFrame(desc) ==
    [ts |-> <<"00:00">>, kind |-> <<"x">>, scope |-> <<"a">>, id |-> <<"b">>,
     level |-> "ok", msg |-> <<"x">>,
     kv |-> (<<"b">> :> <<"1">>) @@ (<<"desc">> :> desc) @@ (TTL :> <<"1", "2">>)
              @@ (<<"x">> :> <<"a">>)]

(* Those of parse_error_frame: error and raw, the line that was refused. *)
ParseErrorFrame(raw) ==
    [ts |-> <<"00:00">>, kind |-> <<"x">>, scope |-> <<"a">>, id |-> <<"b">>,
     level |-> "warn", msg |-> <<"x", " ", "1">>,
     kv |-> (<<"error">> :> <<"x">>) @@ (<<"x">> :> raw)]

MCBuilt ==
    {UnitFrame(d) : d \in BoundedSeq({"ttl", "=", ";", TAB, NL}, DescLen)}
    \cup {ParseErrorFrame(l) : l \in {<<"#">>, <<"x", TAB, "a", "=", "1">>, <<"ttl", ";", "ttl">>}}
===============================================================================
