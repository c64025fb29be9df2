----------------------------- MODULE MCPackDoctor ------------------------------
(***************************************************************************)
(* PackDoctor for TLC: packs directories with up to two of the threads     *)
(* below, in one pack or in two, and the command lines.                    *)
(***************************************************************************)
EXTENDS PackDoctor, TLC

TextValue(s) == [toml |-> "string", text |-> s]
Arg(name, ty, default) == [name |-> name, ty |-> ty, default |-> default]

Row(ts) == <<ts, "x", "x", "x", "x", "x", "x">>

Program(begin, reads, each, status) ==
    [begin |-> begin, reads |-> reads, each |-> each, status |-> status]

Relay == Program(<<>>, TRUE, <<Row("ts")>>, "ok")
Chatty == Program(<<<<"#", "x">>, <<>>, Row("ts")>>, TRUE, <<>>, "ok")
Unstamped == Program(<<>>, TRUE, <<Row("")>>, "ok")
Wordy == Program(<<<<"x">>>>, TRUE, <<>>, "ok")
Failing == Program(<<>>, TRUE, <<>>, "failed")
Quitting == Program(<<>>, FALSE, <<>>, "ok")
Looping == Program(<<>>, TRUE, <<>>, "never")

Script0(program, risk) ==
    [header |-> risk = "none", terminator |-> TRUE, words |-> {"n"}, risk |-> risk,
     program |-> program]

Here == [absolute |-> FALSE, parts |-> <<"a.awk">>]
Above == [absolute |-> FALSE, parts |-> <<"..", "a.awk">>]

Thread0(id, args, program, risk) ==
    [id |-> id, kind |-> <<"x">>, file |-> Here, args |-> args, script |-> Script0(program, risk)]

A == <<"a">>
B == <<"b">>

GoodThreads ==
    {Thread0(A, <<Arg("n", "int", [toml |-> "float", whole |-> TRUE, n |-> 1])>>, Relay, "none"),
     Thread0(B, <<Arg("n", "int", [toml |-> "none"]), Arg("m", "string", TextValue("text"))>>, Chatty, "getline"),
     Thread0(B, <<Arg("n", "bool", [toml |-> "boolean"]), Arg("n", "int", [toml |-> "integer", n |-> 7])>>,
             Quitting, "none"),
     Thread0(<<" ", "a">>, <<>>, Relay, "none")}

BadThreads ==
    {Thread0(A, <<>>, Wordy, "none"),
     Thread0(B, <<>>, Failing, "denied"),
     Thread0(A, <<Arg("n", "bool", TextValue("text"))>>, Relay, "none"),
     Thread0(B, <<Arg("n", "real", [toml |-> "other"])>>, Relay, "none"),
     [Thread0(A, <<>>, Relay, "none") EXCEPT !.file = Above],
     Thread0(<<" ">>, <<>>, Looping, "none")}

LoopThread == Thread0(B, <<>>, Looping, "none")
UnstampedThread == Thread0(A, <<>>, Unstamped, "none")

Pack(threads) == [manifest |-> "toml", threads |-> threads]
Dir(packs) == [dir |-> "ok", packs |-> packs]

MCDisks ==
    LET threads == GoodThreads \cup BadThreads IN
    {[dir |-> d, packs |-> <<>>] : d \in {"missing", "unreadable"}}
    \cup {[dir |-> "entry unreadable", packs |-> <<Pack(<<g>>)>>] : g \in GoodThreads}
    \cup {Dir(<<[manifest |-> m, threads |-> <<>>], Pack(<<th>>)>>) :
            m \in {"missing", "unreadable", "toml"}, th \in threads}
    \cup {Dir(<<Pack(<<g, th>>)>>) : g \in GoodThreads, th \in threads \cup {LoopThread}}
    \cup {Dir(<<Pack(<<th>>), Pack(<<g>>)>>) : g \in GoodThreads, th \in threads}

Command0 == [cmd |-> "run", security |-> "strict", target |-> A, tvars |-> <<>>,
             transform |-> [mode |-> "none", target |-> <<>>]]

MCCommands ==
    {[Command0 EXCEPT !.cmd = "pack doctor", !.security = m] : m \in {"strict", "off"}}
    \cup {[Command0 EXCEPT !.cmd = "pack-doctor", !.security = m] : m \in {"strict", "warn", "on"}}
    \cup {[Command0 EXCEPT !.cmd = c] : c \in {"pack list", "pack show"}}
    \cup {[Command0 EXCEPT !.transform = [mode |-> m, target |-> id]] :
            m \in {"none", "thread", "file", "other"}, id \in {<<>>, A, <<" ", "a">>, B}}
    \cup {[Command0 EXCEPT !.transform = [mode |-> "thread", target |-> id], !.tvars = v] :
            id \in {A, B}, v \in {"n" :> "int", "n" :> "text", "z" :> "int"}}

UnstampedDisks == {Dir(<<Pack(<<UnstampedThread>>)>>)}
===============================================================================
