---------------------------- MODULE CommandLine ----------------------------
(***************************************************************************)
(* parse_args of both programs and parse_lane_spec: what reaches the rest  *)
(* of a program when any sequence of options is given to it.               *)
(*                                                                         *)
(* A number is given as an integer; W64 stands for a text that is not a    *)
(* number as well.                                                         *)
(***************************************************************************)
EXTENDS Integers, Sequences, FiniteSets

CONSTANTS W16, W32, W64,  \* the ranges of uint16_t, uint32_t, unsigned long
          Numbers,        \* numbers that may be given
          LaneTexts,      \* arguments of --lane
          Strings,        \* values that may be given to the other options
          MaxArgs         \* options on a command line

\* The defaults of chunk_size and depth, 4 and 3 below, are of 32 bits.
ASSUME WidthAssumption ==
    /\ W16 \in Nat \ {0} /\ W32 \in Nat /\ W64 \in Nat
    /\ 4 < W32 /\ W32 <= W64 /\ W16 <= W64
ASSUME NumbersAssumption == Numbers \subseteq Int
ASSUME LaneTextsAssumption ==
    LaneTexts \subseteq [commas : Nat, lastEmpty : BOOLEAN, name : STRING,
                         port : Int, tls : STRING, weight : Int]

VARIABLES program,  \* "send" or "recv"
          given,    \* the options read so far
          opt,      \* struct Options
          outcome,  \* "parsing", "accepted", "started", "help" or "refused"
          why       \* the option a refusal names

argVars == <<program, given, opt, outcome, why>>

NumberOptions == IF program = "send" THEN {"size", "chunk_size", "depth"} ELSE {"depth"}
StringOptions ==
    IF program = "send" THEN {"source", "input", "verify", "engine"}
                        ELSE {"output", "verify", "engine"}
Flags == IF program = "send" THEN {"register_buffers"} ELSE {"register_buffers", "sink"}

ArgsInit ==
    /\ program \in {"send", "recv"}
    /\ given = <<>>
    /\ opt = [size |-> 0, chunk_size |-> 4, depth |-> 3, source |-> "file", input |-> "",
              output |-> "", verify |-> "chunk", engine |-> "tag",
              register_buffers |-> FALSE, sink |-> FALSE, lanes |-> <<>>]
    /\ outcome = "parsing"
    /\ why = ""

\* std::stoul and std::stoull: throws, or wraps what is negative.
IsNumber(v) == -W64 < v /\ v < W64
Stoul(v) == v % W64

\* Mutation operator: depth and weights of 64 bits.
Wide(v) == v

Uint32(v) == v % W32
Uint16(v) == v % W16

\* The type the value of a number option has.
Cast(name, v) == IF name = "size" THEN Stoul(v) ELSE Uint32(Stoul(v))

\* How many parts std::getline finds: none after a comma at the end.
Parts(text) == IF text.lastEmpty THEN text.commas ELSE text.commas + 1

\* The weight of a receiver's lane is 1.
Weight(text) == IF program = "send" THEN Uint32(Stoul(text.weight)) ELSE 1

LaneOk(text) ==
    /\ Parts(text) = (IF program = "send" THEN 6 ELSE 5)
    /\ IsNumber(text.port) /\ (program = "send" => IsNumber(text.weight))
    /\ text.name # "" /\ text.tls # ""
    /\ Uint16(Stoul(text.port)) # 0
    /\ Weight(text) # 0

LaneOf(text) == [port |-> Uint16(Stoul(text.port)), weight |-> Weight(text)]

\* Mutation operator: the first value of an option stays.
SetOnce(name, value) ==
    IF \E k \in DOMAIN given : given[k].name = name THEN opt ELSE [opt EXCEPT ![name] = value]

Set(name, value) == [opt EXCEPT ![name] = value]

Take(name, value, newOpt) ==
    /\ opt' = newOpt
    /\ given' = Append(given, [name |-> name, value |-> value])
    /\ UNCHANGED <<program, outcome, why>>

Refuse(name) ==
    /\ outcome' = "refused" /\ why' = name
    /\ UNCHANGED <<program, given, opt>>

More == outcome = "parsing" /\ Len(given) < MaxArgs

\* One turn of the loop over argv.
ReadNumber ==
    /\ More
    /\ \E name \in NumberOptions, v \in Numbers :
          IF IsNumber(v) THEN Take(name, v, Set(name, Cast(name, v))) ELSE Refuse("number")

ReadString ==
    /\ More
    /\ \E name \in StringOptions : \E v \in Strings[name] : Take(name, v, Set(name, v))

ReadFlag == More /\ \E name \in Flags : Take(name, TRUE, Set(name, TRUE))

ReadLane ==
    /\ More
    /\ \E text \in LaneTexts :
          IF LaneOk(text) THEN Take("lane", text, Set("lanes", Append(opt.lanes, LaneOf(text))))
                          ELSE Refuse("lane")

\* An option nobody knows, or one whose value is missing at the end.
ReadOther == More /\ Refuse("argument")

ReadHelp == More /\ outcome' = "help" /\ UNCHANGED <<program, given, opt, why>>

\* The check on an option fails.  The receiver has no source and no chunks.
Fails(name) ==
    LET sender == program = "send" IN
    CASE name = "source"     -> sender /\ opt.source \notin {"file", "zero"}
      [] name = "input"      -> sender /\ opt.source = "file" /\ opt.input = ""
      [] name = "size"       -> sender /\ opt.source = "zero" /\ opt.size = 0
      [] name = "output"     -> ~sender /\ opt.output = "" /\ ~opt.sink
      [] name = "lane"       -> opt.lanes = <<>>
      [] name = "chunk_size" -> opt.chunk_size = 0
      [] name = "depth"      -> opt.depth = 0
      [] name = "verify"     -> opt.verify \notin {"none", "chunk", "file", "both"}
      [] name = "engine"     ->
            \/ opt.engine \notin {"tag", "rma"}
            \/ /\ opt.engine = "rma"
               /\ \/ opt.verify # "none"
                  \/ sender /\ opt.source # "zero"
                  \/ ~sender /\ ~opt.sink

\* In this order.
Checks == <<"source", "input", "size", "output", "lane", "chunk_size", "depth",
            "verify", "engine">>

FirstWrong(k) == Fails(Checks[k]) /\ \A j \in 1..k-1 : ~Fails(Checks[j])

\* The checks after the loop.
Check ==
    /\ outcome = "parsing"
    /\ \/ \E k \in DOMAIN Checks : FirstWrong(k) /\ Refuse(Checks[k])
       \/ /\ \A k \in DOMAIN Checks : ~Fails(Checks[k])
          /\ outcome' = "accepted"
          /\ UNCHANGED <<program, given, opt, why>>

\* A hash of the file is asked for where there is no file.
NothingToHash == program = "send" /\ opt.verify \in {"file", "both"} /\ opt.source # "file"

\* The beginning of main.
Main ==
    /\ outcome = "accepted"
    /\ IF NothingToHash
         THEN Refuse("verify")
         ELSE outcome' = "started" /\ UNCHANGED <<program, given, opt, why>>

Ended == outcome \in {"started", "refused", "help"} /\ UNCHANGED argVars

ArgsNext == ReadNumber \/ ReadString \/ ReadFlag \/ ReadLane \/ ReadOther \/ ReadHelp
            \/ Check \/ Main \/ Ended

ArgsSpec == ArgsInit /\ [][ArgsNext]_argVars
----------------------------------------------------------------------------
(* Properties.                                                             *)

\* What every other module takes for granted of its constants: a window, a
\* chunk, at least one lane, weights and ports that are not zero and fit
\* their types; and with --engine rma no bytes that anybody would miss, since
\* the receiver of puts never looks at them.
OptionsUsable ==
    outcome \in {"accepted", "started"} =>
        /\ opt.depth \in 1..W32-1 /\ opt.chunk_size \in 1..W32-1
        /\ opt.lanes # <<>>
        /\ \A l \in DOMAIN opt.lanes :
              opt.lanes[l].port \in 1..W16-1 /\ opt.lanes[l].weight \in 1..W32-1
        /\ opt.engine = "rma" =>
              /\ opt.verify = "none"
              /\ IF program = "send" THEN opt.source = "zero" /\ opt.size # 0 ELSE opt.sink

GivenFor(name) == {k \in DOMAIN given : given[k].name = name}
Last(ks) == CHOOSE k \in ks : \A j \in ks : j <= k

\* The range of a number option's type.
Width(name) == IF name = "size" THEN W64 ELSE W32

\* Which of the lanes the option at k is.
Position(k) == Cardinality({j \in GivenFor("lane") : j <= k})

\* The last value of an option is the one that counts, and a number that
\* fits its type, of 64 bits for --size and of 32 for the others, is taken as
\* it is; lanes add up, in the order given, with the ports and weights given
\* if these fit theirs.
AsGiven ==
    outcome = "started" =>
        /\ \A name \in NumberOptions \cup StringOptions :
              GivenFor(name) # {} =>
                  LET v == given[Last(GivenFor(name))].value
                  IN  name \in StringOptions \/ v \in 0..Width(name)-1 => opt[name] = v
        /\ Len(opt.lanes) = Cardinality(GivenFor("lane"))
        /\ \A k \in GivenFor("lane") :
              LET text == given[k].value
                  lane == opt.lanes[Position(k)]
              IN  /\ text.port \in 0..W16-1 => lane.port = text.port
                  /\ program = "send" /\ text.weight \in 0..W32-1 => lane.weight = text.weight
=============================================================================
