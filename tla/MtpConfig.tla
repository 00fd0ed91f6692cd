----------------------------- MODULE MtpConfig ------------------------------
(***************************************************************************)
(* The MTProto configuration of an account (opentele/td/mtp.py): its       *)
(* endpoints per data center, and how they are written and read back.      *)
(*                                                                         *)
(* A serialized configuration is the sequence of items its writer streams; *)
(* the reader takes items one after another, whatever they were meant as.  *)
(* An integer read over text is a number of four characters, larger than   *)
(* every size the reader accepts.                                          *)
(***************************************************************************)
EXTENDS Integers, Sequences, FiniteSets, SequencesExt

CONSTANTS
    Dcs,        \* data centers of the production environment
    TestDcs     \* data centers of the test environment

kMaxIpSize == 45
kDcShift == 10000
OverText == 2 ^ 24       \* the least integer read from four characters

\* BuiltInDc: the endpoints that are compiled in, one address of each family
\* for a data center (the second IPv4 address of data center 2 is left out)
BuiltIn(test) ==
    [d \in IF test THEN TestDcs ELSE Dcs |->
        << [id |-> d, ipv6 |-> FALSE, ip |-> <<"builtin", d, 4>>, ipSize |-> 14, port |-> 443],
           [id |-> d, ipv6 |-> TRUE,  ip |-> <<"builtin", d, 6>>, ipSize |-> 39, port |-> 443] >>]

Config(test) == [test |-> test, data |-> BuiltIn(test), fields |-> "default"]

BareDcId(shifted) == shifted % kDcShift

\* the check for a known address continues its own loop, not the caller's: an
\* endpoint that is there already is added again
ApplyOneGuarded(data, e) ==
    IF e.id \in DOMAIN data
    THEN [data EXCEPT ![e.id] = Append(@, e)]
    ELSE [d \in DOMAIN data \cup {e.id} |-> IF d = e.id THEN <<e>> ELSE data[d]]

-----------------------------------------------------------------------------
(* Serialize writes no port, and constructFromSerialized reads one.        *)

Items(e) == << e.id, e.ipv6, e.ipSize, OverText, 0 >>
\* Telegram Desktop writes what the reader expects
DesktopItems(e) == << e.id, e.ipv6, e.port, e.ipSize, OverText, 0 >>
ItemsOf(writer, e) == IF writer = "opentele" THEN Items(e) ELSE DesktopItems(e)

\* the items of the endpoints of every data center but the shifted ones
Serialize(config, writer) ==
    LET listed == {d \in DOMAIN config.data : BareDcId(d) <= 1000}
        of(d)  == FlattenSeq([i \in DOMAIN config.data[d] |-> ItemsOf(writer, config.data[d][i])])
    IN [ test    |-> config.test,
         count   |-> FoldSet(LAMBDA d, n : n + Len(config.data[d]), 0, listed),
         options |-> FlattenSeq([i \in 1..Cardinality(listed) |-> of(SetToSeq(listed)[i])]),
         fields  |-> config.fields ]

\* the reader takes the id, the flags, the port and the size of the address;
\* a size out of range raises TDataBadConfigData
ReadsAll(s) ==
    \A i \in 0 .. s.count - 1 :
        /\ 6 * i + 4 \in DOMAIN s.options
        /\ s.options[6 * i + 4] \in 1 .. kMaxIpSize

\* Config.FromSerialized: the built-in endpoints are cleared for those read
FromSerialized(s) ==
    LET read(i) == [ id     |-> s.options[6 * i + 1], ipv6 |-> s.options[6 * i + 2],
                     ip     |-> <<"file", i>>,        ipSize |-> s.options[6 * i + 4],
                     port   |-> s.options[6 * i + 3] ]
        none    == [d \in {} |-> <<>>]
    IN [ test   |-> s.test,
         data   |-> FoldLeft(LAMBDA data, i : ApplyOneGuarded(data, read(i - 1)),
                             none, [i \in 1 .. s.count |-> i]),
         fields |-> s.fields ]

\* readMtpConfig: a configuration that cannot be read is the built-in one
ReadMtpConfig(s) == IF ReadsAll(s) THEN FromSerialized(s) ELSE Config(FALSE)

\* Config.endpoints for IPv4 and TCP: a data center without an entry is a
\* KeyError, so the caller may only ask for one that is listed
Endpoints(config, dc) == SelectSeq(config.data[dc], LAMBDA e : ~e.ipv6)
=============================================================================
