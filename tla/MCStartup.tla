----------------------------- MODULE MCStartup -----------------------------
(***************************************************************************)
(* Small instances of Startup for TLC: command lines of up to three        *)
(* artifacts with one file; files in many styles with one command line;    *)
(* vendor files; and a few runs with a desktop client about.               *)
(***************************************************************************)
EXTENDS Startup

-----------------------------------------------------------------------------
(* Files.  A meaning is written down in a style.                           *)

Home == [Unconfigured EXCEPT
    !.mode = "blacklist", !.entries = <<<<"tun">>, <<"vir", ",", "br">>>>,
    !.keepalive = 2, !.maxAge = 9, !.name = <<"home", " ", "#", "1">>,
    !.servings = <<[device |-> <<"lo">>, ports |-> {7}], [device |-> <<"eth">>, ports |-> {8}],
                   [device |-> <<"lo">>, ports |-> {7}]>>]

Lab == [Home EXCEPT !.entries = <<<<"eth">>>>, !.name = <<"lab">>, !.mode = "whitelist",
    !.servings = <<[device |-> <<"lo">>, ports |-> Ports]>>]

Attic == [Lab EXCEPT !.name = <<"attic">>, !.servings = <<[device |-> <<"lo">>, ports |-> {7}]>>]

Cellar == [Attic EXCEPT !.name = <<"cellar">>]

Written(ports) == IF ports = Ports THEN <<>> ELSE <<":", " ", Numerals[Max(ports) + 1]>>

InList(items, q) ==
    FoldLeft(LAMBDA s, i : s \o (IF i = 1 THEN <<>> ELSE <<",", " ">>) \o q \o items[i] \o q,
             <<>>, [i \in DOMAIN items |-> i])

\* Quotation mark of list items, whether lines end in a remark, whether [network] comes
\* first.
Styles == [q : {<<"'">>, <<"\"">>}, remarks : BOOLEAN, networkFirst : BOOLEAN]

File(m, style) ==
    LET Line(s) == s \o (IF style.remarks THEN <<" ", "#", "was", "=", "'", "5">> ELSE <<>>)
        server == <<Line(<<"[", "server", "]">>),
                    Line(<<"serve", "=">> \o InList([i \in DOMAIN m.servings |->
                        m.servings[i].device \o Written(m.servings[i].ports)], style.q)),
                    Line(<<"keepalive-interval", "=", " ", Numerals[m.keepalive + 1]>>),
                    Line(<<"name", "=", "\"">> \o m.name \o <<"\"">>)>>
        network == <<Line(<<"[", "network", "]">>),
                     Line(<<"list-mode", "=", m.mode>>),
                     <<"#", "max-mac-age", "=", "1">>, <<>>,
                     Line(<<"max-mac-age", "=", Numerals[m.maxAge + 1], " ">>),
                     Line(<<"allowed-devices", "=">> \o InList(m.entries, style.q))>>
    IN  [lines |-> IF style.networkFirst THEN network \o server ELSE server \o network,
         means |-> m]

Plain == [q |-> <<"\"">>, remarks |-> FALSE, networkFirst |-> FALSE]

\* Nothing to serve on: list() throws.
Broken == [lines |-> SubSeq(File(Lab, Plain).lines, 3, 10), means |-> Lab]

-----------------------------------------------------------------------------
(* Cases.                                                                  *)

Given == <<0, "given">>
Share == <<0, "/usr/share">>
LocalShare == <<0, "/usr/local/share">>

Artifacts == {<<1, "d">>, <<2, "daemon">>, <<1, "c">>, <<2, "config-file">>, <<1, "x">>, Given}

Acme == <<<<"00", "0A", "01", ",", "\"", "acme", " ", "\"">>>>
Brand == <<<<"00", "0A", "01", ",", "\"", "other", "\"">>, <<"00", "0B", "01", ",", "\"", "brand", "\"">>,
           <<"00", "0A", "01", ",", "\"", "new", "\"">>>>
mac1 == <<"00", "0a", "01", "07", "07", "07">>
mac2 == <<"00", "0b", "01", "07", "07", "07">>

Case == [args |-> <<<<1, "c">>, Given>>, root |-> TRUE, desktop |-> FALSE,
         files |-> (Given :> File(Lab, Plain)) @@ (Share :> File(Home, Plain)),
         vendors |-> <<>>, knows |-> mac1 :> <<>> @@ mac2 :> <<>>]

ArgumentCases == {[Case EXCEPT !.args = a] : a \in UNION {[1..n -> Artifacts] : n \in 0..3}}

FileCases ==
    {[Case EXCEPT !.files = p :> File(m, s) @@ Share :> File(Lab, Plain)] :
        p \in {Given, LocalShare}, m \in {Home, Lab}, s \in Styles}
    \cup {[Case EXCEPT !.files = Given :> Broken], [Case EXCEPT !.root = FALSE]}

VendorCases ==
    {[Case EXCEPT !.vendors = 2 :> Acme @@ 3 :> Brand,
                  !.knows = mac1 :> <<"acme">> @@ mac2 :> <<>>],
     [Case EXCEPT !.vendors = 1 :> Brand @@ 2 :> Acme,
                  !.knows = mac1 :> <<"new">> @@ mac2 :> <<"brand">>],
     [Case EXCEPT !.vendors = 1 :> (Acme \o <<<<"00", "0B", "01">>>>)]}

\* The name may change from one run to the next.
DesktopCases ==
    {[Case EXCEPT !.desktop = TRUE, !.files = Given :> File(m, Plain)] : m \in {Attic, Cellar}}

MCCases == ArgumentCases \cup FileCases \cup VendorCases \cup DesktopCases

ASSUME CasesReadAsMeant == ReadAsMeant
=============================================================================
