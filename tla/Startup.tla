------------------------------ MODULE Startup ------------------------------
(***************************************************************************)
(* A run of macdetectd from the constructors of its static objects to the  *)
(* end of main() (macdetectd/src/daemon.cpp): vendor data, signal          *)
(* handlers, command line, privileges, fork, configuration, main loop.  In *)
(* the loop only discovery is kept; Daemon models the rest.  A daemon that *)
(* has ended may be started again.                                         *)
(***************************************************************************)
EXTENDS Configuration, Discovery

CONSTANTS
    Cases,      \* what a run finds: its command line, privileges and files, and
                \* whether a desktop client is about
    Ports,      \* what an uninitialised port may hold
    MaxStarts   \* bound on the number of runs

ASSUME StartupAssumption ==
    /\ MaxStarts \in Nat \ {0}
    /\ \A c \in Cases :
          /\ c.args \in Seq(Nat \X STRING)
          /\ \A path \in DOMAIN c.files : "name" \in DOMAIN c.files[path].means

VARIABLES
    case,       \* what this run finds
    starts,     \* number of runs
    called,     \* names the runs' configurations give the server
    phase,      \* where main() is: "static", "main", "parse", "privileges", "fork",
                \* "config", "loop" or "ended"
    outcome,    \* how the run has ended: "killed", "aborted", "success", "failure"
    vendors,    \* m_mapVendorsCache
    at,         \* next artifact, then next candidate for the configuration
    args,       \* m_lstArguments
    background, \* g_bDaemon
    status,     \* nReturnvalue
    settings,   \* what parseConfigFile() sets
    run,        \* m_bShouldRun of Network and m_bRun of Server
    signalled   \* SIGTERM or SIGINT has come

runVars == <<vendors, args, background, settings, run>>
vars == <<case, starts, called, phase, outcome, at, status, runVars, signalled,
          discoveryVars>>

\* The state of a process before main().  The mode is the one Daemon::Daemon() sets.
Unconfigured ==
    [mode |-> "whitelist", entries |-> <<>>, keepalive |-> 1, maxAge |-> 300,
     update |-> 10, ping |-> 10, servings |-> <<>>, name |-> <<"test-server">>]

\* lstConfigFiles.  Nothing expands the tilde.
Candidates(path) ==
    <<path, <<0, "~/.macdetectd/macdetectd.config">>, <<0, "/usr/local/share">>,
      <<0, "/usr/share">>>>

-----------------------------------------------------------------------------
(* What a run is meant to do, read off its case without the parsers: each  *)
(* file comes with its meaning.                                            *)

\* An artifact is a value when the tokens right before it are odd in number.
ValuesAmong(artifacts) ==
    {i \in DOMAIN artifacts :
        \E j \in 1..i - 1 : /\ \A k \in j..i - 1 : IsToken(artifacts[k])
                            /\ j = 1 \/ ~IsToken(artifacts[j - 1])
                            /\ (i - j) % 2 = 1}

PlainAmong(artifacts) == {i \in DOMAIN artifacts \ ValuesAmong(artifacts) : artifacts[i][1] = 0}

\* Sequence s has the elements of another at these places, in their order, and no others.
PickedInOrder(s, from, places) ==
    \E place \in [DOMAIN s -> places] :
        /\ \A i, j \in DOMAIN s : i < j => place[i] < place[j]
        /\ \A p \in places : \E i \in DOMAIN s : place[i] = p
        /\ \A i \in DOMAIN s : s[i] = from[place[i]]

MeantInBackground(c) == \E i \in DOMAIN c.args \ ValuesAmong(c.args) : IsSwitch(c.args[i])

MeantFile(c) ==
    IF ValuesAmong(c.args) = {} THEN <<0, "">> ELSE c.args[Min(ValuesAmong(c.args))]

Meant(c) ==
    LET there == {i \in 1..4 : Candidates(MeantFile(c))[i] \in DOMAIN c.files}
    IN  IF there = {} THEN Unconfigured ELSE c.files[Candidates(MeantFile(c))[Min(there)]].means

Init ==
    /\ case \in Cases /\ starts = 1 /\ called = {}
    /\ phase = "static" /\ outcome = "none" /\ signalled = FALSE
    /\ vendors = <<>> /\ at = 1 /\ args = <<>> /\ background = FALSE
    /\ status = "failure" /\ settings = Unconfigured /\ run = TRUE
    /\ InitDiscovery(case.desktop)

\* The process ends.
End(how) ==
    /\ phase' = "ended" /\ outcome' = how
    /\ serverLeaves

-----------------------------------------------------------------------------
(* Before main(): Data.                                                    *)

VendorTail == {" ", "\""}

\* One line of oui.txt: three octets, a comma, the vendor in quotes.  substr() throws
\* when nothing is left to take.
ParseVendor(line) ==
    LET rest == SubSeq(line, 5, Len(line))
        kept == SubSeq(rest, 1, Max({0} \cup {i \in DOMAIN rest : rest[i] \notin VendorTail}))
    IN  [throws |-> kept = <<>>, prefix |-> SubSeq(line, 1, 3), name |-> SubSeq(kept, 2, Len(kept))]

tryReadVendors(lines) ==
    [throws |-> \E i \in DOMAIN lines : ParseVendor(lines[i]).throws,
     cache  |-> [p \in {ParseVendor(lines[i]).prefix : i \in DOMAIN lines} |->
                    LET last == Max({i \in DOMAIN lines : ParseVendor(lines[i]).prefix = p})
                    IN  ParseVendor(lines[last]).name]]

\* The locations with an oui.txt; the first one that can be read is the only one.
readVendors(files) ==
    IF files = <<>> THEN [throws |-> FALSE, cache |-> <<>>]
    ELSE tryReadVendors(files[Min(DOMAIN files)])

Upper(octet) == CASE octet = "0a" -> "0A" [] octet = "0b" -> "0B" [] OTHER -> octet

VendorIn(cache, mac) ==
    LET prefix == [i \in 1..3 |-> Upper(mac[i])]
    IN  IF prefix \in DOMAIN cache THEN cache[prefix] ELSE <<>>

vendorForMAC(mac) == VendorIn(vendors, mac)

\* The constructors of DiscoveryServer and of Network.
Construct ==
    /\ phase = "static"
    /\ LET read == readVendors(case.vendors)
       IN  IF read.throws
           THEN End("aborted") /\ UNCHANGED vendors
           ELSE /\ phase' = "main" /\ vendors' = read.cache /\ UNCHANGED outcome
                /\ serverJoins
    /\ UNCHANGED <<case, starts, called, at, args, background, status, settings, run, signalled>>

-----------------------------------------------------------------------------
(* main()                                                                  *)

InstallHandlers ==
    /\ phase = "main" /\ phase' = "parse"
    /\ UNCHANGED <<case, starts, called, outcome, at, status, runVars, signalled, discoveryVars>>

ParseArtifact ==
    /\ phase = "parse"
    /\ IF at > Len(case.args)
       THEN phase' = "privileges" /\ at' = 1 /\ UNCHANGED args
       ELSE LET parsed == parseArtifact(case.args, at)
            IN  args' = args \o parsed.add /\ at' = parsed.next /\ UNCHANGED phase
    /\ UNCHANGED <<case, starts, called, outcome, vendors, background, status, settings, run,
                   signalled, discoveryVars>>

\* A packet socket can be had.
CheckPrivileges ==
    /\ phase = "privileges"
    /\ IF case.root
       THEN phase' = "fork" /\ UNCHANGED <<outcome, discoveryVars>>
       ELSE End(status)
    /\ UNCHANGED <<case, starts, called, at, status, runVars, signalled>>

\* The child is the process that goes on; its setsid() may fail, and only what it will
\* return depends on that.  Without a child the run is over.
Fork ==
    /\ phase = "fork"
    /\ background' = switched(args)
    /\ IF switched(args)
       THEN \/ /\ phase' = "config" /\ status' \in {"success", "failure"}
               /\ UNCHANGED <<outcome, discoveryVars>>
            \/ End(status) /\ UNCHANGED status
       ELSE phase' = "config" /\ UNCHANGED <<outcome, status, discoveryVars>>
    /\ UNCHANGED <<case, starts, called, at, vendors, args, settings, run, signalled>>

-----------------------------------------------------------------------------
(* Daemon::parseConfigFile()                                               *)

freeServingID(servings) ==
    Min({n \in 0..Len(servings) : \A i \in DOMAIN servings : servings[i].id # n})

\* Fault: a device and port that are served already are served again.
serveAgain(servings, device, port, bound) ==
    IF bound
    THEN Append(servings, [id |-> freeServingID(servings), device |-> device, port |-> port])
    ELSE servings

\* Server::serve(): bind() may fail.
serve(servings, device, port, bound) ==
    IF bound /\ ~\E i \in DOMAIN servings : servings[i].device = device /\ servings[i].port = port
    THEN Append(servings, [id |-> freeServingID(servings), device |-> device, port |-> port])
    ELSE servings

\* Device and port of an entry of "serve"; without a colon each is the whole of it, and
\* sscanf() leaves nPort as it is when there is no number.
ServePair(s, garbage) ==
    LET colon == Min({Len(s) + 1} \cup Positions(s, ":"))
        port  == SubSeq(s, IF colon > Len(s) THEN 1 ELSE colon + 1, Len(s))
    IN  <<SubSeq(s, 1, colon - 1), IF IsNumber(port) THEN Number(port) ELSE garbage>>

NetworkSection == <<"network">>
ServerSection == <<"server">>

ServeItems(map) == list(map, ServerSection, <<"serve">>)
Patterns(map)   == list(map, NetworkSection, <<"allowed-devices">>)

Throws(map) == Patterns(map).throws \/ ServeItems(map).throws

\* The servings after the loop over the entries, each tried in turn.
Servings(items, garbage, bound) ==
    LET after[i \in 0..Len(items)] ==
            IF i = 0 THEN <<>>
            ELSE LET pair == ServePair(items[i], garbage[i])
                 IN  serve(after[i - 1], pair[1], pair[2], bound[i])
    IN  after[Len(items)]

\* The settings a file leads to, given what each nPort holds and which bind() succeeds.
Configured(map, garbage, bound) ==
    LET mode  == value(map, NetworkSection, <<"list-mode">>, <<"whitelist">>)
    IN  [mode      |-> IF mode \in {<<"whitelist">>, <<"blacklist">>} THEN mode[1]
                       ELSE Unconfigured.mode,
         entries   |-> Patterns(map).items,
         keepalive |-> doubleValue(map, ServerSection, <<"keepalive-interval">>, 1),
         maxAge    |-> doubleValue(map, NetworkSection, <<"max-mac-age">>, 300),
         update    |-> doubleValue(map, NetworkSection, <<"update-interval">>, 10),
         ping      |-> doubleValue(map, NetworkSection, <<"ping-broadcast-interval">>, 10),
         servings  |-> Servings(ServeItems(map).items, garbage, bound),
         name      |-> value(map, ServerSection, <<"name">>, <<"New", " ", "Server">>)]

\* The settings a file may lead to; none when parsing it throws.
parseConfigFile(lines) ==
    LET map == loadFromFile(lines)
    IN  IF Throws(map) THEN {}
        ELSE {Configured(map, garbage, bound) :
                 garbage \in [DOMAIN ServeItems(map).items -> Ports],
                 bound \in [DOMAIN ServeItems(map).items -> BOOLEAN]}

\* The texts, each taken alone, are read as meant: what the parsers make of a file and of
\* an oui.txt is what the case says of it.
ReadAsMeant ==
    /\ \A file \in UNION {Range(c.files) : c \in Cases} :
          LET map == loadFromFile(file.lines)
              items == ServeItems(map).items
          IN  ~Throws(map) =>
                 /\ \A s \in parseConfigFile(file.lines) :
                       \A f \in DOMAIN file.means \ {"servings"} : s[f] = file.means[f]
                 /\ items \in Seq(Seq(STRING))
                 /\ \A i \in DOMAIN items, garbage \in Ports :
                       \E k \in DOMAIN file.means.servings :
                          LET pair == ServePair(items[i], garbage)
                          IN  /\ pair[1] = file.means.servings[k].device
                              /\ pair[2] \in file.means.servings[k].ports
    /\ \A c \in Cases :
          LET read == readVendors(c.vendors)
          IN  ~read.throws => \A mac \in DOMAIN c.knows : VendorIn(read.cache, mac) = c.knows[mac]

\* One turn of the loop over the candidates: the next one is tried only when this one
\* cannot be opened.
TryConfig ==
    /\ phase = "config"
    /\ LET path == Candidates(tokenValue(args))[at]
       IN  IF path \notin DOMAIN case.files
           THEN /\ at' = at + 1
                /\ phase' = IF at < 4 THEN phase ELSE "loop"
                /\ UNCHANGED <<outcome, settings, discoveryVars>>
           ELSE /\ UNCHANGED at
                /\ LET results == parseConfigFile(case.files[path].lines)
                   IN  IF results = {}
                       THEN End("aborted") /\ UNCHANGED settings
                       ELSE /\ settings' \in results
                            /\ phase' = "loop"
                            /\ UNCHANGED <<outcome, discoveryVars>>
    /\ called' = IF phase' = "loop" THEN called \cup {Meant(case).name} ELSE called
    /\ UNCHANGED <<case, starts, status, vendors, args, background, run, signalled>>

-----------------------------------------------------------------------------
(* The loop, signals, and another run.                                     *)

\* Daemon::cycle(): discovery has its turn while Network and Server run.
Cycle ==
    /\ phase = "loop"
    /\ IF run THEN serverCycle(settings.name) /\ UNCHANGED <<phase, outcome>>
       ELSE End(status)
    /\ UNCHANGED <<case, starts, called, at, status, runVars, signalled>>

\* Fault: the flags are set again where the loop begins, after the signal.
SignalForgotten ==
    /\ phase # "ended" /\ ~signalled /\ signalled' = TRUE
    /\ IF phase \in {"static", "main"} THEN End("killed") /\ UNCHANGED run
       ELSE run' = (phase # "loop") /\ UNCHANGED <<phase, outcome, discoveryVars>>
    /\ UNCHANGED <<case, starts, called, at, status, vendors, args, background, settings>>

\* SIGTERM or SIGINT.  Until main() has installed catchHandler() it kills.
Signal ==
    /\ phase # "ended" /\ ~signalled /\ signalled' = TRUE
    /\ IF phase \in {"static", "main"} THEN End("killed") /\ UNCHANGED run
       ELSE run' = FALSE /\ UNCHANGED <<phase, outcome, discoveryVars>>
    /\ UNCHANGED <<case, starts, called, at, status, vendors, args, background, settings>>

\* Without a desktop nothing outlives a run, and another is like the first.
Restart ==
    /\ phase = "ended" /\ case.desktop /\ starts < MaxStarts
    /\ starts' = starts + 1
    /\ case' \in {c \in Cases : c.desktop}
    /\ phase' = "static" /\ outcome' = "none" /\ signalled' = FALSE
    /\ vendors' = <<>> /\ at' = 1 /\ args' = <<>> /\ background' = FALSE
    /\ status' = "failure" /\ settings' = Unconfigured /\ run' = TRUE
    /\ UNCHANGED <<called, discoveryVars>>

Main == Construct \/ InstallHandlers \/ ParseArtifact \/ CheckPrivileges \/ Fork \/ TryConfig \/ Cycle

Others == UNCHANGED <<case, starts, called, phase, outcome, at, status, runVars, signalled>>

DetectServers   == detectServers /\ Others
CheckServerInfo == checkServerInfo /\ Others
DeliverOne == \E d \in air : Deliver(d) /\ Others

\* The last run is over.
Done == phase = "ended" /\ (case.desktop => starts = MaxStarts) /\ UNCHANGED vars

Next == Main \/ Signal \/ Restart \/ DetectServers \/ CheckServerInfo \/ DeliverOne \/ Done

Spec == Init /\ [][Next]_vars

\* The loop turns, and the timer of the window fires.  Nobody has to ask, to signal or
\* to start another run, and no datagram has to arrive.
FairSpec == Spec /\ WF_vars(Cycle) /\ WF_vars(CheckServerInfo)

-----------------------------------------------------------------------------
(* Properties.                                                             *)

\* Whatever the order of the options, the process that reaches the loop is a background
\* process iff "-d" or "--daemon" was given as an option, and not as the value of
\* another; and parameters() are the artifacts that are neither (ArgumentParser::parse(),
\* one artifact at a time, against the whole command line).
StartedAsAsked ==
    phase = "loop" =>
        /\ background = MeantInBackground(case)
        /\ PickedInOrder(parameters(args), case.args, PlainAmong(case.args))

\* The settings in force in the loop are what the first file there is says, in each
\* style it may be written in (quotes, comments, order of sections), with no part of
\* another file mixed in; no serving is there twice, and none that is not written; and
\* vendorForMAC() knows what the first readable oui.txt says, and that only.
ConfiguredAsWritten ==
    phase = "loop" =>
        LET meant == Meant(case)
            served == settings.servings
        IN  /\ \A f \in DOMAIN meant \ {"servings"} : settings[f] = meant[f]
            /\ \A i, j \in DOMAIN served :
                  /\ \E k \in DOMAIN meant.servings :
                        /\ served[i].device = meant.servings[k].device
                        /\ served[i].port \in meant.servings[k].ports
                  /\ i # j => /\ served[i].id # served[j].id
                              /\ [served[i] EXCEPT !.id = 0] # [served[j] EXCEPT !.id = 0]
            /\ \A mac \in DOMAIN case.knows : vendorForMAC(mac) = case.knows[mac]

\* The connection manager has one row for a server, however often it answered and in
\* whatever order answers of several runs came in, and the row's name is one that a
\* run was configured with: never the name the daemon is built with, unless it found
\* no configuration, although requests may be waiting before main() has read any.
ListedAsConfigured ==
    /\ \A i \in DOMAIN listed : listed[i].name \in called
    /\ \A i, j \in DOMAIN listed : listed[i].ip = listed[j].ip => i = j

\* A request that has reached a running daemon is answered, unless the daemon ends, and
\* an answer that has reached the desktop leads to a row, whatever is before them in the
\* queues of the two sockets: copies, and each side's own messages.
AnswersListed ==
    LET Queued(m, v) == \E i \in DOMAIN inbox[m] : inbox[m][i].value = v
        Answered == \E d \in air : d.value = Response(settings.name)
    IN  /\ phase = "loop" /\ Queued("daemon", Request) ~> phase # "loop" \/ Answered
        /\ (\E n \in called : Queued("desktop", Response(n))) ~> ipInList("daemon")

\* A signal that came at any time since main() has installed its handlers, while it
\* parsed, forked or read its configuration too, ends the loop.
SignalEndsRun == phase = "loop" /\ signalled ~> phase = "ended"
=============================================================================
