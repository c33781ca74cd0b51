---------------------------- MODULE SSHCollector ----------------------------
(***************************************************************************)
(* One collection over SSH: SSHCollector of core/ssh.py with the commands  *)
(* and the OS profile it picks, and CollectionEngine.collect of            *)
(* core/collection/engine.py, which turns whatever happens into a result.  *)
(*                                                                         *)
(* A host is what the far side does: how the connection ends, which host   *)
(* key it shows, whether it knows our key and how an open session ends.    *)
(* Its shell maps the commands, crontabs and files that are read with exit *)
(* status 0 to what they print.  Lines are sequences of fields; PowerShell *)
(* objects are records whose missing keys are "absent", one object where a *)
(* list is meant is a list of one, and output that is no JSON is that of a *)
(* command that failed.                                                    *)
(***************************************************************************)
EXTENDS Naturals, Sequences, FiniteSets, SequencesExt

-----------------------------------------------------------------------------
(* Connecting *)

Links == {"open", "refused", "no route", "timed out", "network down", "no such name", "no banner"}

Host == [address : BOOLEAN, link : Links, key : {"known", "new", "changed"},
         strict : BOOLEAN, login : BOOLEAN,
         fault : {"none", "blocked", "dropped", "read timeout", "hung"}]

\* The words of the exception's text that _categorize_ssh_error looks for.
\* paramiko gathers refused and unroutable connects in one error that says
\* only that it was unable to connect.
Words(link) ==
    CASE link = "timed out"    -> {"timed out"}
      [] link = "network down" -> {"unreachable"}
      [] link = "no such name" -> {"name or service not known"}
      [] OTHER                 -> {}

\* _RecordingAutoAddPolicy, or RejectPolicy in strict mode.
KeyAccepted(host) == host.key = "known" \/ (host.key = "new" /\ ~host.strict)

\* _InjectedKeyCollector._connect: the SSHCollectionError it raises.  A key
\* that strict mode refuses is an SSHException like any other here.
ConnectError(host) ==
    IF host.link # "open"      THEN [kind |-> "generic", words |-> Words(host.link)]
    ELSE IF host.key = "changed"   THEN [kind |-> "host_key_mismatch", words |-> {}]
    ELSE IF ~KeyAccepted(host)     THEN [kind |-> "generic", words |-> {}]
    ELSE                                [kind |-> "auth_failed", words |-> {"authentication"}]

Connects(host) == host.link = "open" /\ KeyAccepted(host) /\ host.login

\* last_host_key_event: the key of the session, or the one that did not match.
FingerprintKnown(host) == Connects(host) \/ ConnectError(host).kind = "host_key_mismatch"

CategoryOfKind ==
    [host_key_mismatch |-> "host_key_changed",
     host_key_unknown  |-> "auth_failed",
     auth_failed       |-> "auth_failed"]

CategoryOfWords ==
    << <<{"authentication"}, "auth_failed">>,
       <<{"timed out", "timeout"}, "timeout">>,
       <<{"unreachable", "no route", "connection refused"}, "unreachable">>,
       <<{"name or service not known", "could not resolve"}, "unreachable">> >>

\* _categorize_ssh_error
Category(error) ==
    IF error.kind \in DOMAIN CategoryOfKind THEN CategoryOfKind[error.kind]
    ELSE LET hits == {n \in DOMAIN CategoryOfWords : CategoryOfWords[n][1] \cap error.words # {}}
         IN  IF hits = {} THEN "command_failed" ELSE CategoryOfWords[Min(hits)][2]

-----------------------------------------------------------------------------
(* The commands: core/commands.py and core/os_profile.py *)

\* _run: what a command prints, nothing when it exits with something else than 0.
Printed(outputs, of) == IF of \in DOMAIN outputs THEN outputs[of] ELSE {}

Run(shell, command) == Printed(shell.commands, command)

\* _DISTRO_BY_ID by family.
RHELLike   == {"rhel", "fedora", "rocky", "almalinux", "centos"}
DebianLike == {"ubuntu", "debian"}

\* _family_of: the distro itself first, then its ID_LIKE.
FamilyOf(release) ==
    IF release.id \in RHELLike THEN "rhel-like"
    ELSE IF release.id \in DebianLike THEN "debian-like"
    ELSE IF release.like \cap {"rhel", "fedora", "centos"} # {} THEN "rhel-like"
    ELSE IF release.like \cap DebianLike # {} THEN "debian-like"
    ELSE "unknown"

\* detect: a version that cannot be parsed is 0.
Detect(release) == [family |-> FamilyOf(release), major |-> release.major]

\* detect_windows: Windows is Windows, whatever the query printed.
DetectWindows == [family |-> "windows", major |-> 10]

Unknown == [family |-> "unknown", major |-> 0]

\* _detect_os: POSIX first, then Windows.
DetectOS(shell) ==
    CASE Run(shell, "os-release") # {} -> Detect(CHOOSE r \in Run(shell, "os-release") : TRUE)
      [] Run(shell, "os-release") = {} /\ Run(shell, "Win32_OperatingSystem") # {} -> DetectWindows
      [] OTHER -> Unknown

\* command_set_for
CommandSet(profile) ==
    CASE profile.family = "windows"     -> "windows"
      [] profile.family = "debian-like" -> "debian_like"
      [] profile.family = "rhel-like" /\ profile.major \in 1..7 -> "rhel7"
      [] OTHER -> "rhel_modern"

\* What tells the sets for Linux apart among the commands that are run: the ss
\* of RHEL 7 cannot leave out its header.
PortsCommand ==
    [rhel7 |-> "ss | tail", rhel_modern |-> "ss -H", debian_like |-> "ss -H"]

-----------------------------------------------------------------------------
(* Linux *)

Services(shell) ==
    {line[1] : line \in {l \in Run(shell, "systemctl") : Len(l) >= 4}}

\* The addresses of one family by interface.
Cidrs(shell, command, word, iface) ==
    {line[4] : line \in {l \in Run(shell, command) :
                            Len(l) >= 4 /\ l[2] = iface /\ l[3] = word}}

Ifaces(shell) ==
    LET lines == {l \in Run(shell, "ip -4") : Len(l) >= 4 /\ l[3] = "inet"}
                   \cup {l \in Run(shell, "ip -6") : Len(l) >= 4 /\ l[3] = "inet6"}
    IN  [i \in {l[2] : l \in lines} |->
            [v4 |-> Cidrs(shell, "ip -4", "inet", i), v6 |-> Cidrs(shell, "ip -6", "inet6", i)]]

Routes(shell) == Run(shell, "ip route") \ {<<>>}

Resolvers(shell) ==
    {line[2] : line \in {l \in Run(shell, "resolv.conf") : Len(l) >= 2 /\ l[1] = "nameserver"}}

\* The local address is a pair; one without a port is skipped.
Ports(shell, command) ==
    {[proto |-> line[1], address |-> line[5][1], port |-> line[5][2]] :
        line \in {l \in Run(shell, command) : Len(l) >= 5 /\ l[5][2] # ""}}

PseudoFilesystems == {"proc", "sysfs", "cgroup", "cgroup2", "devpts", "tmpfs", "devtmpfs"}

Mounts(shell) ==
    LET lines == {l \in Run(shell, "findmnt") : Len(l) >= 4 /\ l[3] \notin PseudoFilesystems}
    IN  [target \in {l[1] : l \in lines} |->
            LET line == CHOOSE l \in lines : l[1] = target
            IN  [source |-> line[2], fstype |-> line[3]]]

IsEntry(line) == line # <<>> /\ line[1] # "#"

\* The lines of a file below /etc, in order.
FileEntries(shell, path) ==
    SelectSeq(IF path \in DOMAIN shell.files THEN shell.files[path] ELSE <<>>, IsEntry)

\* Crontabs of users, an entry with its owner, and the files that have entries.
Cron(shell) ==
    [users |-> UNION {{<<line[1], entry>> : entry \in {e \in Printed(shell.crontabs, line[1]) : IsEntry(e)}} :
                        line \in Run(shell, "passwd")},
     files |-> [path \in {l[1] : l \in {k \in Run(shell, "find cron") : FileEntries(shell, k[1]) # <<>>}} |->
                  FileEntries(shell, path)]]

Linux(shell, set) ==
    [services |-> Services(shell),
     ifaces   |-> Ifaces(shell),
     routes   |-> Routes(shell),
     dns      |-> Resolvers(shell),
     ports    |-> Ports(shell, PortsCommand[set]),
     mounts   |-> Mounts(shell),
     cron     |-> Cron(shell)]

-----------------------------------------------------------------------------
(* Windows: the same shape from PowerShell objects *)

Or(value, default) == IF value = "absent" THEN default ELSE value

Having(shell, command, keys) ==
    {o \in Run(shell, command) : \A k \in keys : o[k] # "absent"}

\* Only the address is required beside the interface; the prefix is added if known.
WindowsIfaces(shell) ==
    LET needed == {"InterfaceAlias", "IPAddress"}
        v4 == Having(shell, "Get-NetIPAddress 4", needed)
        v6 == Having(shell, "Get-NetIPAddress 6", needed)
        on(i, objects) == {<<o.IPAddress, Or(o.PrefixLength, "")>> :
                              o \in {p \in objects : p.InterfaceAlias = i}}
    IN  [i \in {o.InterfaceAlias : o \in v4 \cup v6} |-> [v4 |-> on(i, v4), v6 |-> on(i, v6)]]

WindowsRoutes(shell) ==
    {<<Or(o.DestinationPrefix, "?"), Or(o.NextHop, "?"), Or(o.InterfaceAlias, "?")>> :
        o \in Run(shell, "Get-NetRoute")}

WindowsPorts(shell) ==
    {[proto |-> "tcp", address |-> Or(o.LocalAddress, "0.0.0.0"), port |-> o.LocalPort] :
        o \in {p \in Run(shell, "Get-NetTCPConnection") : p.LocalPort \notin {"absent", "0"}}}

\* A volume without a letter goes by its label, one without either by "?".
VolumeTarget(o) == Or(o.DriveLetter, Or(o.FileSystemLabel, "?"))

WindowsMounts(shell) ==
    LET volumes == Run(shell, "Get-Volume")
    IN  [target \in {VolumeTarget(o) : o \in volumes} |->
            LET o == CHOOSE v \in volumes : VolumeTarget(v) = target
            IN  [source |-> Or(o.FileSystemLabel, ""), fstype |-> Or(o.FileSystemType, "")]]

\* Scheduled tasks under their path, the root if they have none: a file per
\* path, its names sorted, so that the same names are always the same list.
WindowsTasks(shell) ==
    LET tasks    == Having(shell, "Get-ScheduledTask", {"TaskName"})
        names(p) == {o.TaskName : o \in {t \in tasks : Or(t.TaskPath, "root") = p}}
    IN  [users |-> {},
         files |-> [p \in {Or(o.TaskPath, "root") : o \in tasks} |-> SetToSeq(names(p))]]

Windows(shell) ==
    [services |-> {o.Name : o \in Having(shell, "Get-Service", {"Name"})},
     ifaces   |-> WindowsIfaces(shell),
     routes   |-> WindowsRoutes(shell),
     dns      |-> UNION {o.ServerAddresses : o \in Run(shell, "Get-DnsClientServerAddress")},
     ports    |-> WindowsPorts(shell),
     mounts   |-> WindowsMounts(shell),
     cron     |-> WindowsTasks(shell)]

-----------------------------------------------------------------------------
(* SSHCollector.collect and CollectionEngine.collect *)

\* Every section is there, filled or not: a command that fails leaves its own empty.
Collected(shell) ==
    LET profile  == DetectOS(shell)
        sections == IF profile.family = "windows" THEN Windows(shell)
                    ELSE Linux(shell, CommandSet(profile))
    IN  [family |-> profile.family, services |-> sections.services, ports |-> sections.ports,
         mounts |-> sections.mounts, ifaces |-> sections.ifaces, routes |-> sections.routes,
         dns |-> sections.dns, cron |-> sections.cron]

FailureCategories ==
    {"unreachable", "auth_failed", "host_key_changed", "command_failed", "partial", "timeout"}

\* What ends an open session early: the read of an output that is late, or
\* anything else, a command the read-only gate refuses among it.
CategoryOfFault(fault) == IF fault = "read timeout" THEN "timeout" ELSE "command_failed"

\* failure_category of the result, "none" when it succeeded.
Result(host) ==
    IF ~host.address        THEN "unreachable"
    ELSE IF ~Connects(host) THEN Category(ConnectError(host))
    ELSE IF host.fault # "none" THEN CategoryOfFault(host.fault)
    ELSE "none"

\* A command that never exits keeps the thread: the exit status is awaited
\* before the read that has the timeout.
Hangs(host) == host.address /\ Connects(host) /\ host.fault = "hung"

=============================================================================
