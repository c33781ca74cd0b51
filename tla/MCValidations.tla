--------------------------- MODULE MCValidations ---------------------------
EXTENDS Validations, SSHCollector, TLC

MCCritical == {"postgresql"}
MCKnownGood == {"qemu-guest-agent"}
MCRenames == << <<"eth0", "ens3">>, <<"eth0", "ens18">> >>
MCDefaultRoutes == {<<"default", "via", "gw">>}

\* A database host by what its commands print, and the same host when systemctl
\* and both detections of its OS fail: from the first to the second a rule
\* decides, from the second to the first the model is asked.
Prints ==
    [of \in {"os-release", "systemctl"} |->
        IF of = "os-release" THEN {[id |-> "rhel", like |-> {}, major |-> 9]}
        ELSE {<<"postgresql", "loaded", "active", "running">>}]

Quiet == [commands |-> <<>>, crontabs |-> <<>>, files |-> <<>>]

MCGuests == {Collected([Quiet EXCEPT !.commands = Prints]), Collected(Quiet)}

\* At first the VMs print; one of them has a baseline, captured when it did not.
MCStarts ==
    LET prints == Collected([Quiet EXCEPT !.commands = Prints])
    IN  {[guest |-> [v \in VMs |-> prints],
          baseline |-> [v \in VMs |-> IF v = w THEN Collected(Quiet) ELSE none]] : w \in VMs}

\* A Linux and a Windows host whose commands all print something.
Filled(commands) == [commands |-> commands, crontabs |-> [of \in {"root"} |-> {<<"daily">>, <<"#">>}],
                     files |-> [of \in {"/etc/crontab"} |-> << <<"weekly">>, <<"#">>, <<"monthly">> >>]]

LinuxCommands ==
    << <<"os-release", [id |-> "ol", like |-> {"fedora"}, major |-> 7]>>,
       <<"systemctl", <<"postgresql", "loaded", "active", "running">> >>,
       <<"ip -4", <<"2:", "eth0", "inet", "10.0.0.5/24">> >>, <<"ip -6", <<"2:", "eth0", "inet6", "fe80::1/64">> >>,
       <<"ip route", <<"default", "via", "gw">> >>, <<"resolv.conf", <<"nameserver", "10.0.0.1">> >>,
       <<"ss | tail", <<"tcp", "LISTEN", "0", "128", <<"0.0.0.0", "5432">> >> >>,
       <<"findmnt", <<"/data", "/dev/sdb1", "xfs", "rw">> >>, <<"passwd", <<"root">> >>,
       <<"find cron", <<"/etc/crontab">> >> >>

WindowsCommands ==
    << <<"Win32_OperatingSystem", "Server 2022">>, <<"Get-Service", [Name |-> "postgresql"]>>,
       <<"Get-NetIPAddress 4", [InterfaceAlias |-> "eth0", IPAddress |-> "10.0.0.5", PrefixLength |-> "24"]>>,
       <<"Get-NetIPAddress 6", [InterfaceAlias |-> "absent", IPAddress |-> "fe80::1", PrefixLength |-> "64"]>>,
       <<"Get-NetRoute", [DestinationPrefix |-> "0.0.0.0/0", NextHop |-> "gw", InterfaceAlias |-> "absent"]>>,
       <<"Get-DnsClientServerAddress", [ServerAddresses |-> {"10.0.0.1"}]>>,
       <<"Get-NetTCPConnection", [LocalAddress |-> "absent", LocalPort |-> "5432"]>>,
       <<"Get-Volume", [DriveLetter |-> "absent", FileSystemLabel |-> "data", FileSystemType |-> "NTFS"]>>,
       <<"Get-ScheduledTask", [TaskPath |-> "absent", TaskName |-> "daily"]>> >>

OfHost(commands) ==
    Collected(Filled([c \in {commands[n][1] : n \in DOMAIN commands} |->
                         {commands[n][2] : n \in {k \in DOMAIN commands : commands[k][1] = c}}]))

\* Both families fill every section, and alike where the hosts are alike.
ASSUME SectionsAreFilled ==
    LET linux == OfHost(LinuxCommands)
        windows == OfHost(WindowsCommands)
    IN  /\ linux.family = "rhel-like" /\ windows.family = "windows"
        /\ \A s \in {"services", "ports", "routes", "dns"} : linux[s] # {} /\ windows[s] # {}
        /\ linux.cron = [users |-> {<<"root", <<"daily">> >>},
                         files |-> [of \in {"/etc/crontab"} |-> << <<"weekly">>, <<"monthly">> >>]]
        /\ windows.cron = [users |-> {}, files |-> [of \in {"root"} |-> <<"daily">>]]
        /\ DOMAIN linux.mounts = {"/data"} /\ DOMAIN windows.mounts = {"data"}
        /\ linux.services = windows.services /\ linux.ports = windows.ports
        /\ DOMAIN linux.ifaces = DOMAIN windows.ifaces

\* The comparison of a wave run looks for the word "default" in the routes, which
\* the routes of a Windows host do not contain: losing them all still passes.
ASSUME WindowsRoutesAreNotCompared ==
    LET windows == OfHost(WindowsCommands)
    IN  DiffCollection(windows, [windows EXCEPT !.routes = {}]) = "pass"

\* The lines of a system cron file in another order are a pass of the first
\* tier and a warning of a wave run.
ASSUME ReorderedCronFileDisagrees ==
    LET linux == OfHost(LinuxCommands)
        moved == [linux EXCEPT !.cron.files["/etc/crontab"] = << <<"monthly">>, <<"weekly">> >>]
    IN  /\ Classify(ComputeDiff(linux, moved), TRUE) = [tier |-> 1, status |-> "pass"]
        /\ DiffCollection(linux, moved) = "warn"

\* trustyai is configured, vllm has no chat, and the key of maas is missing.
MCEnvironment == Variables \ {"LLM_MAAS_API_KEY"}

Symmetry == Permutations(Jobs) \cup Permutations(VMs)
=============================================================================
