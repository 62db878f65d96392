----------------------------- MODULE MCServices -----------------------------
(***************************************************************************)
(* The device drivers, the network protocols and the system services for   *)
(* TLC: the parts of the USB stack, AHCI, the two network controllers,     *)
(* TCP, DHCP with networkd, the datagram protocols, accounts, the device   *)
(* list, volumed and logd. The modules share no state, so a behaviour      *)
(* follows one of them, the one in focus; the others are absent.           *)
(***************************************************************************)
EXTENDS Integers, Sequences, FiniteSets, TLC, Tcp, Xhci, Datagrams

CONSTANTS u1, u2, Debounce, ResetTimeout, MaxConnects, MaxHubFaults, USlots,
    HubPorts, MaxDepth, MaxSetupFaults, AhciLba, MaxAhciCalls, Attempts,
    MaxTags, MaxBotFaults, HidKey, MaxReports, MaxHidFaults, MaxDescriptors,
    MaxFields, Nic, NoNic, RxRing, TxRing, MaxFrames, MaxNicEvents, RxCount,
    TxCount, Passes, MaxRtlFrames, MaxMoves, MaxStarts, MaxRtlFaults, Iface,
    Options, SecMod, EventSlots, MaxRequests, MaxLinkChanges, MaxLeaseFaults,
    AccountName, Developer, FirstUid, LastUid, MaxRecords, MaxUpdates,
    MaxAccountFaults, BlockSlots, SnapshotMax, DisplayMax, PciCount, UsbCount,
    PageMax, ListMax, Restarts, MaxOps, Labels, LabelMax, VolumeRecords,
    MaxInstances, MaxVolumeOps, MaxVolumeFaults, RecordUnits, StorageMax,
    EarlyLines, EarlyMax, QueryMax, MaxSubmits, MaxBoots, MaxLogFaults

VARIABLES focus, ud, umem, uhw, ustk, ugh, pt, pm, pgh, ah, bh, bd, btd, bgh, hd,
    hb, hh, hk, hgh, dx, lx, nic, tx, rx, icr, ctx, work, irq, egh, rc, rhw,
    rmem, rirq, rpoll, held, rtlgh, nics, lan, nd, file, events, lgh, reg,
    loaded, adisk, homes, pend, upd, agh, slots, fresh, snap, gen, displays,
    scall, pager, dev_events, lists, ops, volume_dev, mounts, names, event,
    vd, disk, born, vops, vfaults, quiet, log_file, lg, boot, view, acked,
    hurt, submits, logFaults

Interchangeable == Permutations({u1, u2})

\* Lease time, T1 and T2 as a server sends them; -1 is an option it leaves out.
OptionSets == {<<4, -1, -1>>, <<3, 0, 7>>, <<2, 1, 1>>, <<5, 7, 1>>}

VolumeLabels == {<<"a">>, <<"s", "a">>}

Enum == INSTANCE UsbEnumeration
Dsk == INSTANCE DiskDrivers
Usb == INSTANCE UsbInterfaces
Card == INSTANCE Nics WITH dev <- nic, rgh <- rtlgh
Dhcp == INSTANCE Lease WITH net <- lan
Acc == INSTANCE Accounts WITH disk <- adisk
Snap == INSTANCE DeviceSnapshot WITH
           call <- scall, table <- lists, events <- dev_events
Vols == INSTANCE Volumes WITH MaxRecords <- VolumeRecords, dev <- volume_dev
Logd == INSTANCE Log WITH file <- log_file

\* The state of a component that is not the one in focus.
Absent == "absent"

AbsentRing ==
    /\ tring = Absent /\ chw = Absent /\ cop = Absent /\ crec = Absent
    /\ led = Absent /\ ering = Absent /\ rgh = Absent
AbsentXhci ==
    /\ xp = Absent /\ xq = Absent /\ xs = Absent /\ xd = Absent /\ xw = Absent
    /\ xio = Absent /\ xgh = Absent
usbSetupVars == <<ud, umem, uhw, ustk, ugh>>
AbsentSetup ==
    /\ ud = Absent /\ umem = Absent /\ uhw = Absent /\ ustk = Absent
    /\ ugh = Absent
AbsentCommand ==
    /\ kring = Absent /\ kmb = Absent /\ kop = Absent /\ khw = Absent
    /\ kgh = Absent
portVars == <<pt, pm, pgh>>
AbsentPort == pt = Absent /\ pm = Absent /\ pgh = Absent
ahciVars == <<ah>>
AbsentAhci == ah = Absent
botVars == <<bh, bd, btd, bgh>>
AbsentBot == bh = Absent /\ bd = Absent /\ btd = Absent /\ bgh = Absent
hidVars == <<hd, hb, hh, hk, hgh>>
AbsentHid ==
    /\ hd = Absent /\ hb = Absent /\ hh = Absent /\ hk = Absent /\ hgh = Absent
descriptorVars == <<dx, lx>>
AbsentDesc == dx = Absent /\ lx = Absent
e1000Vars == <<nic, tx, rx, icr, ctx, work, irq, egh>>
AbsentE1000 ==
    /\ nic = Absent /\ tx = Absent /\ rx = Absent /\ icr = Absent
    /\ ctx = Absent /\ work = Absent /\ irq = Absent /\ egh = Absent
rtlVars == <<rc, rhw, rmem, rirq, rpoll, held, rtlgh>>
AbsentRtl ==
    /\ rc = Absent /\ rhw = Absent /\ rmem = Absent /\ rirq = Absent
    /\ rpoll = Absent /\ held = Absent /\ rtlgh = Absent
AbsentTcp ==
    /\ tcp = Absent /\ toPeer = Absent /\ toHost = Absent /\ peer = Absent
    /\ calls = Absent /\ tgh = Absent
leaseVars == <<nics, lan, nd, file, events, lgh>>
AbsentLease ==
    /\ nics = Absent /\ lan = Absent /\ nd = Absent /\ file = Absent
    /\ events = Absent /\ lgh = Absent
AbsentDgram ==
    /\ dev = Absent /\ conf = Absent /\ arp = Absent /\ net = Absent
    /\ asked = Absent /\ endpoints = Absent /\ objects = Absent /\ dns = Absent
    /\ resolver_active = Absent /\ ping_state = Absent /\ caller = Absent
    /\ heard = Absent /\ stolen = Absent /\ ids = Absent /\ incoming = Absent
    /\ changes = Absent
accountVars == <<reg, loaded, adisk, homes, pend, upd, agh>>
AbsentAccounts ==
    /\ reg = Absent /\ loaded = Absent /\ adisk = Absent /\ homes = Absent
    /\ pend = Absent /\ upd = Absent /\ agh = Absent
snapshotVars == <<slots, fresh, snap, gen, displays, scall, pager, dev_events,
                  lists, ops>>
AbsentSnapshot ==
    /\ slots = Absent /\ fresh = Absent /\ snap = Absent /\ gen = Absent
    /\ displays = Absent /\ scall = Absent /\ pager = Absent
    /\ dev_events = Absent /\ lists = Absent /\ ops = Absent
volumeVars == <<volume_dev, mounts, names, event, vd, disk, born, vops,
                vfaults, quiet>>
AbsentVolumes ==
    /\ volume_dev = Absent /\ mounts = Absent /\ names = Absent
    /\ event = Absent /\ vd = Absent /\ disk = Absent /\ born = Absent
    /\ vops = Absent /\ vfaults = Absent /\ quiet = Absent
logVars == <<log_file, lg, boot, view, acked, hurt, submits, logFaults>>
AbsentLog ==
    /\ log_file = Absent /\ lg = Absent /\ boot = Absent /\ view = Absent
    /\ acked = Absent /\ hurt = Absent /\ submits = Absent
    /\ logFaults = Absent

ServicesInit ==
    /\ focus \in {"ring", "xhci", "setup", "command", "port", "ahci", "bot",
                 "hid", "descriptors", "e1000", "rtl8168", "tcp", "lease",
                 "datagram", "accounts", "snapshot", "volumes", "log"}
    /\ IF focus = "ring" THEN RingInit ELSE AbsentRing
    /\ IF focus = "xhci" THEN XhciInit ELSE AbsentXhci
    /\ IF focus = "setup" THEN Enum!UsbSetupInit ELSE AbsentSetup
    /\ IF focus = "command" THEN CommandInit ELSE AbsentCommand
    /\ IF focus = "port" THEN Enum!PortInit ELSE AbsentPort
    /\ IF focus = "ahci" THEN Dsk!AhciInit ELSE AbsentAhci
    /\ IF focus = "bot" THEN Dsk!BotInit ELSE AbsentBot
    /\ IF focus = "hid" THEN Usb!HidInit ELSE AbsentHid
    /\ IF focus = "descriptors" THEN Usb!DescriptorInit ELSE AbsentDesc
    /\ IF focus = "e1000" THEN Card!E1000Init ELSE AbsentE1000
    /\ IF focus = "rtl8168" THEN Card!RtlInit ELSE AbsentRtl
    /\ IF focus = "tcp" THEN TcpInit ELSE AbsentTcp
    /\ IF focus = "lease" THEN Dhcp!LeaseInit ELSE AbsentLease
    /\ IF focus = "datagram" THEN DgramInit ELSE AbsentDgram
    /\ IF focus = "accounts" THEN Acc!AccountsInit ELSE AbsentAccounts
    /\ IF focus = "snapshot" THEN Snap!SnapshotInit ELSE AbsentSnapshot
    /\ IF focus = "volumes" THEN Vols!VolumesInit ELSE AbsentVolumes
    /\ IF focus = "log" THEN Logd!LogInit ELSE AbsentLog

ServicesNext ==
    /\ UNCHANGED focus
    /\ \/ /\ focus = "ring" /\ RingNext
          /\ UNCHANGED <<xhciVars, usbSetupVars, commandVars, portVars,
                         ahciVars, botVars, hidVars, descriptorVars,
                         e1000Vars, rtlVars, tcpVars, leaseVars, dgramVars,
                         accountVars, snapshotVars, volumeVars, logVars>>
       \/ /\ focus = "xhci" /\ XhciNext
          /\ UNCHANGED <<ringVars, usbSetupVars, commandVars, portVars,
                         ahciVars, botVars, hidVars, descriptorVars,
                         e1000Vars, rtlVars, tcpVars, leaseVars, dgramVars,
                         accountVars, snapshotVars, volumeVars, logVars>>
       \/ /\ focus = "setup" /\ Enum!UsbSetupNext
          /\ UNCHANGED <<ringVars, xhciVars, commandVars, portVars, ahciVars,
                         botVars, hidVars, descriptorVars, e1000Vars, rtlVars,
                         tcpVars, leaseVars, dgramVars, accountVars,
                         snapshotVars, volumeVars, logVars>>
       \/ /\ focus = "command" /\ CommandNext
          /\ UNCHANGED <<ringVars, xhciVars, usbSetupVars, portVars, ahciVars,
                         botVars, hidVars, descriptorVars, e1000Vars, rtlVars,
                         tcpVars, leaseVars, dgramVars, accountVars,
                         snapshotVars, volumeVars, logVars>>
       \/ /\ focus = "port" /\ Enum!PortNext
          /\ UNCHANGED <<ringVars, xhciVars, usbSetupVars, commandVars,
                         ahciVars, botVars, hidVars, descriptorVars,
                         e1000Vars, rtlVars, tcpVars, leaseVars, dgramVars,
                         accountVars, snapshotVars, volumeVars, logVars>>
       \/ /\ focus = "ahci" /\ Dsk!AhciNext
          /\ UNCHANGED <<ringVars, xhciVars, usbSetupVars, commandVars,
                         portVars, botVars, hidVars, descriptorVars,
                         e1000Vars, rtlVars, tcpVars, leaseVars, dgramVars,
                         accountVars, snapshotVars, volumeVars, logVars>>
       \/ /\ focus = "bot" /\ Dsk!BotNext
          /\ UNCHANGED <<ringVars, xhciVars, usbSetupVars, commandVars,
                         portVars, ahciVars, hidVars, descriptorVars,
                         e1000Vars, rtlVars, tcpVars, leaseVars, dgramVars,
                         accountVars, snapshotVars, volumeVars, logVars>>
       \/ /\ focus = "hid" /\ Usb!HidNext
          /\ UNCHANGED <<ringVars, xhciVars, usbSetupVars, commandVars,
                         portVars, ahciVars, botVars, descriptorVars,
                         e1000Vars, rtlVars, tcpVars, leaseVars, dgramVars,
                         accountVars, snapshotVars, volumeVars, logVars>>
       \/ /\ focus = "descriptors" /\ Usb!DescriptorNext
          /\ UNCHANGED <<ringVars, xhciVars, usbSetupVars, commandVars,
                         portVars, ahciVars, botVars, hidVars, e1000Vars,
                         rtlVars, tcpVars, leaseVars, dgramVars, accountVars,
                         snapshotVars, volumeVars, logVars>>
       \/ /\ focus = "e1000" /\ Card!E1000Next
          /\ UNCHANGED <<ringVars, xhciVars, usbSetupVars, commandVars,
                         portVars, ahciVars, botVars, hidVars, descriptorVars,
                         rtlVars, tcpVars, leaseVars, dgramVars, accountVars,
                         snapshotVars, volumeVars, logVars>>
       \/ /\ focus = "rtl8168" /\ Card!RtlNext
          /\ UNCHANGED <<ringVars, xhciVars, usbSetupVars, commandVars,
                         portVars, ahciVars, botVars, hidVars, descriptorVars,
                         e1000Vars, tcpVars, leaseVars, dgramVars,
                         accountVars, snapshotVars, volumeVars, logVars>>
       \/ /\ focus = "tcp" /\ TcpNext
          /\ UNCHANGED <<ringVars, xhciVars, usbSetupVars, commandVars,
                         portVars, ahciVars, botVars, hidVars, descriptorVars,
                         e1000Vars, rtlVars, leaseVars, dgramVars,
                         accountVars, snapshotVars, volumeVars, logVars>>
       \/ /\ focus = "lease" /\ Dhcp!LeaseNext
          /\ UNCHANGED <<ringVars, xhciVars, usbSetupVars, commandVars,
                         portVars, ahciVars, botVars, hidVars, descriptorVars,
                         e1000Vars, rtlVars, tcpVars, dgramVars, accountVars,
                         snapshotVars, volumeVars, logVars>>
       \/ /\ focus = "datagram" /\ DgramNext
          /\ UNCHANGED <<ringVars, xhciVars, usbSetupVars, commandVars,
                         portVars, ahciVars, botVars, hidVars, descriptorVars,
                         e1000Vars, rtlVars, tcpVars, leaseVars, accountVars,
                         snapshotVars, volumeVars, logVars>>
       \/ /\ focus = "accounts" /\ Acc!AccountsNext
          /\ UNCHANGED <<ringVars, xhciVars, usbSetupVars, commandVars,
                         portVars, ahciVars, botVars, hidVars, descriptorVars,
                         e1000Vars, rtlVars, tcpVars, leaseVars, dgramVars,
                         snapshotVars, volumeVars, logVars>>
       \/ /\ focus = "snapshot" /\ Snap!SnapshotNext
          /\ UNCHANGED <<ringVars, xhciVars, usbSetupVars, commandVars,
                         portVars, ahciVars, botVars, hidVars, descriptorVars,
                         e1000Vars, rtlVars, tcpVars, leaseVars, dgramVars,
                         accountVars, volumeVars, logVars>>
       \/ /\ focus = "volumes" /\ Vols!VolumesNext
          /\ UNCHANGED <<ringVars, xhciVars, usbSetupVars, commandVars,
                         portVars, ahciVars, botVars, hidVars, descriptorVars,
                         e1000Vars, rtlVars, tcpVars, leaseVars, dgramVars,
                         accountVars, snapshotVars, logVars>>
       \/ /\ focus = "log" /\ Logd!LogNext
          /\ UNCHANGED <<ringVars, xhciVars, usbSetupVars, commandVars,
                         portVars, ahciVars, botVars, hidVars, descriptorVars,
                         e1000Vars, rtlVars, tcpVars, leaseVars, dgramVars,
                         accountVars, snapshotVars, volumeVars>>

servicesVars == <<focus, ringVars, xhciVars, usbSetupVars, commandVars,
                   portVars, ahciVars, botVars, hidVars, descriptorVars,
                   e1000Vars, rtlVars, tcpVars, leaseVars, dgramVars,
                   accountVars, snapshotVars, volumeVars, logVars>>
ServicesSpec == ServicesInit /\ [][ServicesNext]_servicesVars

-----------------------------------------------------------------------------
\* Late, lost and repeated completions, unplugged devices and failed
\* transfers: a completion goes to the wait it belongs to, memory lives as
\* long as the controller may use it, the worker misses nothing, a success
\* moved the data of its own command and a flush is durable (xhci*.c, usb*.c,
\* ahci.c).
UsbSound ==
    /\ focus = "ring" => /\ CompletionBelongs /\ EventsInOrder
                         /\ ControllerInsideRing /\ LedNotForgotten
    /\ focus = "xhci" => /\ WorkerNotLost /\ ReadyIsPresent /\ OneLivePerPort
                         /\ EventsPaired /\ IoKeepsSlot
    /\ focus = "setup" => /\ Enum!ControllerMemoryLives /\ Enum!NothingLeaked
                          /\ Enum!ContextsCoherent /\ Enum!RoutesDistinct
                          /\ Enum!LockCoversSetup
    /\ focus = "command" => CommandAnswered /\ MailboxFree
    /\ focus = "port" => /\ Enum!DebouncedBeforeReset /\ Enum!SuccessIsReset
                         /\ Enum!ChangeNotSwallowed /\ Enum!WaitsBounded
    /\ focus = "ahci" => Dsk!SuccessMovedData
    /\ focus = "bot" => Dsk!SuccessIsOwn /\ Dsk!FlushIsDurable
    /\ focus = "hid" => Usb!KeysReleasable /\ Usb!ReportIsSent
    /\ focus = "descriptors" => Usb!EndpointsRight /\ Usb!LedBitsRight

\* Frames are delivered once and in order and none is left in a ring
\* (e1000.c, rtl8168.c); what TCP delivers is a prefix of what was sent, over
\* losses, repeats and a wrap of the sequence number; a lease is watched and
\* belongs to the primary device; an answer goes to the call that asked
\* (tcp.c, dhcp.c, dns.c, networkd).
NetworkSound ==
    /\ focus = "e1000" => /\ Card!FramesInOrder /\ Card!FramesNotForgotten
                          /\ Card!RingRefilled /\ Card!QueuedIsVisible
    /\ focus = "rtl8168" => /\ Card!RtlInOrder /\ Card!RtlNotForgotten
                            /\ Card!DmaIntoRings /\ Card!LinkKnown
    /\ focus = "tcp" => /\ StreamsIntact /\ CloseIsComplete
                        /\ ConnectionComesBack
    /\ focus = "lease" => /\ Dhcp!TimingOrdered /\ Dhcp!ExpiryWatched
                          /\ Dhcp!RenewalWatched /\ Dhcp!ConfiguredIsPrimary
                          /\ Dhcp!FileAgrees /\ Dhcp!AckApplied
    /\ focus = "datagram" => /\ AnswerIsOwn /\ ResolverHeldOnce
                             /\ PingAnswered /\ QueueExact /\ PortsServed

\* Accounts keep an administrator and agree with their file through failed
\* rewrites; a snapshot is of one table; what the user unmounted stays
\* unmounted, also over restarts of volumed; what logd acknowledged is kept
\* (identity.c, deviced, volumed, logd).
ServicesSound ==
    /\ focus = "accounts" => /\ Acc!RegistrySound /\ Acc!UidNeverReused
                             /\ Acc!AuthorityIsLive /\ Acc!DiskAgrees
                             /\ Acc!SomewhereOnDisk /\ Acc!HomesSeparate
    /\ focus = "snapshot" => /\ Snap!PagesOfOne /\ Snap!SettledIsExact
                             /\ Snap!DisplayNumbersKept
    /\ focus = "volumes" => /\ Vols!SuppressionKept /\ Vols!TableTrue
                            /\ Vols!EligibleMounted /\ Vols!SystemKept
    /\ focus = "log" => /\ Logd!AckedKept /\ Logd!SequencesIncrease
                        /\ Logd!EarlyOnce

\* The stages of a control transfer follow one another, and a page of a log
\* query begins where the last one ended (xhci_ring.c, logd).
StepsSound ==
    [][/\ focus = "ring" => StageFollows
       /\ focus = "log" => Logd!PageCompletes]_servicesVars
=============================================================================
