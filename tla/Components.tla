----------------------------- MODULE Components -----------------------------
(***************************************************************************)
(* The components that work alone, for one run.  Each keeps its own state  *)
(* and meets the rest of the system through calls and data that its module *)
(* lets come in any order.  A behaviour is one of them, `part', while the  *)
(* others keep one initial state, so the state spaces add up.              *)
(***************************************************************************)
EXTENDS FrameWindowSpec, TrafficBudgetSpec, Wire, SessionHealth,
        Presentation, Controller, Probes, Config, LanInvite, Sidecar, Injection

CONSTANT MaxFrameId   \* bound on the frame ids

VARIABLE part

Ids == 0 .. MaxFrameId

Parts == {"window", "budget", "frames", "talk", "flow", "pings", "verdict",
          "screen", "rooms", "latency", "readiness", "config", "invite",
          "sidecar", "injection"}

\* Whoever is not the part of this behaviour has one first state.
PartsInit ==
    /\ part \in Parts
    /\ Init /\ BudgetInit /\ FlowInit /\ ConfigInit
    /\ part # "frames" => frame = NoWireFrame /\ datagram = <<>> /\ damage = 0
    /\ part = "frames" => FrameInit
    /\ part # "invite" => interfaces = [a \in Adapters |-> {}]
    /\ InviteInit
    /\ TalkInit
    /\ part # "talk" => talk.schema = 1 /\ ~talk.udp /\ talk.choice = "tcp" /\ talk.client = talk.relay /\ talk.relay = 0
    /\ LedgerInit
    /\ part # "pings" => ledger.of = "room"
    /\ ViewInit
    /\ part # "verdict" => view.window.packets = 0 /\ view.paths = {}
    /\ PresInit
    /\ part # "screen" => core.session = "off" /\ ~ui.tray
    /\ CtlInit
    /\ part # "rooms" => b.restore = None
    /\ ProbeInit
    /\ part # "latency" => \A i \in 1..2 : shop.relays[i].place = "q"
    /\ SidecarInit
    /\ part # "sidecar" => files = {} /\ ~foreign /\ ~reg.key
    /\ InjectionInit
    /\ part # "injection" => RunningGames = {}

\* Who is at work leaves the state of the others alone.
Alone(p) ==
    /\ part = p /\ UNCHANGED part
    /\ p # "window" => UNCHANGED vars
    /\ p # "budget" => UNCHANGED budgetVars
    /\ p \notin {"frames", "talk"} => UNCHANGED wireVars
    /\ p \notin {"flow", "pings", "verdict"} => UNCHANGED healthVars
    /\ p # "screen" => UNCHANGED presVars
    /\ p # "rooms" => UNCHANGED ctlVars
    /\ p \notin {"latency", "readiness"} => UNCHANGED probeVars
    /\ p # "config" => UNCHANGED configVars
    /\ p # "invite" => UNCHANGED inviteVars
    /\ p # "sidecar" => UNCHANGED sidecarVars
    /\ p # "injection" => UNCHANGED injectionVars

PartsNext ==
    \/ Alone("window") /\ Next
    \/ Alone("budget") /\ BudgetNext
    \/ Alone("frames") /\ FrameStep
    \/ Alone("talk") /\ (RelayNegotiates \/ ClientNegotiates)
    \/ Alone("flow") /\ FlowNext
    \/ Alone("pings") /\ LedgerNext
    \/ Alone("verdict") /\ ViewNext
    \/ Alone("screen") /\ PresNext
    \/ Alone("rooms") /\ CtlNext
    \/ Alone("latency") /\ LightNext
    \/ Alone("readiness") /\ ReadyNext
    \/ Alone("config") /\ ConfigNext
    \/ Alone("invite") /\ InviteNext
    \/ Alone("sidecar") /\ SidecarNext
    \/ Alone("injection") /\ InjectionNext

PartsSpec == PartsInit /\ 
    [][PartsNext]_<<part, vars, budgetVars, wireVars, healthVars, presVars,
                    ctlVars, probeVars, configVars, inviteVars, sidecarVars, injectionVars>>
=============================================================================
