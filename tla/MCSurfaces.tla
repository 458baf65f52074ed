-------------------------- MODULE MCSurfaces --------------------------
(* Instances of the modules of the browser transport, the native surface and the
   Codex worker, in one run.  They share no state: a behaviour is a behaviour of
   one of them, and the invariant of a part is asked of its own behaviours. *)
EXTENDS LiveSessions, NativeSession, NativeInputs, NativeSpeech, NativeLive, CodexJob

VARIABLE part

SurfaceParts == {"registry", "wire", "session", "inputs", "speech", "live", "codex"}

SurfaceVars  == <<part, registryVars, wireLiveVars, nativeVars, inputVars, speechVars, nativeLiveVars, codexVars>>

\* Every part starts; one of them is the one that runs, and the others start one way.
SurfaceInit ==
    /\ part \in SurfaceParts
    /\ RegistryInit /\ WireLiveInit /\ NativeInit /\ InputsInit /\ SpeechInit /\ NativeLiveInit /\ CodexInit
    /\ part # "session" => session.target = CHOOSE t \in TalkTasks : TRUE

SurfaceNext ==
    /\ UNCHANGED part
    /\ \/ /\ part = "registry" /\ RegistryNext
          /\ UNCHANGED <<wireLiveVars, nativeVars, inputVars, speechVars, nativeLiveVars, codexVars>>
       \/ /\ part = "wire" /\ WireLiveNext
          /\ UNCHANGED <<registryVars, nativeVars, inputVars, speechVars, nativeLiveVars, codexVars>>
       \/ /\ part = "session" /\ NativeNext
          /\ UNCHANGED <<registryVars, wireLiveVars, inputVars, speechVars, nativeLiveVars, codexVars>>
       \/ /\ part = "inputs" /\ InputsNext
          /\ UNCHANGED <<registryVars, wireLiveVars, nativeVars, speechVars, nativeLiveVars, codexVars>>
       \/ /\ part = "speech" /\ SpeechNext
          /\ UNCHANGED <<registryVars, wireLiveVars, nativeVars, inputVars, nativeLiveVars, codexVars>>
       \/ /\ part = "live" /\ NativeLiveNext
          /\ UNCHANGED <<registryVars, wireLiveVars, nativeVars, inputVars, speechVars, codexVars>>
       \/ /\ part = "codex" /\ CodexNext
          /\ UNCHANGED <<registryVars, wireLiveVars, nativeVars, inputVars, speechVars, nativeLiveVars>>

SurfaceSpec == SurfaceInit /\ [][SurfaceNext]_SurfaceVars

\* Its transport: every session that was negotiated has an owner, and every end is told.
TransportSafe == (part = "registry" => RegistrySafe) /\ (part = "wire" => LiveWireSafe)

\* The native surface: fragments reach the task they were spoken to, an input is answered
\* once, and one that is given up has no more than one call still run.
SurfaceSafe == (part = "session" => NativeSafe) /\ (part = "inputs" => InputsSafe)

\* What the native surface says of its tasks, by voice and by GPT-Live.
SayingSafe == (part = "speech" => SpeechSafe) /\ (part = "live" => NativeLiveSafe)

\* What has ended stays ended, in each of them.
EndsHold == NothingOpensAfterTheEnd /\ EndIsFinal

\* Nothing tells one delegation of the provider from another.
SurfaceSymmetry == Permutations(Asked)
=============================================================================
