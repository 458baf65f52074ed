---------------------------- MODULE Credentials ----------------------------
(***************************************************************************)
(* Which credential a session opens with: talk_auth.py (OpenAI: keys, the  *)
(* login Hermes holds, the Codex CLI's file) and talk_grok_auth.py (xAI:   *)
(* keys, the host's store in its two shapes).  Each file has a resolver    *)
(* and a read-only diagnostic that foretells it; they are two pieces of    *)
(* code and are translated apart.  Logins age, are renewed by the host     *)
(* only, and come and go; the operator edits the environment.              *)
(*                                                                         *)
(* A login is a number: the time its token has left (0: expired, or about  *)
(* to be), or one of Missing and Unusable.                                 *)
(***************************************************************************)
EXTENDS Integers

CONSTANTS MaxLife,    \* the life of a new token, in quarters of an hour
          MaxEdits    \* bound: edits of the environment and logins

ASSUME LifeAssumption == MaxLife \in Nat \ {0} /\ MaxEdits \in Nat

Missing == -2
Unusable == -1
Logins == {Missing, Unusable} \union 0..MaxLife

\* _SHORT_TOKEN_LIFETIME_S, and the two skews, in the unit of MaxLife.
ShortLife == 3
LongSkew == 4
ShortSkew == 1

VARIABLES vendor,     \* "openai" or "grok"
          keys,       \* the Talk-scoped and the shared key: absent, blank, present
          preference, \* TALK_PREFER_..._OAUTH: absent, enabled, disabled, invalid
          hostKey,       \* Hermes can be imported (here), and answers read-only (asks)
          hostLogin,  \* Hermes's own Codex login
          stored,     \* the Codex CLI's file; for grok the store's providers block
          pool,       \* grok: the row of the store's credential pool
          renews,     \* the subscription is good: the host's refresh succeeds
          used,       \* what the last session opened with
          edited

credVars == <<vendor, keys, preference, hostKey, hostLogin, stored, pool, renews, used, edited>>

NotUsed == [lane |-> "none", left |-> 0, preference |-> "absent", scoped |-> "absent"]

CredInit ==
  /\ vendor \in {"openai", "grok"}
  /\ keys \in [{"scoped", "shared"} -> {"absent", "blank", "present"}]
  /\ preference \in {"absent", "enabled", "disabled", "invalid"}
  /\ hostKey \in {[here |-> FALSE, asks |-> FALSE], [here |-> TRUE, asks |-> TRUE]}
  /\ hostLogin \in {Missing, MaxLife} /\ stored \in {Missing, Unusable, MaxLife}
  /\ pool = Missing /\ renews \in BOOLEAN
  /\ used = NotUsed /\ edited = 0

------------------------------------------------------------------------------
(* talk_auth.py *)

\* _resolve_hermes_codex_oauth: Hermes gives a token, a renewed one if it must.
HermesGives == hostKey.here /\ hostLogin # Missing /\ hostLogin # Unusable /\ (hostLogin > 0 \/ renews)

\* Variant: an expired token of the vendor's file is handed out.
OutlivesAny(login) == login >= 0

\* The check of expires_s against the margin, before a file's token is used.
Outlives(login) == login > 0

\* _resolve_codex_oauth: the time left of the token, or Missing (None, or it raises).
CodexOAuth ==
  CASE HermesGives -> IF hostLogin = 0 THEN MaxLife ELSE hostLogin
    [] ~HermesGives /\ Outlives(stored) -> stored
    [] OTHER -> Missing

\* _hermes_codex_oauth_state, then the file: what the diagnostic calls the login.
CodexState ==
  LET seen == IF hostKey.here /\ hostKey.asks /\ hostLogin >= 0 THEN hostLogin ELSE stored
  IN  CASE seen = Missing -> "missing" [] seen = Unusable -> "invalid"
        [] seen = 0 -> "expired" [] seen > 0 -> "valid"

------------------------------------------------------------------------------
(* talk_grok_auth.py *)

\* _inspect_store: the first entry both of whose tokens are there.
InspectStore ==
  IF stored >= 0 THEN stored
  ELSE IF pool >= 0 THEN pool
  ELSE IF stored = Unusable \/ pool = Unusable THEN Unusable ELSE Missing

\* resolve_xai_oauth_runtime_credentials, of the host: it renews what expired.
HostGives == IF InspectStore > 0 THEN InspectStore
             ELSE IF InspectStore = 0 /\ renews THEN MaxLife ELSE Missing

\* _resolve_xai_oauth: the host's word when it is there, else the store as it is.
XaiOAuth == IF hostKey.here THEN HostGives ELSE IF Outlives(InspectStore) THEN InspectStore ELSE Missing

\* _refresh_required: by the time left alone.
RefreshRequired(left) ==
  left <= (IF left <= ShortLife THEN ShortSkew ELSE LongSkew)

\* oauth_usable of grok_auth_diagnostic.
XaiUsable == InspectStore > 0 \/ (InspectStore = 0 /\ hostKey.here)

------------------------------------------------------------------------------
OAuth == IF vendor = "openai" THEN CodexOAuth ELSE XaiOAuth

\* Variant: a preference whose login is gone falls through to the keys.
FallsThrough(oauth) == preference = "enabled" /\ oauth # Missing

\* The preference decides alone: an unusable login refuses, keys or no keys.
Decides(oauth) == preference = "enabled"

\* Variant: a key that is set but blank counts as one that is not set.
NamedIfFilled(key) == keys[key] = "present"

\* A key that is in the environment, blank or not, decides.
Named(key) == keys[key] # "absent"

\* resolve_auth and resolve_grok_auth.
Resolved ==
  CASE preference = "invalid" -> "none"
    [] Decides(OAuth) -> IF OAuth = Missing THEN "none" ELSE "oauth"
    [] preference # "invalid" /\ ~Decides(OAuth) ->
         IF Named("scoped") THEN (IF keys.scoped = "blank" THEN "none" ELSE "configured")
         ELSE IF Named("shared") THEN (IF keys.shared = "blank" THEN "none" ELSE "env")
         ELSE IF OAuth = Missing THEN "none" ELSE "oauth"

Usable == IF vendor = "openai" THEN CodexState \in {"valid", "expired"} ELSE XaiUsable

\* auth_diagnostic and grok_auth_diagnostic: winning_lane.
Diagnosed ==
  CASE preference = "invalid" -> "none"
    [] preference = "enabled" -> IF Usable THEN "oauth" ELSE "none"
    [] preference \in {"absent", "disabled"} ->
         CASE keys.scoped = "blank" -> "none"
           [] keys.scoped = "present" -> "configured"
           [] keys.scoped = "absent" /\ keys.shared = "blank" -> "none"
           [] keys.scoped = "absent" /\ keys.shared = "present" -> "env"
           [] OTHER -> IF Usable THEN "oauth" ELSE "none"

\* auth_status and grok_auth_status: the token will be refreshed by the next start.
WillRefresh ==
  /\ Diagnosed = "oauth"
  /\ IF vendor = "openai" THEN CodexState = "expired"
     ELSE InspectStore = 0 \/ RefreshRequired(InspectStore)

------------------------------------------------------------------------------
\* A session opens.  Only Hermes writes a store: a renewed token is in its own.
Open ==
  /\ used' = [lane |-> Resolved, left |-> OAuth, preference |-> preference, scoped |-> keys.scoped]
  /\ LET Renewed(login) == IF login = 0 /\ hostKey.here /\ renews /\ Resolved = "oauth" THEN MaxLife ELSE login
     IN  IF vendor = "openai"
         THEN hostLogin' = Renewed(hostLogin) /\ UNCHANGED <<stored, pool>>
         ELSE /\ stored' = Renewed(stored) /\ UNCHANGED hostLogin
              /\ pool' = (IF stored < 0 THEN Renewed(pool) ELSE pool)
  /\ UNCHANGED <<vendor, keys, preference, hostKey, renews, edited>>

\* A quarter of an hour passes.
TimePasses ==
  LET older(login) == IF login > 0 THEN login - 1 ELSE login
  IN  /\ hostLogin' = older(hostLogin) /\ stored' = older(stored) /\ pool' = older(pool)
      /\ UNCHANGED <<vendor, keys, preference, hostKey, renews, used, edited>>

\* The operator edits the environment, logs in or out, or the login is revoked.
Edit ==
  /\ edited < MaxEdits /\ edited' = edited + 1
  /\ \/ /\ keys' \in [{"scoped", "shared"} -> {"absent", "blank", "present"}]
        /\ UNCHANGED <<preference, hostLogin, stored, pool, renews, hostKey>>
     \/ /\ preference' \in {"absent", "enabled", "disabled", "invalid"}
        /\ UNCHANGED <<keys, hostLogin, stored, pool, renews, hostKey>>
     \/ /\ \/ hostLogin' \in {Missing, Unusable, MaxLife} /\ UNCHANGED <<stored, pool>>
           \/ stored' \in {Missing, Unusable, MaxLife} /\ UNCHANGED <<hostLogin, pool>>
           \/ pool' \in {Missing, Unusable, MaxLife} /\ UNCHANGED <<hostLogin, stored>>
        /\ renews' = TRUE /\ UNCHANGED <<keys, preference, hostKey>>
     \/ renews' = FALSE /\ UNCHANGED <<keys, preference, hostLogin, stored, pool, hostKey>>
     \/ hostKey.here /\ hostKey' = [hostKey EXCEPT !.asks = FALSE]
        /\ UNCHANGED <<keys, preference, hostLogin, stored, pool, renews>>
  /\ UNCHANGED <<vendor, used>>

CredNext == Open \/ TimePasses \/ Edit

CredSpec == CredInit /\ [][CredNext]_credVars

------------------------------------------------------------------------------
CredTypeOK ==
  /\ hostLogin \in Logins /\ stored \in Logins /\ pool \in Logins
  /\ used.lane \in {"none", "oauth", "configured", "env"} /\ edited \in 0..MaxEdits

(* A session that runs on a login has a token that lives. *)
LoginIsLive == used.lane = "oauth" => used.left > 0

(* An operator who prefers the subscription is never billed for a key, not   *)
(* even when the login has gone; a blank scoped key never falls through.     *)
NeverMetered ==
  /\ used.preference \in {"enabled", "invalid"} => used.lane \notin {"configured", "env"}
  /\ used.scoped = "blank" /\ used.preference # "enabled" => used.lane = "none"

(* The grok diagnostic foretells the session: the lane it names is the one   *)
(* that opens, and when it names none, none opens - unless the refresh it    *)
(* cannot try fails.                                                         *)
DoctorAgrees ==
  vendor = "grok" =>
    \/ Diagnosed = Resolved
    \/ Diagnosed = "oauth" /\ Resolved = "none" /\ InspectStore = 0 /\ ~renews

\* What every choice of a credential keeps: a login that is used is live, an explicit
\* subscription never falls back to a metered key, and the doctor names what a session uses.
CredentialsSafe == CredTypeOK /\ LoginIsLive /\ NeverMetered /\ DoctorAgrees

(* (Refuted: an expired login in the Codex CLI's file is reported as the     *)
(* lane, "expired-will-refresh", but resolve_auth raises on it.)             *)
(* The OpenAI diagnostic foretells the session.                              *)
OpenAIDoctorAgrees ==
  vendor = "openai" /\ hostKey.asks /\ (hostLogin < 0 \/ renews) => Diagnosed = Resolved

(* (Refuted: the skew is chosen by the time left, not by the token's life:   *)
(* a refresh that is required at an hour is not at three quarters.)          *)
(* A refresh that is due stays due until it is made.                         *)
DueStaysDue == [][TimePasses /\ WillRefresh => WillRefresh']_credVars
=============================================================================
