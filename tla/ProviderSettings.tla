-------------------------- MODULE ProviderSettings ---------------------------
(***************************************************************************)
(* The credential and models that AI work uses                             *)
(* (internal/ai/provider_settings.go, and the parts of image_executor.go    *)
(* that check the settings and stamp them).                                 *)
(*                                                                         *)
(* Keys are verified and models listed by calls to the provider before the  *)
(* transaction that uses the answer, so each of these operations is two     *)
(* steps.  A fingerprint is the last four characters of a key.              *)
(***************************************************************************)
EXTENDS Naturals, FiniteSets

CONSTANTS
    Keys,               \* API keys
    Fingerprint(_),     \* how a key is shown and compared
    Accepts(_),         \* whether the provider knows the key
    ModelsOf(_),        \* what a key lists: [id, supports], as classifyProviderModel says
    Configurations,     \* the models and modes that users choose
    Administrators,     \* requests that change the settings, one change each
    Calls               \* image calls of the workers

VARIABLES
    provider,           \* the row of openai_provider_settings
    changing,           \* changing[a] : what a request has learnt of the provider
    calling,            \* calling[c] : the credential and the stage of image call c
    proven,             \* history: what has made an image, by key, mode and model
    outlived            \* history: settings changed under a call or request that used them

providerVars == <<provider, changing, calling, proven, outlived>>

Unconfigured == [status |-> "unconfigured"]
Still == [stage |-> "idle"]
Done == [stage |-> "done"]
Active == provider.status = "active"
ImageModel(row) == IF row.mode = "images" THEN row.generation ELSE row.responses
Used(row) == <<row.key, row.mode, ImageModel(row)>>

(* What the models and modes of a configuration must be able to do.          *)
Can(id, what, listed) == \E m \in listed : m.id = id /\ what \in m.supports
ValidModels(config, listed) ==
    /\ config.mode \in {"responses", "images"}
    /\ Can(config.text, "text", listed)
    /\ Can(config.responses, "image_tool", listed)
    /\ Can(config.generation, "images_api", listed)
InFlight == {c \in Calls : calling[c].stage = "dispatched"}

(* A change of what a call would use is made under those in flight.          *)
Replace(row) ==
    /\ provider' = row
    /\ outlived' = (outlived \/ (InFlight # {} /\ Used(row) # Used(provider)))

-----------------------------------------------------------------------------
(* Administration *)

VerifyNothing(a, key) ==  \* mutant: the provider is not asked
    /\ changing[a] = Still
    /\ changing' = [changing EXCEPT ![a] = [stage |-> "verified", key |-> key]]
    /\ UNCHANGED <<provider, calling, proven, outlived>>
Verify(a, key) ==
    /\ changing[a] = Still
    /\ Accepts(key)
    /\ changing' = [changing EXCEPT ![a] = [stage |-> "verified", key |-> key]]
    /\ UNCHANGED <<provider, calling, proven, outlived>>

(* The models stay when a key is replaced; the stamp of capability goes.     *)
KeyKept(row, key) ==  \* mutant: the stamp stays
    [row EXCEPT !.status = "active", !.key = key, !.used = FALSE]
KeyReplaced(row, key) ==
    [row EXCEPT !.status = "active", !.key = key, !.capable = FALSE, !.used = FALSE]
Created(key) ==
    [status |-> "active", key |-> key, mode |-> "responses", text |-> "mainline",
     responses |-> "mainline", generation |-> "painter",
     capable |-> FALSE, used |-> FALSE, timeout |-> "default"]

Configure(a) ==
    LET key == changing[a].key
    IN  /\ changing[a].stage = "verified"
        /\ Replace(IF provider = Unconfigured THEN Created(key) ELSE KeyReplaced(provider, key))
        /\ changing' = [changing EXCEPT ![a] = Done]
        /\ UNCHANGED <<calling, proven>>

Disable ==
    /\ provider # Unconfigured
    /\ provider' = [provider EXCEPT !.status = "disabled"]
    /\ UNCHANGED <<changing, calling, proven, outlived>>

UpdateTimeouts ==
    /\ Active
    /\ provider' = [provider EXCEPT !.timeout = "changed"]
    /\ UNCHANGED <<changing, calling, proven, outlived>>

(* The list is that of the key in use when it was asked for.                 *)
ListModels(a, config) ==
    /\ changing[a] = Still /\ Active
    /\ ValidModels(config, ModelsOf(provider.key))
    /\ changing' = [changing EXCEPT ![a] = [stage |-> "listed", config |-> config]]
    /\ UNCHANGED <<provider, calling, proven, outlived>>

ReadActive(a) ==
    /\ changing[a].stage = "listed" /\ Active
    /\ changing' = [changing EXCEPT ![a] =
           [stage |-> "read", config |-> @.config, row |-> provider]]
    /\ UNCHANGED <<provider, calling, proven, outlived>>

(* Whether the stamp may stay is decided by the row as it was read.           *)
SameImage(row, config) ==
    row.mode = config.mode /\ ImageModel(row) = ImageModel(config)
UpdateModels(a) ==
    LET config == changing[a].config
        row == [provider EXCEPT
                    !.text = config.text, !.mode = config.mode,
                    !.responses = config.responses, !.generation = config.generation,
                    !.capable = @ /\ SameImage(changing[a].row, config)]
    IN  /\ changing[a].stage = "read"
        /\ provider' = row
        /\ outlived' = (outlived \/ Used(provider) # Used(changing[a].row)
                                 \/ (InFlight # {} /\ Used(row) # Used(provider)))
        /\ changing' = [changing EXCEPT ![a] = Done]
        /\ UNCHANGED <<calling, proven>>

GiveUp(a) ==
    /\ changing[a] \notin {Still, Done}
    /\ changing' = [changing EXCEPT ![a] = Done]
    /\ UNCHANGED <<provider, calling, proven, outlived>>

-----------------------------------------------------------------------------
(* Image calls *)

DecryptActiveCredential(c) ==
    /\ calling[c] = Still /\ Active
    /\ calling' = [calling EXCEPT ![c] = [stage |-> "prepared", with |-> Used(provider)]]
    /\ UNCHANGED <<provider, changing, proven, outlived>>

(* Whether the settings are those the call was prepared with is seen by the  *)
(* fingerprint; models may have changed since.                               *)
Dispatch(c) ==
    /\ calling[c].stage = "prepared"
    /\ IF Active /\ Fingerprint(provider.key) = Fingerprint(calling[c].with[1])
       THEN /\ calling' = [calling EXCEPT ![c].stage = "dispatched"]
            /\ provider' = [provider EXCEPT !.used = TRUE]
            /\ outlived' = (outlived \/ Used(provider) # calling[c].with)
       ELSE /\ calling' = [calling EXCEPT ![c] = Done]
            /\ UNCHANGED <<provider, outlived>>
    /\ UNCHANGED <<changing, proven>>

(* A persisted image stamps the settings as they are by now.                 *)
PersistResult(c) ==
    /\ calling[c].stage = "dispatched"
    /\ provider' = [provider EXCEPT !.capable = TRUE]
    /\ proven' = proven \cup {calling[c].with}
    /\ calling' = [calling EXCEPT ![c] = Done]
    /\ UNCHANGED <<changing, outlived>>

CallFails(c) ==
    /\ calling[c] \notin {Still, Done}
    /\ calling' = [calling EXCEPT ![c] = Done]
    /\ UNCHANGED <<provider, changing, proven, outlived>>

ProviderInit ==
    /\ provider = Unconfigured
    /\ changing = [a \in Administrators |-> Still]
    /\ calling = [c \in Calls |-> Still]
    /\ proven = {} /\ outlived = FALSE

ProviderNext ==
    \/ \E a \in Administrators :
          \/ \E key \in Keys : Verify(a, key)
          \/ \E config \in Configurations : ListModels(a, config)
          \/ Configure(a) \/ ReadActive(a) \/ UpdateModels(a) \/ GiveUp(a)
    \/ Disable \/ UpdateTimeouts
    \/ \E c \in Calls : \/ DecryptActiveCredential(c) \/ Dispatch(c)
                        \/ PersistResult(c) \/ CallFails(c)

ProviderSpec == ProviderInit /\ [][ProviderNext]_providerVars

-----------------------------------------------------------------------------
(* Properties *)

ProviderTypeOK ==
    /\ provider.status \in {"unconfigured", "active", "disabled"}
    /\ provider # Unconfigured =>
           provider.key \in Keys /\ provider.capable \in BOOLEAN /\ Accepts(provider.key)
    /\ \A a \in Administrators : changing[a].stage \in {"idle", "verified", "listed", "read", "done"}
    /\ \A c \in Calls : calling[c].stage \in {"idle", "prepared", "dispatched", "done"}

(* The settings say that images can be made only if the key, mode and model  *)
(* in them have made one, as long as they were not replaced under a call or  *)
(* a request that was working with them: replacing the key, the mode or the  *)
(* model takes the stamp away (provider_settings.go Configure, UpdateModels). *)
CapabilityProven ==
    (~outlived /\ provider # Unconfigured /\ provider.capable) => Used(provider) \in proven

(* The same at all times, as the comment in image_executor.go claims.  An    *)
(* image that was under way when the settings were replaced breaks it.       *)
StampProvesConfigured ==
    (provider # Unconfigured /\ provider.capable) => Used(provider) \in proven
=============================================================================
