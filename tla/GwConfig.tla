------------------------------ MODULE GwConfig ------------------------------
(***************************************************************************)
(* The configuration (components/config/config.c) and the handlers that    *)
(* change it (components/rest_api/rest_api.c): s_config in RAM, nine keys  *)
(* in NVS, which are written one after another and are loaded one by one   *)
(* after a restart.  Power can fail between any two writes, and a read or  *)
(* a write that fails is not noticed.                                      *)
(***************************************************************************)
EXTENDS Naturals

CONSTANTS
  Urls,        \* values a client may give to a key
  NewKeys,     \* API keys esp_random may come up with
  Varied,      \* the keys a model's clients change
  MaxPosts,    \* bound: POST /api/config requests
  MaxRestarts, \* bound: power failures
  MaxFaults    \* bound: failures of the flash

(* The order gw_config_save writes the keys in.                            *)
KeyAt == <<"wifi_ssid", "wifi_pass", "mqtt_uri", "mqtt_prefix", "mqtt_user", "mqtt_pass",
           "webhook_url", "api_key", "webhook_en">>
Keys == {KeyAt[i] : i \in DOMAIN KeyAt}

(* handler_config_post knows no name for the MQTT user and password.       *)
Settable == Keys \ {"mqtt_user", "mqtt_pass"}

ASSUME VariedAssumption == Varied \subseteq Settable
ASSUME UrlAssumption == "missing" \notin Urls \cup NewKeys
ASSUME NewKeyAssumption == NewKeys # {} /\ NewKeys \cap {"", "changeme"} = {}

Default(key) == CASE key = "api_key" -> "" [] key = "webhook_en" -> "false" [] OTHER -> "factory"

Domain(key) == IF key = "webhook_en" THEN {"true", "false"} ELSE Urls \cup {""}

Values == Urls \cup NewKeys \cup {"", "changeme", "factory", "true", "false"}

Weak(word) == word \in {"", "changeme"}

VARIABLES
  boot,      \* where gw_config_init is: "load", "key", or "up" when it is done
  s_config,
  nvs,       \* the namespace gw_config, "missing" if a key was never written
  saving,    \* the index of the key gw_config_save writes next, 0 outside
  failed,    \* the keys it could not write
  promised,  \* what clients may find under a key, from what they were told
  posts, restarts, faults

configVars == <<boot, s_config, nvs, saving, failed, promised, posts, restarts, faults>>

(* What a client that sets a key to this value may find later: an empty    *)
(* API key makes the next start invent one.                                *)
Outcome(key, word) == {word} \cup (IF key = "api_key" /\ Weak(word) THEN NewKeys ELSE {})

Stored(key) == IF nvs[key] = "missing" THEN Default(key) ELSE nvs[key]

InitConfig ==
  /\ boot = "load"
  /\ s_config = [k \in Keys |-> Default(k)]
  /\ nvs = [k \in Keys |-> "missing"]
  /\ saving = 0 /\ failed = {}
  /\ promised = [k \in Keys |-> Outcome(k, Default(k))]
  /\ posts = 0 /\ restarts = 0 /\ faults = 0

Fault == faults < MaxFaults /\ faults' = faults + 1

-----------------------------------------------------------------------------
(* gw_config_init *)

(* app_main erases NVS when it cannot be read.                             *)
FlashErased ==
  /\ boot = "load" /\ Fault
  /\ nvs' = [k \in Keys |-> "missing"]
  /\ promised' = [k \in Keys |-> promised[k] \cup Outcome(k, Default(k))]
  /\ UNCHANGED <<boot, s_config, saving, failed, posts, restarts>>

(* The default stays in the keys that cannot be read.                      *)
LoadBut(lost) ==
  /\ boot = "load" /\ boot' = "key"
  /\ s_config' = [k \in Keys |-> IF k \in lost THEN Default(k) ELSE Stored(k)]
  /\ promised' = [k \in Keys |-> IF k \in lost THEN promised[k] \cup Outcome(k, Default(k))
                                 ELSE promised[k]]
  /\ UNCHANGED <<nvs, saving, failed, posts, restarts>>

Load == LoadBut({}) /\ UNCHANGED faults

(* The namespace cannot be opened, or some entries cannot be read; those   *)
(* nobody changes hold their defaults anyway.                              *)
LoadFails == Fault /\ \E lost \in SUBSET (Varied \cup {"api_key"}) : LoadBut(lost)

(* Clients see the configuration from here on; it stays if NVS has it too. *)
Up(config) ==
  /\ boot = "key" /\ boot' = "up"
  /\ s_config' = config
  /\ promised' = [k \in Keys |-> IF Stored(k)' = config[k] THEN promised[k] \cap {config[k]}
                                 ELSE promised[k]]
  /\ UNCHANGED <<saving, failed, posts, restarts>>

KeepKey == ~Weak(s_config["api_key"]) /\ UNCHANGED <<nvs, faults>> /\ Up(s_config)

GenerateKey ==
  \E key \in NewKeys :
    /\ Weak(s_config["api_key"])
    /\ \/ nvs' = [nvs EXCEPT !["api_key"] = key] /\ UNCHANGED faults
       \/ Fault /\ UNCHANGED nvs
    /\ Up([s_config EXCEPT !["api_key"] = key])

-----------------------------------------------------------------------------
(* POST /api/config: a copy of s_config is changed and saved.              *)

Changes(keys) == {c \in [keys -> UNION {Domain(k) : k \in keys}] : \A k \in keys : c[k] \in Domain(k)}

Post(change) ==
  /\ boot = "up" /\ saving = 0
  /\ posts < MaxPosts /\ posts' = posts + 1
  /\ s_config' = [k \in Keys |-> IF k \in DOMAIN change THEN change[k] ELSE s_config[k]]
  /\ promised' = [k \in Keys |-> IF k \in DOMAIN change THEN promised[k] \cup Outcome(k, change[k])
                                 ELSE promised[k]]
  /\ saving' = 1
  /\ failed' = {}
  /\ UNCHANGED <<boot, nvs, restarts, faults>>

(* Mutation: the last key is forgotten.                                    *)
SaveKeyAllButLast ==
  /\ saving \in DOMAIN KeyAt /\ saving' = saving + 1
  /\ nvs' = IF saving = 9 THEN nvs ELSE [nvs EXCEPT ![KeyAt[saving]] = s_config[KeyAt[saving]]]
  /\ UNCHANGED <<boot, s_config, promised, posts, restarts, failed, faults>>

(* nvs_set_str and nvs_set_u8; nobody looks at what they return.           *)
SaveKey ==
  /\ saving \in DOMAIN KeyAt /\ saving' = saving + 1
  /\ \/ /\ nvs' = [nvs EXCEPT ![KeyAt[saving]] = s_config[KeyAt[saving]]]
        /\ UNCHANGED <<failed, faults>>
     \/ /\ Fault
        /\ failed' = failed \cup {KeyAt[saving]}
        /\ UNCHANGED nvs
  /\ UNCHANGED <<boot, s_config, promised, posts, restarts>>

(* nvs_commit, and the client is told that it succeeded.                   *)
SaveEnd ==
  /\ saving = 10 /\ saving' = 0
  /\ promised' = [k \in Keys |-> IF k \in failed THEN promised[k] ELSE Outcome(k, s_config[k])]
  /\ UNCHANGED <<boot, s_config, nvs, failed, posts, restarts, faults>>

(* What a restart leaves, whatever it interrupts.                          *)
Restart ==
  /\ boot' = "load"
  /\ saving' = 0
  /\ UNCHANGED <<s_config, nvs, failed, promised, posts>>

PowerFails == restarts < MaxRestarts /\ restarts' = restarts + 1 /\ Restart /\ UNCHANGED faults

(* ESP_ERROR_CHECK(nvs_open(...))                                          *)
OpenFails == saving = 1 /\ Fault /\ Restart /\ UNCHANGED restarts

Posting == \E keys \in SUBSET Varied : \E change \in Changes(keys) : Post(change)

NextConfig ==
  \/ FlashErased \/ Load \/ LoadFails \/ KeepKey \/ GenerateKey
  \/ Posting \/ SaveKey \/ SaveEnd \/ PowerFails \/ OpenFails

SpecConfig == InitConfig /\ [][NextConfig]_configVars

-----------------------------------------------------------------------------
(* Every variable has the values the code can give it, and nothing is      *)
(* saved before the configuration has been loaded.                         *)
TypeOK ==
  /\ boot \in {"load", "key", "up"}
  /\ s_config \in [Keys -> Values]
  /\ nvs \in [Keys -> Values \cup {"missing"}]
  /\ saving \in 0..10 /\ (saving # 0 => boot = "up")
  /\ failed \subseteq Keys
  /\ promised \in [Keys -> SUBSET Values]
  /\ posts \in Nat /\ restarts \in Nat /\ faults \in Nat

(* While the gateway is up every key has a value its clients expect: the   *)
(* one it had when they last looked or the one a request that has not been *)
(* answered gives it.  So a save that power interrupts leaves every key    *)
(* old or new, and what it left stays; what was answered with success, and *)
(* an invented API key, survive every restart.  If the flash fails on a    *)
(* key, the key alone may be as it was before or have its default.         *)
ConfigKept == boot = "up" => \A k \in Keys : s_config[k] \in promised[k]

=============================================================================
