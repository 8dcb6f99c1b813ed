----------------------------- MODULE BoardStart -----------------------------
(***************************************************************************)
(* The board's way to WebRTCAppMain (kvswebrtc_example_main.c): app_main   *)
(* starts the Wi-Fi station and waits on an event group for the bits that  *)
(* event_handler sets on the task of the event loop, mounts the SD card    *)
(* and waits a while for the time.  It goes on to the application whether  *)
(* or not it is connected and has the time, but not without the card.      *)
(*                                                                         *)
(* External: the station, which may answer an attempt to connect with an   *)
(* event, sooner or later or never (an association without a lease gives   *)
(* none), and the event loop, which delivers events one by one and lets an *)
(* unregistration wait for the handler.  ESP_ERROR_CHECK restarts the      *)
(* board when its call fails.                                              *)
(***************************************************************************)
EXTENDS Naturals

CONSTANTS MaxRetry,   \* EXAMPLE_ESP_MAXIMUM_RETRY
          SntpRetries \* retry_count

ASSUME RetryAssumption == MaxRetry \in Nat /\ SntpRetries \in Nat \ {0}

VARIABLES
  bootPc,       \* app_main; "app" once it calls WebRTCAppMain
  s_retry_num,
  group, bits,  \* the event group exists, and its bits
  handlers,     \* the registered events of event_handler
  link,         \* the station; "silent" after a call of esp_wifi_connect that
                \* failed, "unwatched" when nobody asks any more
  event,        \* the event to be delivered
  failures,     \* disconnections since the start or the last IP
  retry         \* the rounds of the wait for the time

wifiVars == <<s_retry_num, group, bits, handlers, link, event, failures>>
boardVars == <<bootPc, wifiVars, retry>>

\* The types, and where the event group and the handlers exist.
BoardTypeOK ==
  /\ bootPc \in {"nvs", "wifi", "wait", "noIpHandler", "noHandler", "mount", "sntp", "app",
                 "returned"}
  /\ s_retry_num \in 0..MaxRetry
  /\ group \in BOOLEAN
  /\ bits \in SUBSET {"CONNECTED", "FAIL"}
  /\ handlers \in SUBSET {"WIFI", "IP"}
  /\ link \in {"off", "trying", "silent", "up", "down", "unwatched"}
  /\ event \in {"none", "start", "disconnected", "gotIp"}
  /\ failures \in Nat
  /\ retry \in 0..SntpRetries
  /\ group <=> bootPc \in {"wait", "noIpHandler", "noHandler"}

BoardInit ==
  /\ bootPc = "nvs" /\ s_retry_num = 0
  /\ group = FALSE /\ bits = {} /\ handlers = {}
  /\ link = "off" /\ event = "none" /\ failures = 0
  /\ retry = 0

-----------------------------------------------------------------------------
(* app_main and wifi_init_sta                                                *)

Goes(from, to) == bootPc = from /\ bootPc' = to

\* nvs_flash_init, once more after an erase if need be.
InitNvs ==
  /\ Goes("nvs", "wifi")
  /\ UNCHANGED <<wifiVars, retry>>

\* The event group, the handlers and the start of the station.
StartWifi ==
  /\ Goes("wifi", "wait")
  /\ group' = TRUE /\ handlers' = {"WIFI", "IP"} /\ event' = "start"
  /\ UNCHANGED <<s_retry_num, bits, link, failures, retry>>

\* An ESP_ERROR_CHECK that fails.
Restart ==
  /\ bootPc \in {"nvs", "wifi", "wait", "noIpHandler"}
  /\ bootPc' = "nvs" /\ s_retry_num' = 0
  /\ group' = FALSE /\ bits' = {} /\ handlers' = {}
  /\ link' = "off" /\ event' = "none" /\ failures' = 0
  /\ UNCHANGED retry

\* xEventGroupWaitBits without a timeout, and the first unregistration.
WaitEnds ==
  /\ bits # {}
  /\ Goes("wait", "noIpHandler")
  /\ handlers' = handlers \ {"IP"}
  /\ UNCHANGED <<s_retry_num, group, bits, link, event, failures, retry>>

\* The second unregistration.
Unregister ==
  /\ Goes("noIpHandler", "noHandler")
  /\ handlers' = handlers \ {"WIFI"}
  /\ UNCHANGED <<s_retry_num, group, bits, link, event, failures, retry>>

\* From here on nobody connects again or reads s_retry_num, and the model
\* forgets both.
DeleteGroup ==
  /\ Goes("noHandler", "mount")
  /\ group' = FALSE /\ bits' = {}
  /\ link' = "unwatched" /\ event' = "none" /\ failures' = 0 /\ s_retry_num' = 0
  /\ UNCHANGED <<handlers, retry>>

\* Without the card app_main returns.
Mount ==
  /\ Goes("mount", "sntp") \/ Goes("mount", "returned")
  /\ UNCHANGED <<wifiVars, retry>>

\* One round of the wait, while the time is not set.
SntpWait ==
  /\ bootPc = "sntp" /\ retry + 1 < SntpRetries
  /\ retry' = retry + 1
  /\ UNCHANGED <<bootPc, wifiVars>>

\* The time is set, or the rounds are over.
SntpEnds ==
  /\ Goes("sntp", "app")
  /\ retry' = 0
  /\ UNCHANGED wifiVars

-----------------------------------------------------------------------------
(* The station, and event_handler on the task of the event loop.             *)

\* An attempt fails, or an established connection is lost.
LinkFails ==
  /\ event = "none" /\ link \in {"trying", "up"}
  /\ link' = "down" /\ event' = "disconnected"
  /\ UNCHANGED <<bootPc, s_retry_num, group, bits, handlers, failures, retry>>

LinkComesUp ==
  /\ event = "none" /\ link = "trying"
  /\ link' = "up" /\ event' = "gotIp"
  /\ UNCHANGED <<bootPc, s_retry_num, group, bits, handlers, failures, retry>>

\* esp_wifi_connect, whose result is not read: a call that fails makes no attempt,
\* and no event comes of it.
WifiConnect == link' \in {"trying", "silent"}

StaStart ==
  /\ event = "start" /\ "WIFI" \in handlers
  /\ WifiConnect /\ event' = "none"
  /\ UNCHANGED <<bootPc, s_retry_num, group, bits, handlers, failures, retry>>

\* The test of s_retry_num, and a form that gives up one attempt early.
TriesAgain_early == s_retry_num + 1 < MaxRetry
TriesAgain == s_retry_num < MaxRetry

StaDisconnected ==
  /\ event = "disconnected" /\ "WIFI" \in handlers
  /\ event' = "none" /\ failures' = failures + 1
  /\ \/ /\ TriesAgain
        /\ WifiConnect /\ s_retry_num' = s_retry_num + 1
        /\ UNCHANGED bits
     \/ /\ ~TriesAgain
        /\ bits' = bits \cup {"FAIL"}
        /\ UNCHANGED <<link, s_retry_num>>
  /\ UNCHANGED <<bootPc, group, handlers, retry>>

\* The handler of the IP without the bit.
GotIp_noBit ==
  /\ event = "gotIp" /\ "IP" \in handlers
  /\ event' = "none" /\ failures' = 0
  /\ s_retry_num' = 0
  /\ UNCHANGED <<bootPc, group, bits, handlers, link, retry>>

GotIp ==
  /\ event = "gotIp" /\ "IP" \in handlers
  /\ event' = "none" /\ failures' = 0
  /\ s_retry_num' = 0 /\ bits' = bits \cup {"CONNECTED"}
  /\ UNCHANGED <<bootPc, group, handlers, link, retry>>

\* An event without a registered handler.
EventIsDropped ==
  \/ event \in {"start", "disconnected"} /\ "WIFI" \notin handlers
  \/ event = "gotIp" /\ "IP" \notin handlers

DropEvent ==
  /\ EventIsDropped
  /\ event' = "none"
  /\ UNCHANGED <<bootPc, s_retry_num, group, bits, handlers, link, failures, retry>>

-----------------------------------------------------------------------------
AppMainNext ==
  \/ InitNvs \/ StartWifi \/ WaitEnds \/ Unregister \/ DeleteGroup \/ Mount \/ SntpWait
  \/ SntpEnds

LinkNext == LinkFails \/ LinkComesUp

\* An event that is there is delivered.
EventNext == StaStart \/ StaDisconnected \/ GotIp \/ DropEvent

StationNext == LinkNext \/ EventNext

BoardNext == AppMainNext \/ Restart \/ StationNext

BoardSpec == BoardInit /\ [][BoardNext]_boardVars

-----------------------------------------------------------------------------
(* Properties                                                              *)

\* kvswebrtc_example_main.c:47 "we failed to connect after the maximum amount of
\* retries": the bit takes that many retries after the start or the last IP,
\* however the events of the station and the wait of app_main interleave.  (The
\* other bit may be set too: an IP that was lost again counts as connected.)
FailBitMeansExhausted == "FAIL" \in bits => failures > MaxRetry

\* No event can reach a handler that would set a bit of a deleted group.
GroupOutlivesHandlers == handlers # {} => group

\* app_main's wait for a bit, which has no timeout, ends, however attempts fail and
\* come up and are lost again - unless the station leaves an attempt without an
\* event for good, or esp_wifi_connect itself has failed, which nobody notices.
WifiWaitEnds ==
  (bootPc = "wait" ~> bootPc # "wait") \/ <>[](link \in {"trying", "silent"})
=============================================================================
