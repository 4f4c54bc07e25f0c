----------------------------- MODULE ClientCalls -----------------------------
(***************************************************************************)
(* The calls the SDK makes over the wire: one command, one answer.  A call  *)
(* is described by what it does with the answer, which is all that the link *)
(* notices of it:                                                           *)
(*   lens   the lengths it accepts with status OK, in words;                *)
(*   most   how many words of an accepted answer it reads;                  *)
(*   part   how many of them it has read when it finds their contents wrong,*)
(*          0 if it does not look at them;                                  *)
(*   err    whether it drains an answer with another status;                *)
(*   bad    whether it drains an answer whose length it does not accept;    *)
(*   any    whether it accepts those lengths with any status;               *)
(*   caps   whether it asks for a capability before it sends anything;      *)
(*   fast   whether the payload may go over the block interrupt;            *)
(*   pushes whether the command's own payload may;                          *)
(*   blind  whether it drains response.length also when no answer was       *)
(*          decoded, so that the length is whatever the stack held;         *)
(*   spoils what it does to the client's state when it is refused.          *)
(* What is in a request is left out, and so are the arguments refused before*)
(* anything is sent.                                                        *)
(***************************************************************************)
EXTENDS Naturals

CONSTANT
  Lengths,    \* the lengths of answers considered, in words
  MaxWords,   \* the longest of them
  Room        \* the capacity callers pass, in words

\* Only the status counts; a payload is not looked at.
StatusOnly(op) ==
  [op |-> op, lens |-> Lengths, most |-> 0, part |-> 0, err |-> FALSE, bad |-> FALSE,
   any |-> FALSE, caps |-> FALSE, fast |-> FALSE, pushes |-> FALSE, blind |-> FALSE,
   spoils |-> "nothing"]

\* The payload is read if its length is among lens, and else left where it is.
Leaving(op, lens) == [StatusOnly(op) EXCEPT !.lens = lens, !.most = MaxWords]

\* The payload is read if its length is among lens, and else drained.
Draining(op, lens) == [Leaving(op, lens) EXCEPT !.err = TRUE, !.bad = TRUE]

\* As StatusOnly, with an answer of another status drained (ble_expect_ack and the
\* calls written like it).
DrainedAck(op) == [StatusOnly(op) EXCEPT !.err = TRUE]

\* stream_command returns before anybody looks at the payload of a refusal.
StreamAnswer(op, lens) == [Draining(op, lens) EXCEPT !.err = FALSE]

\* Close, credit, seek and pump drain response.length whatever stream_command said.
StreamAck(op) == [Draining(op, Lengths) EXCEPT !.blind = TRUE]

Checked(call) == [call EXCEPT !.part = MaxWords]
WithCaps(call) == [call EXCEPT !.caps = TRUE]
Fast(call) == [call EXCEPT !.fast = TRUE]
Pushing(call) == [call EXCEPT !.pushes = TRUE]
Spoils(call, how) == [call EXCEPT !.spoils = how]

-----------------------------------------------------------------------------
(* client.c.  hello and the request for the capabilities read 16 bytes of an *)
(* answer that may be longer, whatever its status.                          *)

Greeting(op) ==
  [Leaving(op, {n \in Lengths : n >= 4}) EXCEPT !.most = 4, !.any = TRUE, !.spoils = "both"]

cl_client_hello == Greeting("control.hello")
cl_client_poll == Spoils(cl_client_hello, "offline")
cl_client_request_caps == Greeting("control.caps")
cl_client_set_poll_ticks == Spoils(StatusOnly("control.poll_ticks"), "both")

-----------------------------------------------------------------------------
(* storage_client.c.  A refused answer stays on the line.                   *)

cl_storage_open == Checked(Leaving("storage.open", {1}))
cl_storage_close == StatusOnly("storage.close")
storage_read == Fast(Leaving("storage.read", 0 .. Room))
storage_write_chunk == Pushing(Spoils(Checked(Leaving("storage.write", {1})), "both"))
cl_storage_seek == StatusOnly("storage.seek")
cl_storage_flush == StatusOnly("storage.flush")
cl_storage_stat == Spoils(Leaving("storage.stat", {5}), "status")
cl_storage_fstat == Leaving("storage.fstat", {5})
cl_storage_copy == WithCaps(StatusOnly("storage.copy"))
cl_storage_remove == StatusOnly("storage.remove")
cl_storage_mkdir == StatusOnly("storage.mkdir")
cl_storage_rename == StatusOnly("storage.rename")
cl_storage_crc32_ex ==
  [WithCaps(Fast(Leaving("storage.crc32", 3 .. 3 + Room))) EXCEPT !.part = 3]
cl_storage_list == WithCaps(Leaving("storage.list", 2 .. 2 + Room))

-----------------------------------------------------------------------------
(* ram_map.c.  put, remove and clear refuse an answer with a payload.       *)

cl_ram_map_put == WithCaps(Draining("ram.put", {0}))
cl_ram_map_get == WithCaps(Draining("ram.get", 0 .. Room))
cl_ram_map_remove == WithCaps(Draining("ram.remove", {0}))
cl_ram_map_clear == WithCaps(Draining("ram.clear", {0}))

-----------------------------------------------------------------------------
(* net.c                                                                    *)

cl_net_status == Draining("net.status", {15})
cl_net_config_get == Draining("net.config_get", {27})
cl_net_config_set == StatusOnly("net.config_set")
cl_net_web_control == StatusOnly("net.web_control")
cl_net_scan == Checked(Draining("net.scan", 0 .. Room))
cl_net_resolve_ipv4 == Checked(Draining("net.resolve", {1}))
cl_net_open == Checked(Draining("net.open", {1}))
cl_net_bind == Checked(Draining("net.bind", {1}))
cl_net_listen == StatusOnly("net.listen")
cl_net_accept == Checked(Draining("net.accept", {0, 3}))
cl_net_close == StatusOnly("net.close")
cl_net_poll == Draining("net.poll", {1})
cl_net_send == Checked(Draining("net.send", {1}))
cl_net_sendto == Checked(Draining("net.sendto", {1}))
cl_net_recv == Draining("net.recv", 0 .. Room)
cl_net_recvfrom == Draining("net.recvfrom", {0} \cup (2 .. 2 + Room))

-----------------------------------------------------------------------------
(* ble.c                                                                    *)

cl_ble_scan_start == StatusOnly("ble.scan_start")
cl_ble_scan_stop == StatusOnly("ble.scan_stop")
cl_ble_connect == Draining("ble.connect", {1})
cl_ble_disconnect == StatusOnly("ble.disconnect")
cl_ble_gatt_find_chr16 == Draining("ble.find_chr16", {2})
cl_ble_gatt_find_service == Draining("ble.find_service", {2})
cl_ble_gatt_find_chr == Draining("ble.find_chr", {3})
cl_ble_gatt_find_desc == Draining("ble.find_desc", {2})
cl_ble_gatt_read == Draining("ble.read", 0 .. Room)
cl_ble_gatt_write == Draining("ble.write", {1})
cl_ble_gatt_notify == StatusOnly("ble.notify")
cl_ble_event_next == Checked(Draining("ble.event_next", 3 .. 3 + Room))
cl_ble_gatt_find_service128 == Draining("ble.find_service128", {2})
cl_ble_gatt_find_chr128 == Draining("ble.find_chr128", {3})
cl_ble_gatt_find_desc128 == Draining("ble.find_desc128", {2})
cl_ble_scan_start_ex == DrainedAck("ble.scan_start")
cl_ble_conn_update == DrainedAck("ble.conn_update")
cl_ble_exchange_mtu == Draining("ble.exchange_mtu", {1})
cl_ble_conn_info == Draining("ble.conn_info", {8})
cl_ble_gatt_read_long == Draining("ble.read_long", 0 .. Room)
cl_ble_gatt_write_long == Draining("ble.write_long", {1})
cl_ble_security_config == DrainedAck("ble.security_config")
cl_ble_pair == DrainedAck("ble.pair")
cl_ble_passkey_reply == DrainedAck("ble.passkey_reply")
cl_ble_gatts_reset == DrainedAck("ble.gatts_reset")
ble_gatts_add_service == Draining("ble.gatts_add_service", {1})
cl_ble_gatts_add_include == DrainedAck("ble.gatts_add_include")
ble_gatts_add_attr == Draining("ble.gatts_add_attr", {1})
cl_ble_gatts_start == DrainedAck("ble.gatts_start")
cl_ble_gatts_stop == DrainedAck("ble.gatts_stop")
cl_ble_adv_start == DrainedAck("ble.adv_start")
cl_ble_adv_stop == DrainedAck("ble.adv_stop")
cl_ble_gatts_notify == Draining("ble.gatts_notify", {1})
cl_ble_gatts_set_value == DrainedAck("ble.gatts_set_value")
cl_ble_gatts_get_value == Draining("ble.gatts_get_value", 0 .. Room)
cl_ble_gatts_subscribed == Draining("ble.gatts_subscribed", {1})

-----------------------------------------------------------------------------
(* stream_client.c                                                          *)

cl_stream_open == Checked(StreamAnswer("stream.open", {4}))
cl_stream_poll == StreamAnswer("stream.poll", {4})
stream_recv_payload == Fast(StreamAnswer("stream.recv", 0 .. Room))
cl_stream_send == StreamAnswer("stream.send", {1})
cl_stream_close == StreamAck("stream.close")
cl_stream_credit == StreamAck("stream.credit")
cl_stream_seek == StreamAck("stream.seek")
cl_stream_pump == StreamAck("stream.pump")
=============================================================================
