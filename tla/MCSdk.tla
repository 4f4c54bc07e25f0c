-------------------------------- MODULE MCSdk --------------------------------
(***************************************************************************)
(* The client's side of the SDK, one component at a time: part says which   *)
(* of them moves; the others stay as they are after their initialisation.   *)
(*                                                                          *)
(* The wire moves through two kinds of histories: one call, of any kind and *)
(* with an answer of any of the lengths (wide), or up to MaxCalls calls of  *)
(* the kinds that treat their answers differently, with answers that are    *)
(* empty, short or longer than the words that may be skipped (Few).  The    *)
(* file layer meets MaxMishaps kinds of mishaps in a history.  Bluetooth     *)
(* has connections as a central and no messages (wide), or messages.        *)
(***************************************************************************)
EXTENDS WireClient, StreamClient, FileLayer, CopyStream, SocketTable, BleLink,
        FileChecks, GameDatabase, DirListing, SocketCalls, Parsing

CONSTANTS Few, MaxMishaps

VARIABLES part, wide

wireAll == <<wireVars, wide>>
sdkVars == <<part, wireAll, streamVars, fileVars, copyVars, socketVars, bleVars, checkVars, dbVars,
             dirVars, callVars, parseVars>>

\* All the calls of ClientCalls.
StorageCalls ==
  {cl_storage_open, cl_storage_close, storage_read, storage_write_chunk, cl_storage_seek,
   cl_storage_flush, cl_storage_stat, cl_storage_fstat, cl_storage_copy,
   cl_storage_remove, cl_storage_mkdir, cl_storage_rename, cl_storage_crc32_ex,
   cl_storage_list}

OtherCalls ==
  {cl_client_hello, cl_client_poll, cl_client_request_caps, cl_client_set_poll_ticks,
   cl_ram_map_put, cl_ram_map_get, cl_ram_map_remove, cl_ram_map_clear,
   cl_net_status, cl_net_config_get, cl_net_config_set, cl_net_web_control, cl_net_scan,
   cl_net_resolve_ipv4, cl_net_open, cl_net_bind, cl_net_listen, cl_net_accept,
   cl_net_close, cl_net_poll, cl_net_send, cl_net_sendto, cl_net_recv, cl_net_recvfrom,
   cl_stream_open, cl_stream_poll, stream_recv_payload, cl_stream_send,
   cl_stream_close, cl_stream_credit, cl_stream_seek, cl_stream_pump}

BleCalls ==
  {cl_ble_scan_start, cl_ble_scan_stop, cl_ble_connect, cl_ble_disconnect,
   cl_ble_gatt_find_chr16, cl_ble_gatt_find_service, cl_ble_gatt_find_chr,
   cl_ble_gatt_find_desc, cl_ble_gatt_read, cl_ble_gatt_write, cl_ble_gatt_notify,
   cl_ble_event_next, cl_ble_gatt_find_service128, cl_ble_gatt_find_chr128,
   cl_ble_gatt_find_desc128, cl_ble_scan_start_ex, cl_ble_conn_update,
   cl_ble_exchange_mtu, cl_ble_conn_info, cl_ble_gatt_read_long, cl_ble_gatt_write_long,
   cl_ble_security_config, cl_ble_pair, cl_ble_passkey_reply, cl_ble_gatts_reset,
   ble_gatts_add_service, cl_ble_gatts_add_include, ble_gatts_add_attr,
   cl_ble_gatts_start, cl_ble_gatts_stop, cl_ble_adv_start, cl_ble_adv_stop,
   cl_ble_gatts_notify, cl_ble_gatts_set_value, cl_ble_gatts_get_value,
   cl_ble_gatts_subscribed}

AllCalls == StorageCalls \cup OtherCalls \cup BleCalls

\* One call for each way of treating an answer: part of it read, only the status
\* looked at, and a blind drain; and one whose command may be cut short.
Kinds == {cl_storage_close, cl_stream_close, cl_storage_crc32_ex, storage_write_chunk}

OneSetup == CHOOSE s \in Setups : TRUE

SdkInit ==
  /\ part \in {"wire", "stream", "file", "copy", "socket", "ble", "check", "db", "dir", "calls", "parse"}
  /\ wide \in IF part \in {"wire", "ble"} THEN BOOLEAN ELSE {FALSE}
  /\ WireInit /\ StreamInit /\ FileInit /\ SocketInit /\ BleInit
  /\ CopyInit
  /\ part # "copy" => setup = OneSetup
  /\ IF part = "check" THEN CheckInit
     ELSE /\ ordered = CHOOSE o \in Orders : o.kind = "range"
          /\ files = [source |-> <<>>, target |-> <<>>] /\ CheckBegins
  /\ IF part = "db" THEN DbInit
     ELSE records = <<>> /\ width = 5 /\ game_code = 1 /\ DbBegins
  /\ DirInit
  /\ part # "dir" => way = "paged"
  /\ CallInit
  /\ part # "calls" => \A fd \in Descriptors : slots[fd].state = "free"
  /\ IF part = "parse" THEN ParseInit
     ELSE posed = [what |-> "text", text |-> <<>>] /\ parsed = <<>>

SdkNext ==
  \/ /\ part = "wire" /\ WireNext
     /\ IF wide THEN call'.id <= 1
        ELSE /\ call'.id # call.id => call'.of \in Kinds
             /\ \A i \in 1 .. Len(line') : line'[i].length \in Few
     /\ UNCHANGED wide
     /\ UNCHANGED <<part, streamVars, fileVars, copyVars, socketVars, bleVars, checkVars,
                    dbVars, dirVars, callVars, parseVars>>
  \/ /\ part = "stream" /\ StreamNext
     /\ UNCHANGED <<part, wireAll, fileVars, copyVars, socketVars, bleVars, checkVars,
                    dbVars, dirVars, callVars, parseVars>>
  \/ /\ part = "file" /\ FileNext
     /\ Cardinality(events') <= MaxMishaps
     /\ UNCHANGED <<part, wireAll, streamVars, copyVars, socketVars, bleVars, checkVars,
                    dbVars, dirVars, callVars, parseVars>>
  \/ /\ part = "copy" /\ CopyNext
     /\ UNCHANGED <<part, wireAll, streamVars, fileVars, socketVars, bleVars, checkVars,
                    dbVars, dirVars, callVars, parseVars>>
  \/ /\ part = "socket" /\ SocketNext
     /\ UNCHANGED <<part, wireAll, streamVars, fileVars, copyVars, bleVars, checkVars,
                    dbVars, dirVars, callVars, parseVars>>
  \/ /\ part = "ble" /\ BleNext
     /\ IF wide THEN value' = 0 ELSE conns' = {}
     /\ UNCHANGED wide
     /\ UNCHANGED <<part, wireVars, streamVars, fileVars, copyVars, socketVars, checkVars,
                    dbVars, dirVars, callVars, parseVars>>
  \/ /\ part = "check" /\ CheckNext
     /\ UNCHANGED <<part, wireAll, streamVars, fileVars, copyVars, socketVars, bleVars,
                    dbVars, dirVars, callVars, parseVars>>
  \/ /\ part = "db" /\ DbNext
     /\ UNCHANGED <<part, wireAll, streamVars, fileVars, copyVars, socketVars, bleVars,
                    checkVars, dirVars, callVars, parseVars>>
  \/ /\ part = "dir" /\ DirNext
     /\ UNCHANGED <<part, wireAll, streamVars, fileVars, copyVars, socketVars, bleVars,
                    checkVars, dbVars, callVars, parseVars>>
  \/ /\ part = "calls" /\ CallNext
     /\ UNCHANGED <<part, wireAll, streamVars, fileVars, copyVars, socketVars, bleVars,
                    checkVars, dbVars, dirVars, parseVars>>
  \/ /\ part = "parse" /\ ParseNext
     /\ UNCHANGED <<part, wireAll, streamVars, fileVars, copyVars, socketVars, bleVars,
                    checkVars, dbVars, dirVars, callVars>>

SdkSpec == SdkInit /\ [][SdkNext]_sdkVars

\* Of the codes 1 to 6, what the records say of the save memory: each of the kinds.
GameSaves == [c \in Codes |-> [short |-> c - 1, size |-> IF c = 3 THEN 0 ELSE c]]

\* Reading and writing, with and without a descriptor that is not asked for, past nfds or
\* not there.
SelectAsks ==
  [nfds : {3}, read : {{1, 2}, {2}}, write : {{1}, {1, 2}}, except : {{}}]
  \cup [nfds : {0, 2}, read : {{1, 2}}, write : {{2}}, except : {{}}]
  \cup [nfds : {4}, read : {{}, {1}}, write : {{}}, except : {{}, {2}, {3}}]

AdvFields == {<<9>>, <<8, 1>>, <<9, 2, 3>>, <<7, 4, 5>>, <<6, 5, 5, 4, 5>>, <<6, 5, 4, 5>>, <<1, 9>>}
AdvUuids == {<<4, 5>>, <<5, 4>>}
=============================================================================
