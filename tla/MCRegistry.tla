------------------------------ MODULE MCRegistry ------------------------------
(* Tables of three drivers: a host that registers one of its own before     *)
(* nc_drivers_init leaves no room for the last built-in of that class, and  *)
(* a second nc_drivers_init meets full tables.                              *)
EXTENDS Registry

MCHostDrivers == {<<"net", "host_net">>, <<"wifi", "host_wifi">>}

MCDevices ==
    {{}, {"host_net"}, {"r8169", "ath9k"}, {"rtl8188"}, {"host_wifi", "virtio_net"},
     {"ahci"}}
===============================================================================
